------------------------------- MODULE RKUnicode -------------------------------
(***************************************************************************)
(* RKUnicode.m: the two walks over the UTF-8 bytes of a string that turn a *)
(* range of bytes into one of UTF-16 units, as NSString counts, and back.  *)
(* A string buffer is the sequence of the lengths of its characters in     *)
(* UTF-8, 1 to 4 bytes, and its encoding; a character of four bytes is a   *)
(* surrogate pair in UTF-16.  Locations and lengths are unsigned words.    *)
(***************************************************************************)
EXTENDS Integers, Sequences, FiniteSetsExt

CONSTANT Word  \* the number of values of an RKUInteger

ASSUME WordAssumption == Word \in Nat /\ Word > 3

NSNotFound == Word \div 2 - 1

NSMakeRange(location, length) == [location |-> location % Word, length |-> length % Word]
NSMaxRange(r) == (r.location + r.length) % Word
NotFound == NSMakeRange(NSNotFound, 0)

\* utf8ExtraUTF16Characters
Units(utf8Length) == IF utf8Length = 4 THEN 2 ELSE 1

\* Where the walk stands after i characters: p and utf16len.
Bytes(string, i) == SumFunctionOnSet(string.characters, 1..i)
UTF16(string, i) == SumFunctionOnSet([k \in DOMAIN string.characters |->
                                        Units(string.characters[k])], 1..i)

Steps(string) == 0..Len(string.characters)
ByteLength(string) == Bytes(string, Len(string.characters))
Length(string) == UTF16(string, Len(string.characters))

\* A range that both functions convert; any other raises.
InString(r, length) ==
  r.location = NSNotFound \/ (r.location <= length /\ NSMaxRange(r) <= length)

\* The location is noted when the walk stands on it, and only then; the walk
\* ends at the first character that begins at or behind the end of the range.
Walk(from, to, r, steps) ==
  LET last == Min({i \in steps : from[i] >= NSMaxRange(r)})
      on == {i \in steps : i <= last /\ from[i] = r.location}
      location == IF on = {} THEN NSNotFound ELSE to[Min(on)]
  IN  NSMakeRange(location, to[last] - location)

RKutf8to16(string, r) ==
  IF r.location = NSNotFound \/ string.encoding = "ASCII" THEN r
  ELSE Walk([i \in Steps(string) |-> Bytes(string, i)],
            [i \in Steps(string) |-> UTF16(string, i)], r, Steps(string))

RKutf16to8(string, r) ==
  IF r.location = NSNotFound \/ string.encoding = "ASCII" THEN r
  ELSE Walk([i \in Steps(string) |-> UTF16(string, i)],
            [i \in Steps(string) |-> Bytes(string, i)], r, Steps(string))
===============================================================================
