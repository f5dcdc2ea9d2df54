---------------------------- MODULE RKStringReplace ----------------------------
(***************************************************************************)
(* Search and replace (NSString.m): the reference string is compiled into  *)
(* reference instructions; each match of the regex turns them into copy    *)
(* instructions, which at the end are the new string.  Both kinds are kept *)
(* in a buffer on the stack that moves to the heap when it is full.        *)
(*                                                                         *)
(* A character is where it comes from and the case it was given, a string  *)
(* the sequence of its characters; characters are one byte long.  What     *)
(* PCRE finds is chosen freely, but it finds the same if asked the same.   *)
(* The string returned is the text up to its end, as CoreFoundation makes  *)
(* it; what the copy buffer holds behind that is not looked at.            *)
(***************************************************************************)
EXTENDS Integers, Sequences

CONSTANTS
  Calls,               \* the calls a program may make
  CaptureCount,        \* the captures of the regex, with the whole match, 0
  StackInstructions,   \* RK_DEFAULT_STACK_INSTRUCTIONS
  RKReplaceAll,        \* the count that stands for all matches
  MaxMatches           \* bound on the matches of a call

\* The operations of instructions, and the tokens of a reference string: a
\* character that is copied, "$", a reference ($n, ${n}, ${name}, \n) and the
\* case conversions \u, \l, \U, \L and \E.
Stop == "stop"
CopyCaptureIndex == "capture"
CopyRange == "range"
UppercaseNextChar == "u"
LowercaseNextChar == "l"
UppercaseBegin == "U"
LowercaseBegin == "L"
ChangeCaseEnd == "E"
NoOp == "none"
Dollar == "$"
Text == "text"

NextCharOps == {UppercaseNextChar, LowercaseNextChar}
BeginOps == {UppercaseBegin, LowercaseBegin}
CaseOps == NextCharOps \cup BeginOps \cup {ChangeCaseEnd}
Ops == CaseOps \cup {Stop, CopyCaptureIndex, CopyRange}

MakeRange(location, length) == [location |-> location, length |-> length]
NotFound == MakeRange(-1, 0)
RangesIn(from, to) ==
  {r \in [location : from..to, length : 0..(to - from)] : r.location + r.length <= to}

Token == [op : CaseOps \cup {CopyCaptureIndex, Dollar, Text}, capture : Nat]

\* A call: the length of the searched string, the range to search, how many
\* matches to replace, the reference string, whether it is made to replace or to
\* expand, on a mutable string or not, and whether it passes an NSError.
Call == [length : Nat, range : [location : Nat, length : Nat], count : Nat \cup {RKReplaceAll},
         reference : Seq(Token), kind : {"expand", "replace", "mutable"},
         error : BOOLEAN]

ASSUME CallsAssumption ==
  /\ Calls \subseteq Call
  /\ \A c \in Calls : c.range.location + c.range.length <= c.length
ASSUME CaptureCountAssumption == CaptureCount \in Nat \ {0}
ASSUME StackAssumption == StackInstructions \in Nat \ {0}
ASSUME ReplaceAllAssumption == RKReplaceAll \notin Nat
ASSUME MaxMatchesAssumption == MaxMatches \in Nat

VARIABLES
  pc,                  \* "compile", "search", "apply", "finish" or "done"
  call,                \* the call
  referenceIndex,      \* the next token of the reference string
  currentRange,        \* the tokens that are to be copied, not yet an instruction
  references,          \* the reference instructions
  copies,              \* the copy instructions
  searchIndex,         \* where the next search begins
  matchRanges,         \* what the last search found
  matchedCount,        \* the matches so far
  instructionIndex,    \* the next reference instruction for this match
  currentOp,           \* the case conversion in force
  lastOp,              \* the operation of the last instruction
  conversionString,    \* the text gathered for \U or \L
  result,              \* the characters of the string returned
  outcome,             \* "string", "unchanged", "null", "raised", or "none" yet
  searchedFrom,        \* history: where the last search began
  matches              \* history: matchRanges of every match

compileVars == <<referenceIndex, currentRange, references>>
applyVars == <<instructionIndex, currentOp, lastOp, conversionString>>
searchVars == <<searchIndex, matchRanges, matchedCount, searchedFrom, matches>>
returnVars == <<result, outcome>>
vars == <<pc, call, compileVars, copies, searchVars, applyVars, returnVars>>

-------------------------------------------------------------------------------
(* Text and buffers.                                                       *)

Character(from, at) == [from |-> from, at |-> at, case |-> "same"]
Slice(from, range) == [k \in 1..range.length |-> Character(from, range.location + k - 1)]
Convert(text, op) ==
  LET case == IF op \in {UppercaseNextChar, UppercaseBegin} THEN "upper" ELSE "lower"
  IN  [k \in DOMAIN text |-> [text[k] EXCEPT !.case = case]]

OnStack(buffer) == buffer.capacity = StackInstructions

\* Mutant: the buffer grows one instruction too late.
GrowLate(buffer, zero) ==
  IF Len(buffer.instructions) <= buffer.capacity THEN buffer
  ELSE [buffer EXCEPT
          !.instructions = IF OnStack(buffer) THEN [k \in DOMAIN @ |-> zero] ELSE @,
          !.capacity = @ + StackInstructions]

\* Mutant: the zeros are put in front whenever the buffer grows.
GrowAnew(buffer, zero) ==
  IF Len(buffer.instructions) < buffer.capacity THEN buffer
  ELSE [buffer EXCEPT !.instructions = [k \in DOMAIN @ |-> zero],
                      !.capacity = @ + StackInstructions]

\* A full buffer gets room for StackInstructions more.  When it first moves to
\* the heap, dataWithLength: has filled that room with zeros and appendBytes:
\* puts the old instructions behind it: zeros are read where they were.
Grow(buffer, zero) ==
  IF Len(buffer.instructions) < buffer.capacity THEN buffer
  ELSE [buffer EXCEPT
          !.instructions = IF OnStack(buffer) THEN [k \in DOMAIN @ |-> zero] ELSE @,
          !.capacity = @ + StackInstructions]

Instruction(op, range) == [op |-> op, range |-> range]
ZeroInstruction == Instruction(Stop, MakeRange(0, 0))

AppendInstruction(buffer, op, range) ==
  IF range.length = 0 /\ op = CopyRange THEN buffer
  ELSE [Grow(buffer, ZeroInstruction) EXCEPT
          !.instructions = Append(@, Instruction(op, range))]

\* The text lies right behind that of the last instruction.
Continues(instructions, text) ==
  /\ instructions # <<>>
  /\ LET last == instructions[Len(instructions)] IN
     /\ last # <<>>
     /\ last[Len(last)].case = "same" /\ text[1].case = "same"
     /\ last[Len(last)].from = text[1].from
     /\ last[Len(last)].at + 1 = text[1].at

\* Mutant: a copy that continues the last one is not counted.
AppendCopyUncounted(buffer, text) ==
  IF text = <<>> THEN buffer
  ELSE IF Continues(buffer.instructions, text)
  THEN [buffer EXCEPT !.instructions[Len(buffer.instructions)] = @ \o text]
  ELSE [Grow(buffer, <<>>) EXCEPT !.instructions = Append(@, text),
                                  !.copiedLength = @ + Len(text)]

AppendCopyInstruction(buffer, text) ==
  IF text = <<>> THEN buffer
  ELSE IF Continues(buffer.instructions, text)
  THEN [buffer EXCEPT !.instructions[Len(buffer.instructions)] = @ \o text,
                      !.copiedLength = @ + Len(text)]
  ELSE [Grow(buffer, <<>>) EXCEPT !.instructions = Append(@, text),
                                  !.copiedLength = @ + Len(text)]

\* The text the copy instructions spell.
EvaluateCopyInstructions(instructions) ==
  LET text[n \in 0..Len(instructions)] ==
        IF n = 0 THEN <<>> ELSE text[n - 1] \o instructions[n]
  IN  text[Len(instructions)]

-------------------------------------------------------------------------------
Init ==
  /\ pc = "compile"
  /\ call \in Calls
  /\ referenceIndex = 0 /\ currentRange = MakeRange(0, 0)
  /\ references = [instructions |-> <<>>, capacity |-> StackInstructions]
  /\ copies = [instructions |-> <<>>, capacity |-> StackInstructions, copiedLength |-> 0]
  /\ searchIndex = 0 /\ matchedCount = 0 /\ searchedFrom = -1 /\ matches = <<>>
  /\ matchRanges = [n \in 0..(CaptureCount - 1) |-> NotFound]
  /\ instructionIndex = 0 /\ currentOp = NoOp /\ lastOp = NoOp /\ conversionString = <<>>
  /\ result = <<>> /\ outcome = "none"

Return(how, text) ==
  /\ pc' = "done" /\ outcome' = how /\ result' = text

\* A search that fails raises in the methods without an error argument (call.error
\* FALSE).  Those with one return NULL, and store the error if the argument is not
\* NULL itself; there a mutable string is set to NULL, which raises, too.
Fail == Return(IF call.error /\ call.kind # "mutable" THEN "null" ELSE "raised", <<>>)

Replacing == call.kind # "expand"
SearchEnd == call.range.location + call.range.length

-------------------------------------------------------------------------------
(* RKCompileReferenceString: one action per token.                         *)

InReference(k) == k < Len(call.reference)
TokenAt(k) == call.reference[k + 1]
Compiling == pc = "compile" /\ InReference(referenceIndex)

\* The pending tokens become an instruction before the given one.
Flushed == AppendInstruction(references, CopyRange, currentRange)
Emit(op, capture) ==
  /\ references' = AppendInstruction(Flushed, op, MakeRange(capture, 0))
  /\ referenceIndex' = referenceIndex + 1
  /\ currentRange' = MakeRange(referenceIndex + 1, 0)

\* "$$" copies one of the two.
CompileDollars ==
  /\ Compiling /\ TokenAt(referenceIndex).op = Dollar
  /\ InReference(referenceIndex + 1) /\ TokenAt(referenceIndex + 1).op = Dollar
  /\ references' = AppendInstruction(references, CopyRange,
                                     [currentRange EXCEPT !.length = @ + 1])
  /\ referenceIndex' = referenceIndex + 2
  /\ currentRange' = MakeRange(referenceIndex + 2, 0)
  /\ UNCHANGED <<pc, call, copies, searchVars, applyVars, returnVars>>

CompileCapture ==
  /\ Compiling /\ TokenAt(referenceIndex).op = CopyCaptureIndex
  /\ TokenAt(referenceIndex).capture < CaptureCount
  /\ Emit(CopyCaptureIndex, TokenAt(referenceIndex).capture)
  /\ UNCHANGED <<pc, call, copies, searchVars, applyVars, returnVars>>

CompileCaseOp ==
  /\ Compiling /\ TokenAt(referenceIndex).op \in CaseOps
  /\ Emit(TokenAt(referenceIndex).op, 0)
  /\ UNCHANGED <<pc, call, copies, searchVars, applyVars, returnVars>>

CompileText ==
  /\ Compiling /\ TokenAt(referenceIndex).op = Text
  /\ referenceIndex' = referenceIndex + 1
  /\ currentRange' = [currentRange EXCEPT !.length = @ + 1]
  /\ UNCHANGED <<pc, call, references, copies, searchVars, applyVars, returnVars>>

\* A "$" that begins no reference, and a capture the regex does not have.  The
\* function that takes an NSError is not the one called: it always raises.
CompileFails ==
  /\ Compiling
  /\ \/ /\ TokenAt(referenceIndex).op = Dollar
        /\ ~(InReference(referenceIndex + 1) /\ TokenAt(referenceIndex + 1).op = Dollar)
     \/ /\ TokenAt(referenceIndex).op = CopyCaptureIndex
        /\ TokenAt(referenceIndex).capture >= CaptureCount
  /\ Return("raised", <<>>)
  /\ UNCHANGED <<call, compileVars, copies, searchVars, applyVars>>

\* The end of the reference string.  A replacement begins with what lies before
\* the range searched.
CompileEnds ==
  /\ pc = "compile" /\ ~InReference(referenceIndex)
  /\ references' = AppendInstruction(Flushed, Stop, NotFound)
  /\ searchIndex' = call.range.location
  /\ copies' = IF Replacing
               THEN AppendCopyInstruction(copies, Slice("subject", MakeRange(0, searchIndex')))
               ELSE copies
  /\ pc' = "search"
  /\ UNCHANGED <<call, referenceIndex, currentRange, matchRanges, matchedCount, searchedFrom,
                 matches, applyVars, returnVars>>

-------------------------------------------------------------------------------
(* The loop over the matches, RKStringByMatchingAndExpandingX.             *)

\* Mutant: the matches asked for are not counted.
SearchingUncounted == searchIndex < SearchEnd

Searching ==
  /\ searchIndex < SearchEnd
  /\ \/ call.count = RKReplaceAll
     \/ call.count # RKReplaceAll /\ matchedCount < call.count

\* The last search began at the same place, so PCRE answers the same.
SearchRepeated == matchedCount > 0 /\ searchedFrom = searchIndex

\* What getRanges may find: a match in the range, captures anywhere, or unset.
Found ==
  {ranges \in [0..(CaptureCount - 1) -> RangesIn(0, call.length) \cup {NotFound}] :
     ranges[0] \in RangesIn(searchIndex, SearchEnd)}

ApplyFrom(ranges) ==
  /\ copies' = IF Replacing
               THEN AppendCopyInstruction(copies, Slice("subject",
                      MakeRange(searchIndex, ranges[0].location - searchIndex)))
               ELSE copies
  /\ searchIndex' = ranges[0].location + ranges[0].length
  /\ matchRanges' = ranges /\ matches' = Append(matches, ranges)
  /\ searchedFrom' = searchIndex
  /\ instructionIndex' = 0 /\ currentOp' = NoOp
  /\ lastOp' = references.instructions[1].op
  /\ pc' = "apply"

Match ==
  /\ pc = "search" /\ Searching /\ matchedCount < MaxMatches
  /\ \/ SearchRepeated /\ ApplyFrom(matchRanges)
     \/ ~SearchRepeated /\ \E ranges \in Found : ApplyFrom(ranges)
  /\ UNCHANGED <<call, compileVars, matchedCount, conversionString, returnVars>>

SearchEnds ==
  /\ pc = "search"
  /\ ~Searching \/ ~SearchRepeated
  /\ pc' = "finish"
  /\ UNCHANGED <<call, compileVars, copies, searchVars, applyVars, returnVars>>

\* PCRE reports an error, such as its match limit.
SearchFails ==
  /\ pc = "search" /\ Searching /\ ~SearchRepeated
  /\ Fail
  /\ UNCHANGED <<call, compileVars, copies, searchVars, applyVars>>

-------------------------------------------------------------------------------
(* RKApplyReferenceInstructions: one action per instruction.               *)

Applying ==
  pc = "apply" /\ lastOp # Stop /\ instructionIndex < Len(references.instructions)
AtInstruction == references.instructions[instructionIndex + 1]
ThisOp == IF AtInstruction.op \in CaseOps THEN AtInstruction.op ELSE NoOp

\* The text the instruction stands for, <<>> if there is none.
Piece ==
  CASE AtInstruction.op = CopyRange -> Slice("reference", AtInstruction.range)
    [] AtInstruction.op = CopyCaptureIndex ->
         Slice("subject", matchRanges[AtInstruction.range.location])
    [] OTHER -> <<>>
HasPiece == ThisOp = NoOp /\ Piece # <<>>

EndsNothing ==
  /\ ThisOp = ChangeCaseEnd
  /\ currentOp = NoOp \/ (currentOp # ChangeCaseEnd /\ conversionString = <<>>)
EndsConversion ==
  /\ currentOp \in BeginOps /\ ThisOp # currentOp
  /\ ThisOp # NoOp \/ AtInstruction.op = Stop

\* Every iteration goes on to the next instruction.
NextInstruction == instructionIndex' = instructionIndex + 1 /\ lastOp' = AtInstruction.op

EndNothing ==
  /\ Applying /\ EndsNothing
  /\ currentOp' = NoOp
  /\ NextInstruction
  /\ UNCHANGED <<pc, call, compileVars, copies, searchVars, conversionString, returnVars>>

CopyPiece ==
  /\ Applying /\ HasPiece /\ currentOp = NoOp
  /\ copies' = AppendCopyInstruction(copies, Piece)
  /\ NextInstruction
  /\ UNCHANGED <<pc, call, compileVars, searchVars, currentOp, conversionString, returnVars>>

GatherPiece ==
  /\ Applying /\ HasPiece /\ currentOp \in BeginOps
  /\ conversionString' = conversionString \o Piece
  /\ NextInstruction
  /\ UNCHANGED <<pc, call, compileVars, copies, searchVars, currentOp, returnVars>>

\* Mutant: the converted text is not taken out of conversionString.
EndConversionKeeping ==
  /\ Applying /\ EndsConversion /\ ~EndsNothing
  /\ copies' = AppendCopyInstruction(copies, Convert(conversionString, currentOp))
  /\ currentOp' = IF ThisOp = ChangeCaseEnd THEN NoOp ELSE ThisOp
  /\ NextInstruction
  /\ UNCHANGED <<pc, call, compileVars, searchVars, conversionString, returnVars>>

\* Another operation or the end of the instructions ends \U or \L.
EndConversion ==
  /\ Applying /\ EndsConversion /\ ~EndsNothing
  /\ copies' = AppendCopyInstruction(copies, Convert(conversionString, currentOp))
  /\ conversionString' = <<>>
  /\ currentOp' = IF ThisOp = ChangeCaseEnd THEN NoOp ELSE ThisOp
  /\ NextInstruction
  /\ UNCHANGED <<pc, call, compileVars, searchVars, returnVars>>

\* \u and \l convert the first character of the next piece that has one.
ConvertNextChar ==
  /\ Applying /\ HasPiece /\ currentOp \in NextCharOps
  /\ copies' = AppendCopyInstruction(
                 AppendCopyInstruction(copies, Convert(<<Head(Piece)>>, currentOp)), Tail(Piece))
  /\ currentOp' = NoOp
  /\ NextInstruction
  /\ UNCHANGED <<pc, call, compileVars, searchVars, conversionString, returnVars>>

\* Whatever is none of the above ends in currentOp = thisOp: an operation that
\* begins, but also a reference to an empty capture, and then thisOp is 0.
ChangeOp ==
  /\ Applying /\ ~EndsNothing /\ ~EndsConversion
  /\ ~HasPiece \/ currentOp = ChangeCaseEnd
  /\ currentOp' = ThisOp
  /\ NextInstruction
  /\ UNCHANGED <<pc, call, compileVars, copies, searchVars, conversionString, returnVars>>

ApplyEnds ==
  /\ pc = "apply" /\ ~Applying
  /\ conversionString' = <<>>
  /\ matchedCount' = matchedCount + 1
  /\ pc' = "search"
  /\ UNCHANGED <<call, compileVars, copies, searchIndex, matchRanges, searchedFrom, matches,
                 instructionIndex, currentOp, lastOp, returnVars>>

-------------------------------------------------------------------------------
\* What lies behind the last match is copied.  Only the empty string, searched
\* in vain, is returned as it is: the test compares the rest with the number of
\* copy instructions.
Finish ==
  /\ pc = "finish"
  /\ LET rest == MakeRange(searchIndex, call.length - searchIndex)
         unchanged == Replacing /\ copies.instructions = <<>> /\ rest = MakeRange(0, 0)
     IN  /\ copies' = IF Replacing THEN AppendCopyInstruction(copies, Slice("subject", rest))
                      ELSE copies
         /\ IF unchanged THEN Return("unchanged", <<>>)
            ELSE Return("string", EvaluateCopyInstructions(copies'.instructions))
  /\ UNCHANGED <<call, compileVars, searchVars, applyVars>>

\* The call has returned, or the model ends a loop that would not: all matches
\* are to be replaced, and one of no characters is found over and over.
Spinning == pc = "search" /\ Searching /\ SearchRepeated /\ matchedCount = MaxMatches
Done == (pc = "done" \/ Spinning) /\ UNCHANGED vars

Compile ==
  \/ CompileDollars
  \/ CompileCapture
  \/ CompileCaseOp
  \/ CompileText
  \/ CompileFails
  \/ CompileEnds

Search ==
  \/ Match
  \/ SearchEnds
  \/ SearchFails

Apply ==
  \/ EndNothing
  \/ CopyPiece
  \/ GatherPiece
  \/ EndConversion
  \/ ConvertNextChar
  \/ ChangeOp
  \/ ApplyEnds

Next ==
  \/ Compile
  \/ Search
  \/ Apply
  \/ Finish
  \/ Done

Spec == Init /\ [][Next]_vars

\* The thread that called runs on.
FairSpec == Spec /\ WF_vars(Next)
-------------------------------------------------------------------------------
(* Types and bounds.                                                       *)

Ranges == [location : Nat \cup {-1}, length : Nat]
Texts == Seq([from : {"subject", "reference"}, at : Int, case : {"same", "upper", "lower"}])
Captures == 0..(CaptureCount - 1)

\* What an instruction copies lies in the reference string, or is a capture.
Instructions ==
  {i \in [op : Ops, range : Ranges] :
     /\ i.op = CopyCaptureIndex => i.range.location \in Captures
     /\ i.op = CopyRange => /\ i.range.location \in Nat
                            /\ i.range.location + i.range.length <= Len(call.reference)}

\* The values each variable may have.
TypeOK ==
  /\ pc \in {"compile", "search", "apply", "finish", "done"}
  /\ call \in Calls
  /\ referenceIndex \in Nat
  /\ currentRange \in [location : Nat, length : Nat]
  /\ references \in [instructions : Seq(Instructions), capacity : Nat]
  /\ copies \in [instructions : Seq(Texts), capacity : Nat, copiedLength : Nat]
  /\ searchIndex \in Nat
  /\ matchRanges \in [Captures -> RangesIn(0, call.length) \cup {NotFound}]
  /\ matchedCount \in Nat
  /\ searchedFrom \in Int
  /\ instructionIndex \in Nat
  /\ currentOp \in CaseOps \cup {NoOp}
  /\ lastOp \in Ops \cup {NoOp}
  /\ conversionString \in Texts
  /\ outcome \in {"string", "unchanged", "null", "raised", "none"}

\* Nothing is written behind the end of a buffer, and nothing read behind that of
\* a string: the tokens gathered (NSString.m:1012-1072) exist, and the next search
\* begins where the last match ended (779), inside the range asked for, so that
\* the lengths computed by subtraction (773, 778, 787) are not negative.
InBounds ==
  /\ Len(references.instructions) <= references.capacity
  /\ Len(copies.instructions) <= copies.capacity
  /\ currentRange.location + currentRange.length = referenceIndex
  /\ referenceIndex <= Len(call.reference)
  /\ pc \in {"search", "apply", "finish"} => searchIndex \in call.range.location..SearchEnd
  /\ pc = "apply" \/ matchedCount > 0 =>
       /\ matchRanges[0] \in RangesIn(searchedFrom, SearchEnd)
       /\ searchIndex = matchRanges[0].location + matchRanges[0].length

\* The buffer the new string is copied to, copiedLength bytes, holds the text of
\* all copy instructions, and is filled unless they were moved to the heap.
CopyFits ==
  LET length == Len(EvaluateCopyInstructions(copies.instructions)) IN
  /\ length <= copies.copiedLength
  /\ OnStack(copies) => length = copies.copiedLength
=============================================================================
