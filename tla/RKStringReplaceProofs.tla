------------------------- MODULE RKStringReplaceProofs -------------------------
(***************************************************************************)
(* RKStringReplace stays inside its buffers and strings, the text it       *)
(* copies fits the new string, and what it returns is what ReplacedText    *)
(* says, or the end of it, for every reference string, regex and size of   *)
(* the buffers on the stack.                                               *)
(*                                                                         *)
(* The text returned is followed through the call: compiled instructions   *)
(* stand for the tokens read (Parsed), the matches are what was found      *)
(* (Followed), and the copy buffer keeps what should be returned so far    *)
(* (SoFar).  That each token or text more adds what it should is proved    *)
(* by induction on their number (NatInduct).                               *)
(***************************************************************************)
EXTENDS ReplacedText, SequenceTheorems, FiniteSetTheorems, WellFoundedInduction, TLAPS

Characters == [from : {"subject", "reference"}, at : Int, case : {"same", "upper", "lower"}]
ReferenceBuffers == [instructions : Seq(Instructions), capacity : Nat]
CopyBuffers == [instructions : Seq(Texts), capacity : Nat, copiedLength : Nat]
Full(buffer) == Len(buffer.instructions) > buffer.capacity

\* The ranges that are copied.
CopyRanges == [location : Nat, length : Nat]

-------------------------------------------------------------------------------
(* Text.                                                                   *)

\* A function on 1..n is a sequence of length n.
LEMMA FunctionIsSeq ==
  ASSUME NEW S, NEW n \in Nat, NEW f \in [1..n -> S]
  PROVE  f \in Seq(S) /\ Len(f) = n
<1>1. f \in Seq(S)  BY SeqDef
<1>2. DOMAIN f = 1..n /\ DOMAIN f = 1..Len(f) /\ Len(f) \in Nat  BY <1>1, LenProperties
<1> QED  BY <1>1, <1>2

\* A slice is a text (Slice, a range of a string).
LEMMA SliceIsText ==
  ASSUME NEW from \in {"subject", "reference"},
         NEW range, range.location \in Int, range.length \in Nat
  PROVE  Slice(from, range) \in Texts
<1>1. \A k \in 1..range.length : Character(from, range.location + k - 1) \in Characters
  BY DEF Character, Characters
<1>2. Slice(from, range) \in [1..range.length -> Characters]  BY <1>1 DEF Slice
<1> QED  BY <1>2, FunctionIsSeq DEF Texts, Characters

\* A converted text is a text (NSString.m:951).
LEMMA ConvertIsText ==
  ASSUME NEW text \in Texts, NEW op
  PROVE  Convert(text, op) \in Texts
<1>1. text \in Seq(Characters)  BY DEF Texts, Characters
<1>2. /\ Len(text) \in Nat /\ DOMAIN text = 1..Len(text)
      /\ \A k \in 1..Len(text) : text[k] \in Characters
  BY <1>1, LenProperties
<1> DEFINE case == IF op \in {UppercaseNextChar, UppercaseBegin} THEN "upper" ELSE "lower"
<1>3. ASSUME NEW k \in 1..Len(text)
      PROVE  [text[k] EXCEPT !.case = case] \in Characters
  <2>1. text[k] \in Characters /\ case \in {"same", "upper", "lower"}  BY <1>2
  <2> HIDE DEF case
  <2> QED  BY <2>1 DEF Characters
<1>4. Convert(text, op) \in [1..Len(text) -> Characters]  BY <1>2, <1>3 DEF Convert
<1> QED  BY <1>2, <1>4, FunctionIsSeq DEF Texts, Characters

\* The first character of a text, and the rest of it.
LEMMA PartsAreTexts ==
  ASSUME NEW text \in Texts, text # <<>>
  PROVE  <<Head(text)>> \in Texts /\ Tail(text) \in Texts
<1>1. text \in Seq(Characters)  BY DEF Texts, Characters
<1>2. Head(text) \in Characters /\ Tail(text) \in Seq(Characters)
  BY <1>1, HeadTailProperties
<1>3. <<Head(text)>> \in Seq(Characters)  BY <1>2
<1> QED  BY <1>2, <1>3 DEF Texts, Characters

-------------------------------------------------------------------------------
(* Buffers.                                                                *)

\* A buffer that has grown has room for an instruction (NSString.m:1087-1102).
LEMMA GrowMakesRoom ==
  ASSUME NEW S, NEW zero \in S, NEW buffer, NEW B,
         \/ B = [instructions : Seq(S), capacity : Nat]
         \/ B = [instructions : Seq(S), capacity : Nat, copiedLength : Nat],
         buffer \in B, ~Full(buffer)
  PROVE  /\ Grow(buffer, zero) \in B
         /\ Len(Grow(buffer, zero).instructions) < Grow(buffer, zero).capacity
<1>1. buffer.instructions \in Seq(S) /\ buffer.capacity \in Nat
  <2>1. CASE B = [instructions : Seq(S), capacity : Nat]  BY <2>1
  <2>2. CASE B = [instructions : Seq(S), capacity : Nat, copiedLength : Nat]  BY <2>2
  <2> QED  BY <2>1, <2>2
<1>2. StackInstructions \in Nat \ {0}  BY StackAssumption
<1>3. CASE Len(buffer.instructions) < buffer.capacity
  BY <1>3 DEF Grow
<1>4. CASE ~(Len(buffer.instructions) < buffer.capacity)
  <2> DEFINE zeros == [k \in DOMAIN buffer.instructions |-> zero]
             kept == IF OnStack(buffer) THEN zeros ELSE buffer.instructions
  <2>1. Grow(buffer, zero)
          = [buffer EXCEPT !.instructions = kept, !.capacity = @ + StackInstructions]
    BY <1>4 DEF Grow
  <2>2. zeros \in Seq(S) /\ Len(zeros) = Len(buffer.instructions)
    <3>1. DOMAIN buffer.instructions = 1..Len(buffer.instructions)  BY <1>1
    <3>2. zeros \in [1..Len(buffer.instructions) -> S]  BY <3>1
    <3>3. Len(buffer.instructions) \in Nat  BY <1>1
    <3> QED  BY <3>2, <3>3, FunctionIsSeq
  <2>3. kept \in Seq(S) /\ Len(kept) = Len(buffer.instructions)  BY <1>1, <2>2
  <2>4. Len(buffer.instructions) <= buffer.capacity  BY <1>1 DEF Full
  <2> HIDE DEF kept
  <2>5. Grow(buffer, zero).instructions = kept
        /\ Grow(buffer, zero).capacity = buffer.capacity + StackInstructions
    BY <2>1
  <2>6. Grow(buffer, zero) \in B
    <3>1. buffer.capacity + StackInstructions \in Nat  BY <1>1, <1>2
    <3>2. CASE B = [instructions : Seq(S), capacity : Nat]
      BY <2>1, <2>3, <3>1, <3>2
    <3>3. CASE B = [instructions : Seq(S), capacity : Nat, copiedLength : Nat]
      BY <2>1, <2>3, <3>1, <3>3
    <3> QED  BY <3>2, <3>3
  <2> QED  BY <1>1, <1>2, <2>3, <2>4, <2>5, <2>6
<1> QED  BY <1>3, <1>4

\* Appending keeps to the room there is (RKAppendInstruction).
LEMMA AppendInstructionFits ==
  ASSUME NEW buffer \in ReferenceBuffers, ~Full(buffer),
         NEW op, NEW range,
         (range.length = 0 /\ op = CopyRange) \/ Instruction(op, range) \in Instructions
  PROVE  /\ AppendInstruction(buffer, op, range) \in ReferenceBuffers
         /\ ~Full(AppendInstruction(buffer, op, range))
         /\ op # CopyRange => AppendInstruction(buffer, op, range).instructions # <<>>
<1>1. CASE range.length = 0 /\ op = CopyRange
  BY <1>1 DEF AppendInstruction
<1>2. CASE ~(range.length = 0 /\ op = CopyRange)
  <2> DEFINE grown == Grow(buffer, ZeroInstruction)
             appended == [grown EXCEPT !.instructions = Append(@, Instruction(op, range))]
  <2>1. AppendInstruction(buffer, op, range) = appended  BY <1>2 DEF AppendInstruction
  <2>2. ZeroInstruction \in Instructions
    BY DEF ZeroInstruction, Instruction, Instructions, MakeRange, Ranges, Ops, Stop,
           CopyCaptureIndex, CopyRange
  <2>3. grown \in ReferenceBuffers /\ Len(grown.instructions) < grown.capacity
    BY <2>2, GrowMakesRoom DEF ReferenceBuffers
  <2> HIDE DEF grown
  <2>4. grown.instructions \in Seq(Instructions) /\ grown.capacity \in Nat
    BY <2>3 DEF ReferenceBuffers
  <2>5. /\ Append(grown.instructions, Instruction(op, range)) \in Seq(Instructions)
        /\ Len(Append(grown.instructions, Instruction(op, range))) = Len(grown.instructions) + 1
    BY <1>2, <2>4
  <2>6. appended \in ReferenceBuffers  BY <2>3, <2>5 DEF ReferenceBuffers
  <2>7. /\ appended.instructions = Append(grown.instructions, Instruction(op, range))
        /\ appended.capacity = grown.capacity
    BY <2>3 DEF ReferenceBuffers
  <2>8. ~Full(appended)  BY <2>3, <2>4, <2>5, <2>7 DEF Full
  <2>9. appended.instructions # <<>>  BY <1>2, <2>4, <2>7, AppendProperties
  <2> QED  BY <2>1, <2>6, <2>8, <2>9
<1> QED  BY <1>1, <1>2

\* A record whose fields are given new values of their kind is still one.
LEMMA RecordUpdate ==
  ASSUME NEW A, NEW B, NEW C, NEW r \in [instructions : A, capacity : B, copiedLength : C],
         NEW x \in A, NEW y \in C
  PROVE  [r EXCEPT !.instructions = x, !.copiedLength = y]
           \in [instructions : A, capacity : B, copiedLength : C]
OBVIOUS

\* So does RKAppendCopyInstruction, whether it appends or merges.
LEMMA AppendCopyFits ==
  ASSUME NEW buffer \in CopyBuffers, ~Full(buffer), NEW text \in Texts
  PROVE  /\ AppendCopyInstruction(buffer, text) \in CopyBuffers
         /\ ~Full(AppendCopyInstruction(buffer, text))
<1>0. /\ buffer.instructions \in Seq(Texts) /\ buffer.capacity \in Nat
      /\ buffer.copiedLength \in Nat /\ Len(text) \in Nat
  BY DEF CopyBuffers, Texts
<1>1. CASE text = <<>>
  BY <1>1 DEF AppendCopyInstruction
<1>2. CASE text # <<>> /\ Continues(buffer.instructions, text)
  <2> DEFINE n == Len(buffer.instructions)
             merged == [buffer.instructions EXCEPT ![n] = @ \o text]
             after == [buffer EXCEPT !.instructions = merged, !.copiedLength = @ + Len(text)]
  <2>1. buffer.instructions # <<>>  BY <1>2 DEF Continues
  <2>2. n \in Nat \ {0} /\ buffer.instructions[n] \in Texts  BY <1>0, <2>1
  <2>3. buffer.instructions[n] \o text \in Texts  BY <2>2 DEF Texts
  <2>4. merged \in Seq(Texts) /\ Len(merged) = n  BY <1>0, <2>2, <2>3
  <2>5. AppendCopyInstruction(buffer, text) = after  BY <1>2 DEF AppendCopyInstruction
  <2> HIDE DEF merged, n
  <2>6. after \in CopyBuffers
    <3>1. buffer.copiedLength + Len(text) \in Nat  BY <1>0
    <3> QED  BY <2>4, <3>1, RecordUpdate DEF CopyBuffers
  <2>7. after.instructions = merged /\ after.capacity = buffer.capacity  BY DEF CopyBuffers
  <2>8. ~Full(after)  BY <2>4, <2>7 DEF Full, n
  <2> QED  BY <2>5, <2>6, <2>8
<1>3. CASE text # <<>> /\ ~Continues(buffer.instructions, text)
  <2> DEFINE grown == Grow(buffer, <<>>)
             after == [grown EXCEPT !.instructions = Append(@, text),
                                    !.copiedLength = @ + Len(text)]
  <2>1. AppendCopyInstruction(buffer, text) = after  BY <1>3 DEF AppendCopyInstruction
  <2>2. <<>> \in Texts  BY DEF Texts
  <2>3. grown \in CopyBuffers /\ Len(grown.instructions) < grown.capacity
    BY <2>2, GrowMakesRoom DEF CopyBuffers
  <2> HIDE DEF grown
  <2>4. /\ grown.instructions \in Seq(Texts) /\ grown.capacity \in Nat
        /\ grown.copiedLength \in Nat
    BY <2>3 DEF CopyBuffers
  <2>5. /\ Append(grown.instructions, text) \in Seq(Texts)
        /\ Len(Append(grown.instructions, text)) = Len(grown.instructions) + 1
    BY <2>4
  <2>6. after \in CopyBuffers
    <3>1. grown.copiedLength + Len(text) \in Nat  BY <1>0, <2>4
    <3> QED  BY <2>3, <2>5, <3>1, RecordUpdate DEF CopyBuffers
  <2>7. after.instructions = Append(grown.instructions, text) /\ after.capacity = grown.capacity
    BY <2>3 DEF CopyBuffers
  <2>8. ~Full(after)  BY <2>3, <2>4, <2>5, <2>7 DEF Full
  <2> QED  BY <2>1, <2>6, <2>8
<1> QED  BY <1>1, <1>2, <1>3

-------------------------------------------------------------------------------
(* The inductive invariant.                                                *)

\* Once the reference string is compiled there is an instruction to begin with,
\* and only then are matches counted.
Compiled ==
  /\ pc \in {"search", "apply", "finish"} => references.instructions # <<>>
  /\ pc = "compile" => matchedCount = 0

IInv == TypeOK /\ InBounds /\ Compiled

\* What the assumption on the calls says of the one that runs.
LEMMA CallTyped ==
  ASSUME call \in Calls
  PROVE  /\ call.length \in Nat /\ call.range.location \in Nat /\ call.range.length \in Nat
         /\ SearchEnd \in Nat /\ SearchEnd <= call.length
         /\ call.reference \in Seq(Token) /\ Len(call.reference) \in Nat
<1>1. call \in Call /\ call.range.location + call.range.length <= call.length
  BY CallsAssumption
<1>2. call.reference \in Seq(Token)  BY <1>1 DEF Call
<1>3. call.length \in Nat /\ call.range \in [location : Nat, length : Nat]
  BY <1>1 DEF Call
<1> QED  BY <1>1, <1>2, <1>3 DEF SearchEnd

\* What an instruction stands for is a text: its range lies in the reference
\* string, its capture is one of the regex (NSString.m:900-910).
LEMMA PieceIsText ==
  ASSUME TypeOK, Applying
  PROVE  AtInstruction \in Instructions /\ Piece \in Texts
<1>1. AtInstruction \in Instructions
  BY DEF TypeOK, Applying, AtInstruction
<1>2. CASE AtInstruction.op = CopyRange
  <2>1. AtInstruction.range.location \in Int /\ AtInstruction.range.length \in Nat
    BY <1>1 DEF Instructions, Ranges
  <2>2. Piece = Slice("reference", AtInstruction.range)
    BY <1>2 DEF Piece, CopyRange, CopyCaptureIndex
  <2> QED  BY <1>1, <2>1, <2>2, SliceIsText
<1>3. CASE AtInstruction.op = CopyCaptureIndex
  <2> DEFINE range == matchRanges[AtInstruction.range.location]
  <2>1. AtInstruction.range.location \in Captures  BY <1>1, <1>3 DEF Instructions
  <2>2. range \in RangesIn(0, call.length) \cup {NotFound}  BY <2>1 DEF TypeOK
  <2>3. range.location \in Int /\ range.length \in Nat
    <3>1. CASE range = NotFound  BY <3>1 DEF NotFound, MakeRange
    <3>2. CASE range \in RangesIn(0, call.length)
      BY <3>2, CallTyped DEF RangesIn, TypeOK
    <3> QED  BY <2>2, <3>1, <3>2
  <2>4. Piece = Slice("subject", range)
    BY <1>3 DEF Piece, CopyRange, CopyCaptureIndex
  <2> HIDE DEF range
  <2> QED  BY <1>1, <2>3, <2>4, SliceIsText
<1>4. CASE AtInstruction.op \notin {CopyRange, CopyCaptureIndex}
  <2>1. Piece = <<>>  BY <1>4 DEF Piece
  <2> QED  BY <1>1, <2>1 DEF Texts
<1> QED  BY <1>2, <1>3, <1>4

\* The pending tokens lie in the reference string, and become an instruction.
LEMMA FlushFits ==
  ASSUME TypeOK, InBounds
  PROVE  Flushed \in ReferenceBuffers /\ ~Full(Flushed)
<1>1. references \in ReferenceBuffers /\ ~Full(references)
  BY DEF TypeOK, InBounds, ReferenceBuffers, Full
<1>2. Instruction(CopyRange, currentRange) \in Instructions
  <2>1. currentRange \in Ranges  BY DEF TypeOK, Ranges
  <2>2. currentRange.location + currentRange.length <= Len(call.reference)
    BY DEF InBounds
  <2> QED
    BY <2>1, <2>2 DEF TypeOK, Instructions, Instruction, Ops, CopyRange, CopyCaptureIndex
<1> QED  BY <1>1, <1>2, AppendInstructionFits DEF Flushed

\* The call begins with empty buffers and nothing compiled.
LEMMA Initially == Init => IInv
<1> SUFFICES ASSUME Init PROVE IInv
  OBVIOUS
<1>1. call \in Calls  BY DEF Init
<1>2. TypeOK
  <2>1. \A S : <<>> \in Seq(S) /\ Len(<<>>) = 0  OBVIOUS
  <2>2. matchRanges \in [Captures -> RangesIn(0, call.length) \cup {NotFound}]
    BY DEF Init, Captures
  <2> QED
    BY <1>1, <2>1, <2>2, StackAssumption
    DEF Init, TypeOK, MakeRange, Texts, CaseOps, NoOp, Ops
<1>3. InBounds
  BY <1>1, CallTyped, StackAssumption DEF Init, InBounds, MakeRange
<1>4. Compiled  BY DEF Init, Compiled
<1> QED  BY <1>2, <1>3, <1>4 DEF IInv

-------------------------------------------------------------------------------
(* Preservation, one step per action.                                      *)

\* A token that is an instruction of its own (NSString.m:1060-1072).
LEMMA EmitKeeps ==
  ASSUME IInv, pc = "compile", InReference(referenceIndex),
         NEW op, NEW capture, Emit(op, capture),
         Instruction(op, MakeRange(capture, 0)) \in Instructions,
         UNCHANGED <<pc, call, copies, searchVars, applyVars, returnVars>>
  PROVE  IInv'
<1>1. references' = AppendInstruction(Flushed, op, MakeRange(capture, 0))
  BY DEF Emit
<1>2. references' \in ReferenceBuffers /\ ~Full(references')
  BY <1>1, FlushFits, AppendInstructionFits DEF IInv
<1>3. referenceIndex' = referenceIndex + 1 /\ currentRange' = MakeRange(referenceIndex + 1, 0)
  BY DEF Emit
<1>4. referenceIndex \in Nat /\ Len(call.reference) \in Nat
  BY CallTyped DEF IInv, TypeOK
<1>5. referenceIndex + 1 <= Len(call.reference)
  BY <1>4 DEF InReference
<1>6. TypeOK'
  BY <1>2, <1>3, <1>4
  DEF IInv, TypeOK, ReferenceBuffers, Instructions, MakeRange, searchVars, applyVars, returnVars
<1>7. InBounds'
  BY <1>2, <1>3, <1>4, <1>5
  DEF IInv, InBounds, Full, ReferenceBuffers, MakeRange, searchVars, applyVars, returnVars,
      SearchEnd
<1> QED  BY <1>6, <1>7 DEF IInv, Compiled, searchVars

\* A token compiled keeps the invariant (NSString.m:1012-1074).
LEMMA CompileKeeps ==
  ASSUME IInv, Compile
  PROVE  IInv'
<1> USE DEF IInv
<1>1. references \in ReferenceBuffers /\ ~Full(references)
  BY DEF TypeOK, InBounds, ReferenceBuffers, Full
<1>2. copies \in CopyBuffers /\ ~Full(copies)
  BY DEF TypeOK, InBounds, CopyBuffers, Full
<1>3. /\ referenceIndex \in Nat /\ Len(call.reference) \in Nat
      /\ currentRange \in [location : Nat, length : Nat]
      /\ currentRange.location + currentRange.length = referenceIndex
  BY CallTyped DEF TypeOK, InBounds
<1>4. CASE CompileDollars
  <2> DEFINE range == [currentRange EXCEPT !.length = @ + 1]
  <2>1. range \in [location : Nat, length : Nat] /\ range.location + range.length = referenceIndex + 1
    BY <1>3
  <2>2. referenceIndex + 2 <= Len(call.reference)
    BY <1>3, <1>4 DEF CompileDollars, InReference
  <2>3. references' = AppendInstruction(references, CopyRange, range)
    BY <1>4 DEF CompileDollars
  <2> HIDE DEF range
  <2>4. Instruction(CopyRange, range) \in Instructions
    BY <1>3, <2>1, <2>2
         DEF Instructions, Instruction, Ranges, Ops, CopyRange, CopyCaptureIndex
  <2>5. references' \in ReferenceBuffers /\ ~Full(references')
    BY <1>1, <2>3, <2>4, AppendInstructionFits
  <2>6. UNCHANGED <<pc, call, copies, searchVars, applyVars, returnVars>> /\ pc = "compile"
    BY <1>4 DEF CompileDollars, Compiling
  <2>7. /\ referenceIndex' = referenceIndex + 2
        /\ currentRange' = MakeRange(referenceIndex + 2, 0)
    BY <1>4 DEF CompileDollars
  <2>8. TypeOK'
    BY <1>3, <2>5, <2>6, <2>7
    DEF TypeOK, ReferenceBuffers, Instructions, MakeRange, searchVars, applyVars, returnVars
  <2>9. InBounds'
    BY <1>3, <2>2, <2>5, <2>6, <2>7
    DEF InBounds, Full, ReferenceBuffers, MakeRange, searchVars, applyVars, returnVars, SearchEnd
  <2> QED  BY <2>6, <2>8, <2>9 DEF Compiled, searchVars
<1>5. CASE CompileCapture
  <2> DEFINE capture == TokenAt(referenceIndex).capture
  <2>1. TokenAt(referenceIndex) \in Token
    <3>1. call.reference \in Seq(Token)  BY CallTyped DEF TypeOK
    <3>2. referenceIndex + 1 \in 1..Len(call.reference)
      BY <1>3, <1>5 DEF CompileCapture, Compiling, InReference
    <3> QED  BY <3>1, <3>2 DEF TokenAt
  <2>2. capture \in Nat /\ capture < CaptureCount /\ CaptureCount \in Nat
    BY <1>5, <2>1, CaptureCountAssumption DEF Token, CompileCapture
  <2> HIDE DEF capture
  <2>3. Instruction(CopyCaptureIndex, MakeRange(capture, 0)) \in Instructions
    BY <2>2
         DEF Instruction, Instructions, MakeRange, Ranges, Ops, CopyCaptureIndex,
         CopyRange,
                Captures
  <2>4. Emit(CopyCaptureIndex, capture)  BY <1>5 DEF CompileCapture, capture
  <2> QED  BY <1>5, <2>3, <2>4, EmitKeeps DEF CompileCapture, Compiling
<1>6. CASE CompileCaseOp
  <2> DEFINE op == TokenAt(referenceIndex).op
  <2>1. op \in CaseOps  BY <1>6 DEF CompileCaseOp
  <2> HIDE DEF op
  <2>2. Instruction(op, MakeRange(0, 0)) \in Instructions
    BY <2>1
         DEF Instruction, Instructions, MakeRange, Ranges, Ops, CaseOps, NextCharOps,
         BeginOps,
                UppercaseNextChar, LowercaseNextChar, UppercaseBegin, LowercaseBegin,
                ChangeCaseEnd, CopyCaptureIndex, CopyRange
  <2>3. Emit(op, 0)  BY <1>6 DEF CompileCaseOp, op
  <2> QED  BY <1>6, <2>2, <2>3, EmitKeeps DEF CompileCaseOp, Compiling
<1>7. CASE CompileText
  <2>1. UNCHANGED <<pc, call, references, copies, searchVars, applyVars, returnVars>>
    BY <1>7 DEF CompileText
  <2>2. referenceIndex' = referenceIndex + 1 /\ referenceIndex + 1 <= Len(call.reference)
    BY <1>3, <1>7 DEF CompileText, Compiling, InReference
  <2>3. /\ currentRange' \in [location : Nat, length : Nat]
        /\ currentRange'.location + currentRange'.length = referenceIndex'
    <3>1. currentRange' = [currentRange EXCEPT !.length = @ + 1]  BY <1>7 DEF CompileText
    <3> QED  BY <1>3, <2>2, <3>1
  <2>4. TypeOK'
    BY <1>3, <2>1, <2>2, <2>3
    DEF TypeOK, Instructions, searchVars, applyVars, returnVars
  <2>5. InBounds'
    BY <2>1, <2>2, <2>3 DEF InBounds, searchVars, applyVars, returnVars, SearchEnd
  <2> QED  BY <2>1, <2>4, <2>5 DEF Compiled, searchVars
<1>8. CASE CompileFails
  <2>1. /\ UNCHANGED <<call, compileVars, copies, searchVars, applyVars>>
        /\ pc' = "done" /\ outcome' = "raised" /\ pc = "compile"
    BY <1>8 DEF CompileFails, Return, Compiling
  <2>2. TypeOK'
    BY <2>1 DEF TypeOK, Instructions, compileVars, searchVars, applyVars
  <2>3. InBounds'
    BY <2>1 DEF InBounds, Compiled, compileVars, searchVars, SearchEnd
  <2> QED  BY <2>1, <2>2, <2>3 DEF Compiled
<1>9. CASE CompileEnds
  <2>1. /\ UNCHANGED <<call, referenceIndex, currentRange, matchRanges, matchedCount,
                        searchedFrom, matches, applyVars, returnVars>>
        /\ pc = "compile" /\ pc' = "search" /\ searchIndex' = call.range.location
    BY <1>9 DEF CompileEnds
  <2>2. references' = AppendInstruction(Flushed, Stop, NotFound)
    BY <1>9 DEF CompileEnds
  <2>3. Instruction(Stop, NotFound) \in Instructions
    BY DEF Instruction, Instructions, NotFound, MakeRange, Ranges, Ops, Stop,
         CopyCaptureIndex,
           CopyRange
  <2>4. /\ references' \in ReferenceBuffers /\ ~Full(references')
        /\ references'.instructions # <<>>
    BY <2>2, <2>3, FlushFits, AppendInstructionFits DEF Stop, CopyRange
  <2>5. call.range.location \in Nat /\ call.range.location <= SearchEnd
    BY CallTyped DEF TypeOK, SearchEnd
  <2>6. copies' \in CopyBuffers /\ ~Full(copies')
    <3> DEFINE before == Slice("subject", MakeRange(0, searchIndex'))
    <3>1. before \in Texts  BY <2>1, <2>5, SliceIsText DEF MakeRange
    <3>2. copies' = IF Replacing THEN AppendCopyInstruction(copies, before) ELSE copies
      BY <1>9 DEF CompileEnds
    <3> HIDE DEF before
    <3> QED  BY <1>2, <3>1, <3>2, AppendCopyFits
  <2>7. TypeOK'
    BY <2>1, <2>4, <2>5, <2>6
    DEF TypeOK, Instructions, ReferenceBuffers, CopyBuffers, applyVars, returnVars
  <2>8. InBounds'
    <3>1. SearchEnd' = SearchEnd /\ SearchEnd \in Nat
      BY <2>1, CallTyped DEF SearchEnd, TypeOK
    <3>2. searchIndex' \in call'.range.location..SearchEnd'
      BY <2>1, <2>5, <3>1
    <3>3. /\ ~(pc' = "apply") /\ ~(matchedCount' > 0)
          /\ currentRange'.location + currentRange'.length = referenceIndex'
          /\ referenceIndex' <= Len(call'.reference)
      BY <2>1 DEF InBounds, Compiled
    <3>4. /\ Len(references'.instructions) <= references'.capacity
          /\ Len(copies'.instructions) <= copies'.capacity
      BY <2>4, <2>6 DEF Full, ReferenceBuffers, CopyBuffers
    <3> QED
      BY <3>2, <3>3, <3>4 DEF InBounds
  <2> QED  BY <2>1, <2>4, <2>7, <2>8 DEF Compiled
<1> QED
  BY <1>4, <1>5, <1>6, <1>7, <1>8, <1>9 DEF Compile

\* Applying a match that lies in the rest of the range keeps the bounds.
LEMMA ApplyFromKeeps ==
  ASSUME IInv, pc = "search", Searching, NEW ranges \in Found, ApplyFrom(ranges),
         UNCHANGED <<call, compileVars, matchedCount, conversionString, returnVars>>
  PROVE  IInv'
<1> USE DEF IInv
<1>1. copies \in CopyBuffers /\ ~Full(copies)
  BY DEF TypeOK, InBounds, CopyBuffers, Full
<1>2. /\ SearchEnd \in Nat /\ call.range.location \in Nat
      /\ searchIndex \in Nat /\ call.range.location <= searchIndex /\ searchIndex <= SearchEnd
  BY CallTyped DEF TypeOK, InBounds
<1>3. ranges \in [Captures -> RangesIn(0, call.length) \cup {NotFound}]
  BY DEF Found, Captures
<1>4. ranges[0] \in RangesIn(searchIndex, SearchEnd)
  BY DEF Found
<1>5. /\ ranges[0].location \in Nat /\ ranges[0].length \in Nat
      /\ searchIndex <= ranges[0].location
      /\ ranges[0].location + ranges[0].length <= SearchEnd
  BY <1>2, <1>4 DEF RangesIn
<1>6. copies' \in CopyBuffers /\ ~Full(copies')
  <2> DEFINE between == Slice("subject", MakeRange(searchIndex, ranges[0].location - searchIndex))
  <2>1. between \in Texts  BY <1>2, <1>5, SliceIsText DEF MakeRange
  <2>2. copies' = IF Replacing THEN AppendCopyInstruction(copies, between) ELSE copies
    BY DEF ApplyFrom
  <2> HIDE DEF between
  <2> QED  BY <1>1, <2>1, <2>2, AppendCopyFits
<1>7. /\ searchIndex' = ranges[0].location + ranges[0].length /\ matchRanges' = ranges
      /\ searchedFrom' = searchIndex /\ instructionIndex' = 0 /\ currentOp' = NoOp
      /\ lastOp' = references.instructions[1].op /\ pc' = "apply"
  BY DEF ApplyFrom
<1>8. lastOp' \in Ops
  <2>1. references.instructions \in Seq(Instructions) /\ references.instructions # <<>>
    BY DEF TypeOK, Compiled
  <2>2. references.instructions[1] \in Instructions  BY <2>1
  <2> QED  BY <1>7, <2>2 DEF Instructions
<1>9. UNCHANGED <<call, referenceIndex, currentRange, references, matchedCount, conversionString,
                  outcome>>
  BY DEF compileVars, returnVars
<1>10. SearchEnd' = SearchEnd  BY <1>9 DEF SearchEnd
<1>11. TypeOK'
  <2>1. matchRanges' \in [Captures -> RangesIn(0, call'.length) \cup {NotFound}]
    BY <1>3, <1>7, <1>9
  <2>2. searchIndex' \in Nat /\ searchedFrom' \in Int /\ instructionIndex' \in Nat
    BY <1>2, <1>5, <1>7
  <2> QED
    BY <1>6, <1>7, <1>8, <1>9, <2>1, <2>2
    DEF TypeOK, Instructions, CopyBuffers
<1>12. InBounds'
  <2>1. searchIndex' \in call'.range.location..SearchEnd'
    BY <1>2, <1>5, <1>7, <1>9, <1>10
  <2>2. /\ matchRanges'[0] \in RangesIn(searchedFrom', SearchEnd')
        /\ searchIndex' = matchRanges'[0].location + matchRanges'[0].length
    BY <1>4, <1>7, <1>10
  <2> QED  BY <1>6, <1>9, <2>1, <2>2 DEF InBounds, Full, CopyBuffers
<1> QED  BY <1>7, <1>9, <1>11, <1>12 DEF Compiled

\* A search, successful or not, keeps the invariant (NSString.m:772-784).
LEMMA SearchKeeps ==
  ASSUME IInv, Search
  PROVE  IInv'
<1> USE DEF IInv
<1>1. CASE Match
  <2>1. pc = "search" /\ Searching
        /\ UNCHANGED <<call, compileVars, matchedCount, conversionString, returnVars>>
    BY <1>1 DEF Match
  <2>2. CASE SearchRepeated /\ ApplyFrom(matchRanges)
    <3>1. matchRanges \in Found
      BY <2>2 DEF SearchRepeated, TypeOK, InBounds, Found, Captures
    <3> QED  BY <2>1, <2>2, <3>1, ApplyFromKeeps
  <2>3. CASE \E ranges \in Found : ApplyFrom(ranges)
    BY <2>1, <2>3, ApplyFromKeeps
  <2> QED  BY <1>1, <2>2, <2>3 DEF Match
<1>2. CASE SearchEnds
  <2>1. /\ UNCHANGED <<call, compileVars, copies, searchVars, applyVars, returnVars>>
        /\ pc = "search" /\ pc' = "finish"
    BY <1>2 DEF SearchEnds
  <2>2. TypeOK'
    BY <2>1 DEF TypeOK, Instructions, compileVars, searchVars, applyVars, returnVars
  <2>3. InBounds'
    BY <2>1 DEF InBounds, compileVars, searchVars, SearchEnd
  <2> QED  BY <2>1, <2>2, <2>3 DEF Compiled, compileVars
<1>3. CASE SearchFails
  <2>1. /\ UNCHANGED <<call, compileVars, copies, searchVars, applyVars>>
        /\ pc = "search" /\ pc' = "done" /\ outcome' \in {"null", "raised"}
    BY <1>3 DEF SearchFails, Fail, Return
  <2>2. TypeOK'
    BY <2>1 DEF TypeOK, Instructions, compileVars, searchVars, applyVars
  <2>3. InBounds'
    BY <2>1 DEF InBounds, compileVars, searchVars, SearchEnd
  <2> QED  BY <2>1, <2>2, <2>3 DEF Compiled
<1> QED  BY <1>1, <1>2, <1>3 DEF Search

\* What a step of RKApplyReferenceInstructions keeps that leaves the copied text,
\* the gathered text and the operations what they may be.
LEMMA ApplyStepKeeps ==
  ASSUME IInv, pc = "apply", pc' \in {"apply", "search"},
         UNCHANGED <<call, compileVars, searchIndex, matchRanges, searchedFrom, returnVars>>,
         copies' \in CopyBuffers, ~Full(copies'), conversionString' \in Texts,
         instructionIndex' \in Nat, matchedCount' \in Nat,
         currentOp' \in CaseOps \cup {NoOp}, lastOp' \in Ops \cup {NoOp}
  PROVE  IInv'
<1>1. TypeOK'
  BY DEF IInv, TypeOK, Instructions, CopyBuffers, compileVars, returnVars
<1>2. InBounds'
  BY DEF IInv, InBounds, Full, CopyBuffers, compileVars, SearchEnd
<1> QED  BY <1>1, <1>2 DEF IInv, Compiled, compileVars

\* An instruction applied keeps the invariant (NSString.m:900-990).
LEMMA ApplyKeeps ==
  ASSUME IInv, Apply
  PROVE  IInv'
<1>1. copies \in CopyBuffers /\ ~Full(copies)
  BY DEF IInv, TypeOK, InBounds, CopyBuffers, Full
<1>2. /\ conversionString \in Texts /\ currentOp \in CaseOps \cup {NoOp}
      /\ lastOp \in Ops \cup {NoOp} /\ instructionIndex \in Nat /\ matchedCount \in Nat
  BY DEF IInv, TypeOK
<1>3. ASSUME Applying, NextInstruction
      PROVE  /\ pc = "apply" /\ Piece \in Texts /\ ThisOp \in CaseOps \cup {NoOp}
             /\ instructionIndex' \in Nat /\ lastOp' \in Ops \cup {NoOp}
  <2>1. AtInstruction \in Instructions /\ Piece \in Texts  BY <1>3, PieceIsText DEF IInv
  <2> QED  BY <1>2, <1>3, <2>1 DEF Applying, ThisOp, NextInstruction, Instructions
<1>4. CASE EndNothing
  BY <1>1, <1>2, <1>3, <1>4, ApplyStepKeeps DEF EndNothing, searchVars
<1>5. CASE CopyPiece
  <2>1. copies' \in CopyBuffers /\ ~Full(copies')
    BY <1>1, <1>3, <1>5, AppendCopyFits DEF CopyPiece
  <2> QED  BY <1>2, <1>3, <1>5, <2>1, ApplyStepKeeps DEF CopyPiece, searchVars
<1>6. CASE GatherPiece
  <2>1. conversionString' \in Texts
    BY <1>2, <1>3, <1>6 DEF GatherPiece, Texts
  <2> QED  BY <1>1, <1>2, <1>3, <1>6, <2>1, ApplyStepKeeps DEF GatherPiece, searchVars
<1>7. CASE EndConversion
  <2>1. copies' \in CopyBuffers /\ ~Full(copies')
    BY <1>1, <1>2, <1>7, ConvertIsText, AppendCopyFits DEF EndConversion
  <2>2. conversionString' \in Texts  BY <1>7 DEF EndConversion, Texts
  <2> QED  BY <1>2, <1>3, <1>7, <2>1, <2>2, ApplyStepKeeps DEF EndConversion, searchVars
<1>8. CASE ConvertNextChar
  <2>1. Piece \in Texts /\ Piece # <<>>
    BY <1>3, <1>8 DEF ConvertNextChar, HasPiece
  <2>2. Convert(<<Head(Piece)>>, currentOp) \in Texts /\ Tail(Piece) \in Texts
    BY <2>1, PartsAreTexts, ConvertIsText
  <2>3. copies' \in CopyBuffers /\ ~Full(copies')
    BY <1>1, <1>8, <2>2, AppendCopyFits DEF ConvertNextChar
  <2> QED  BY <1>2, <1>3, <1>8, <2>3, ApplyStepKeeps DEF ConvertNextChar, searchVars
<1>9. CASE ChangeOp
  BY <1>1, <1>2, <1>3, <1>9, ApplyStepKeeps DEF ChangeOp, searchVars
<1>10. CASE ApplyEnds
  <2>1. conversionString' \in Texts /\ matchedCount' \in Nat
    BY <1>2, <1>10 DEF ApplyEnds, Texts
  <2> QED  BY <1>1, <1>2, <1>10, <2>1, ApplyStepKeeps DEF ApplyEnds
<1> QED
  BY <1>4, <1>5, <1>6, <1>7, <1>8, <1>9, <1>10 DEF Apply

\* The end of the call keeps the invariant (NSString.m:786-792).
LEMMA FinishKeeps ==
  ASSUME IInv, Finish
  PROVE  IInv'
<1>1. copies \in CopyBuffers /\ ~Full(copies)
  BY DEF IInv, TypeOK, InBounds, CopyBuffers, Full
<1>2. /\ pc = "finish" /\ pc' = "done" /\ outcome' \in {"string", "unchanged"}
      /\ UNCHANGED <<call, compileVars, searchVars, applyVars>>
  BY DEF Finish, Return
<1>3. searchIndex \in Nat /\ call.length - searchIndex \in Nat
  <2>1. searchIndex \in call.range.location..SearchEnd /\ SearchEnd <= call.length
    BY <1>2, CallTyped DEF IInv, TypeOK, InBounds
  <2> QED  BY <2>1, CallTyped DEF IInv, TypeOK
<1>4. copies' \in CopyBuffers /\ ~Full(copies')
  <2> DEFINE rest == Slice("subject", MakeRange(searchIndex, call.length - searchIndex))
  <2>1. rest \in Texts  BY <1>3, SliceIsText DEF MakeRange
  <2>2. copies' = IF Replacing THEN AppendCopyInstruction(copies, rest) ELSE copies
    BY DEF Finish
  <2> HIDE DEF rest
  <2> QED  BY <1>1, <2>1, <2>2, AppendCopyFits
<1>5. TypeOK'
  BY <1>2, <1>4
       DEF IInv, TypeOK, Instructions, CopyBuffers, compileVars, searchVars, applyVars
<1>6. InBounds'
  BY <1>2, <1>4 DEF IInv, InBounds, Full, CopyBuffers, compileVars, searchVars, SearchEnd
<1> QED  BY <1>2, <1>5, <1>6 DEF IInv, Compiled

\* Every step preserves the invariant.
LEMMA Inductive ==
  ASSUME IInv, [Next]_vars
  PROVE  IInv'
<1>1. CASE Compile  BY <1>1, CompileKeeps
<1>2. CASE Search  BY <1>2, SearchKeeps
<1>3. CASE Apply  BY <1>3, ApplyKeeps
<1>4. CASE Finish  BY <1>4, FinishKeeps
<1>5. CASE UNCHANGED vars
  BY <1>5
  DEF IInv, TypeOK, InBounds, Compiled, Instructions, SearchEnd, vars, compileVars, searchVars,
      applyVars, returnVars
<1> QED  BY <1>1, <1>2, <1>3, <1>4, <1>5 DEF Next, Done

-------------------------------------------------------------------------------
(* The copied text.  EvaluateCopyInstructions is a function on the numbers *)
(* up to the number of instructions, defined by recursion.  What is proved *)
(* of it is an invariant of the buffer instead of an induction: it is said *)
(* of every function that obeys the recursion, and an instruction appended *)
(* extends such a function by one value.                                   *)

\* text[n] is the text of the first n instructions.
Spells(text, instructions) ==
  text = [n \in 0..Len(instructions) |-> IF n = 0 THEN <<>> ELSE text[n - 1] \o instructions[n]]

Nothing(n) == [k \in 1..n |-> <<>>]

\* The text of the instructions is no longer than copiedLength, and as long until
\* they are moved to the heap; as many empty instructions have no text.
Fits(instructions, capacity, copiedLength) ==
  /\ instructions \in Seq(Texts) /\ copiedLength \in Nat
  /\ capacity \in Nat /\ capacity >= StackInstructions
  /\ \E text : Spells(text, instructions)
  /\ \A text : Spells(text, instructions) =>
       /\ \A k \in 0..Len(instructions) : text[k] \in Texts
       /\ Len(text[Len(instructions)]) <= copiedLength
       /\ capacity = StackInstructions => Len(text[Len(instructions)]) = copiedLength
  /\ \A text : Spells(text, Nothing(Len(instructions))) =>
       \A k \in 0..Len(instructions) : text[k] = <<>>

\* What a function that obeys the recursion is, value by value.
LEMMA SpellsByValue ==
  ASSUME NEW S, NEW instructions \in Seq(S), NEW text
  PROVE  Spells(text, instructions) <=>
           /\ text = [k \in 0..Len(instructions) |-> text[k]]
           /\ text[0] = <<>>
           /\ \A k \in 1..Len(instructions) : text[k] = text[k - 1] \o instructions[k]
<1>. DEFINE n == Len(instructions)
            body == [k \in 0..n |-> IF k = 0 THEN <<>> ELSE text[k - 1] \o instructions[k]]
<1>1. n \in Nat
  OBVIOUS
<1>. HIDE DEF n
<1>2. ASSUME text = body
      PROVE  /\ text = [k \in 0..n |-> text[k]] /\ text[0] = <<>>
             /\ \A k \in 1..n : text[k] = text[k - 1] \o instructions[k]
  <2>1. text = [k \in 0..n |-> text[k]]
    BY <1>2
  <2>2. \A k \in 0..n : text[k] = body[k]
    BY <1>2
  <2>3. body[0] = <<>> /\ \A k \in 1..n : body[k] = text[k - 1] \o instructions[k]
    <3>1. 0 \in 0..n /\ \A k \in 1..n : k \in 0..n /\ k # 0
      BY <1>1
    <3>. QED BY <3>1
  <2>4. 0 \in 0..n /\ 1..n \subseteq 0..n
    BY <1>1
  <2>. HIDE DEF body
  <2>. QED BY <2>1, <2>2, <2>3, <2>4
<1>3. ASSUME text = [k \in 0..n |-> text[k]], text[0] = <<>>,
             \A k \in 1..n : text[k] = text[k - 1] \o instructions[k]
      PROVE  text = body
  <2>1. \A k \in 0..n : k = 0 \/ k \in 1..n
    BY <1>1
  <2>2. \A k \in 0..n : text[k] = IF k = 0 THEN <<>> ELSE text[k - 1] \o instructions[k]
    BY <1>3, <2>1
  <2>. QED BY <1>3, <2>2
<1>. QED BY <1>2, <1>3 DEF Spells, n

\* The first of the texts of n + 1 instructions are those of the first n.
LEMMA SpellsFewer ==
  ASSUME NEW S, NEW instructions \in Seq(S), NEW more \in Seq(S), Len(more) = Len(instructions) + 1,
         \A k \in 1..Len(instructions) : more[k] = instructions[k],
         NEW text, Spells(text, more)
  PROVE  /\ Spells([k \in 0..Len(instructions) |-> text[k]], instructions)
         /\ text[Len(more)] = text[Len(instructions)] \o more[Len(more)]
<1>. DEFINE n == Len(instructions)
            fewer == [k \in 0..n |-> text[k]]
<1>1. n \in Nat /\ Len(more) = n + 1
  OBVIOUS
<1>2. text[0] = <<>> /\ \A k \in 1..(n + 1) : text[k] = text[k - 1] \o more[k]
  <2>1. text[0] = <<>> /\ \A k \in 1..Len(more) : text[k] = text[k - 1] \o more[k]
    BY SpellsByValue
  <2>. QED BY <1>1, <2>1
<1>. HIDE DEF n
<1>3. \A k \in 0..n : fewer[k] = text[k]
  OBVIOUS
<1>4. \A k \in 1..n : fewer[k] = fewer[k - 1] \o instructions[k]
  <2>. SUFFICES ASSUME NEW k \in 1..n
                PROVE  fewer[k] = fewer[k - 1] \o instructions[k]
    OBVIOUS
  <2>1. k \in 0..n /\ k - 1 \in 0..n /\ k \in 1..(n + 1)
    BY <1>1
  <2>2. more[k] = instructions[k]
    BY DEF n
  <2>. QED BY <1>2, <1>3, <2>1, <2>2
<1>5. fewer[0] = <<>> /\ fewer = [k \in 0..n |-> fewer[k]]
  BY <1>1, <1>2
<1>6. text[n + 1] = text[n] \o more[n + 1]
  <2>1. n + 1 \in 1..(n + 1) /\ (n + 1) - 1 = n
    BY <1>1
  <2>. QED BY <1>2, <2>1
<1>7. Spells(fewer, instructions)
  <2>. HIDE DEF fewer
  <2>. QED BY <1>4, <1>5, SpellsByValue DEF n
<1>. QED BY <1>1, <1>6, <1>7 DEF n

\* One instruction more has a text, too.
LEMMA SpellsMore ==
  ASSUME NEW S, NEW instructions \in Seq(S), NEW more \in Seq(S), Len(more) = Len(instructions) + 1,
         \A k \in 1..Len(instructions) : more[k] = instructions[k],
         NEW text, Spells(text, instructions)
  PROVE  \E longer : Spells(longer, more)
<1>. DEFINE n == Len(instructions)
            longer == [k \in 0..(n + 1) |-> IF k = n + 1 THEN text[n] \o more[n + 1] ELSE text[k]]
<1>1. n \in Nat /\ Len(more) = n + 1
  OBVIOUS
<1>2. text[0] = <<>> /\ \A k \in 1..n : text[k] = text[k - 1] \o instructions[k]
  BY SpellsByValue
<1>3. \A k \in 1..n : more[k] = instructions[k]
  OBVIOUS
<1>. HIDE DEF n
<1>4. longer[0] = <<>> /\ longer = [k \in 0..(n + 1) |-> longer[k]]
  BY <1>1, <1>2
<1>5. ASSUME NEW k \in 1..(n + 1)
      PROVE  longer[k] = longer[k - 1] \o more[k]
  <2>1. k - 1 \in 0..(n + 1) /\ k \in 0..(n + 1) /\ k - 1 # n + 1
    BY <1>1
  <2>2. CASE k = n + 1
    <3>1. longer[n + 1] = text[n] \o more[n + 1]
      BY <2>1, <2>2
    <3>2. longer[n] = text[n] /\ k - 1 = n
      BY <1>1, <2>1, <2>2
    <3>. QED BY <2>2, <3>1, <3>2
  <2>3. CASE k # n + 1
    <3>1. k \in 1..n
      BY <1>1, <2>3
    <3>. QED BY <1>2, <1>3, <2>1, <2>3, <3>1
  <2>. QED BY <2>2, <2>3
<1>. HIDE DEF longer
<1>6. Spells(longer, more)
  BY <1>1, <1>4, <1>5, SpellsByValue
<1>. QED BY <1>6

\* Another last instruction changes the last text only.
LEMMA SpellsLast ==
  ASSUME NEW instructions \in Seq(Texts), NEW other \in Seq(Texts),
         Len(other) = Len(instructions), Len(instructions) # 0,
         \A k \in 1..(Len(instructions) - 1) : other[k] = instructions[k],
         NEW text, Spells(text, instructions)
  PROVE  LET changed == [text EXCEPT ![Len(instructions)] =
                           text[Len(instructions) - 1] \o other[Len(instructions)]] IN
         /\ Spells(changed, other)
         /\ \A k \in 0..(Len(instructions) - 1) : changed[k] = text[k]
         /\ changed[Len(instructions)] = text[Len(instructions) - 1] \o other[Len(instructions)]
<1>. DEFINE n == Len(instructions)
            changed == [text EXCEPT ![n] = text[n - 1] \o other[n]]
<1>1. n \in Nat \ {0} /\ Len(other) = n
  OBVIOUS
<1>2. /\ text = [k \in 0..n |-> text[k]] /\ text[0] = <<>>
      /\ \A k \in 1..n : text[k] = text[k - 1] \o instructions[k]
  BY SpellsByValue
<1>3. /\ \A k \in 1..(n - 1) : other[k] = instructions[k]
      /\ changed = [text EXCEPT ![n] = text[n - 1] \o other[n]]
  OBVIOUS
<1>. HIDE DEF n, changed
<1>4. DOMAIN text = 0..n
  BY <1>2
<1>5. changed = [k \in 0..n |-> changed[k]]
  BY <1>3, <1>4
<1>6. changed[n] = text[n - 1] \o other[n]
  <2>1. n \in DOMAIN text
    BY <1>1, <1>4
  <2>. QED BY <1>3, <2>1
<1>7. \A k \in 0..(n - 1) : changed[k] = text[k]
  BY <1>1, <1>3, <1>4
<1>8. ASSUME NEW k \in 1..n
      PROVE  changed[k] = changed[k - 1] \o other[k]
  <2>1. k - 1 \in 0..(n - 1)
    BY <1>1
  <2>2. CASE k = n
    BY <1>6, <1>7, <2>1, <2>2
  <2>3. CASE k # n
    <3>1. k \in 1..(n - 1) /\ k \in 0..(n - 1)
      BY <1>1, <2>3
    <3>. QED BY <1>2, <1>3, <1>7, <2>1, <3>1
  <2>. QED BY <2>2, <2>3
<1>9. changed[0] = <<>>
  <2>1. 0 \in 0..(n - 1)
    BY <1>1
  <2>. QED BY <1>2, <1>7, <2>1
<1>10. Spells(changed, other)
  BY <1>1, <1>5, <1>8, <1>9, SpellsByValue
<1>. QED BY <1>6, <1>7, <1>10 DEF n, changed

\* Two texts after each other.
LEMMA JoinedTexts ==
  ASSUME NEW first \in Texts, NEW second \in Texts
  PROVE  /\ first \o second \in Texts /\ Len(first) \in Nat /\ Len(second) \in Nat
         /\ Len(first \o second) = Len(first) + Len(second)
BY DEF Texts

\* An instruction is appended (RKAppendCopyInstruction).
LEMMA FitsAppend ==
  ASSUME NEW instructions, NEW capacity, NEW copiedLength, Fits(instructions, capacity, copiedLength),
         NEW added \in Texts
  PROVE  Fits(Append(instructions, added), capacity, copiedLength + Len(added))
<1>. DEFINE n == Len(instructions)
            more == Append(instructions, added)
            short(text) == [k \in 0..n |-> text[k]]
<1>1. /\ instructions \in Seq(Texts) /\ copiedLength \in Nat
      /\ capacity \in Nat /\ capacity >= StackInstructions /\ n \in Nat
  BY DEF Fits
<1>2. /\ more \in Seq(Texts) /\ Len(more) = n + 1 /\ more[n + 1] = added
      /\ \A k \in 1..n : more[k] = instructions[k]
  BY <1>1
<1>3. Len(added) \in Nat
  BY DEF Texts
<1>. HIDE DEF more
<1>4. \E text : Spells(text, more)
  <2>1. PICK text : Spells(text, instructions)
    BY DEF Fits
  <2>. QED BY <1>1, <1>2, <2>1, SpellsMore
<1>5. ASSUME NEW text, Spells(text, more)
      PROVE  /\ \A k \in 0..(n + 1) : text[k] \in Texts
             /\ Len(text[n + 1]) <= copiedLength + Len(added)
             /\ capacity = StackInstructions => Len(text[n + 1]) = copiedLength + Len(added)
  <2>1. Spells(short(text), instructions) /\ text[n + 1] = text[n] \o added
    BY <1>1, <1>2, <1>5, SpellsFewer
  <2>2. /\ \A k \in 0..n : short(text)[k] \in Texts
        /\ Len(short(text)[n]) <= copiedLength
        /\ capacity = StackInstructions => Len(short(text)[n]) = copiedLength
    BY <2>1 DEF Fits
  <2>3. n \in 0..n /\ \A k \in 0..n : short(text)[k] = text[k]
    BY <1>1
  <2>. HIDE DEF short, n
  <2>4. /\ text[n + 1] \in Texts /\ Len(text[n + 1]) = Len(text[n]) + Len(added)
        /\ Len(text[n]) \in Nat
    <3>1. text[n] \in Texts
      BY <2>2, <2>3
    <3>. QED BY <2>1, <3>1, JoinedTexts
  <2>5. \A k \in 0..(n + 1) : k \in 0..n \/ k = n + 1
    BY <1>1
  <2>. QED BY <1>1, <1>3, <2>2, <2>3, <2>4, <2>5
<1>6. ASSUME NEW text, Spells(text, Nothing(n + 1))
      PROVE  \A k \in 0..(n + 1) : text[k] = <<>>
  <2>1. /\ Nothing(n) \in Seq({<<>>}) /\ Len(Nothing(n)) = n
        /\ Nothing(n + 1) \in Seq({<<>>}) /\ Len(Nothing(n + 1)) = n + 1
    BY <1>1, FunctionIsSeq DEF Nothing
  <2>2. \A k \in 1..n : Nothing(n + 1)[k] = Nothing(n)[k]
    BY <1>1 DEF Nothing
  <2>3. Spells(short(text), Nothing(n)) /\ text[n + 1] = text[n] \o Nothing(n + 1)[n + 1]
    BY <1>6, <2>1, <2>2, SpellsFewer
  <2>4. \A k \in 0..n : short(text)[k] = <<>>
    BY <2>3 DEF Fits
  <2>5. n \in 0..n /\ \A k \in 0..n : short(text)[k] = text[k]
    BY <1>1
  <2>6. Nothing(n + 1)[n + 1] = <<>>
    BY <1>1 DEF Nothing
  <2>. HIDE DEF short
  <2>7. text[n] = <<>> /\ \A k \in 0..n : text[k] = <<>>
    BY <2>4, <2>5
  <2>8. text[n + 1] = <<>>
    BY <2>3, <2>6, <2>7
  <2>9. \A k \in 0..(n + 1) : k \in 0..n \/ k = n + 1
    BY <1>1
  <2>. QED BY <2>7, <2>8, <2>9
<1>7. copiedLength + Len(added) \in Nat
  BY <1>1, <1>3
<1>. HIDE DEF n
<1>8. Fits(more, capacity, copiedLength + Len(added))
  BY <1>1, <1>2, <1>4, <1>5, <1>6, <1>7 DEF Fits
<1>. QED BY <1>8 DEF more

\* The last instruction gets more text.
LEMMA FitsMerge ==
  ASSUME NEW instructions, NEW capacity, NEW copiedLength, Fits(instructions, capacity, copiedLength),
         NEW added \in Texts, Len(instructions) # 0
  PROVE  Fits([instructions EXCEPT ![Len(instructions)] = @ \o added], capacity, copiedLength + Len(added))
<1>. DEFINE n == Len(instructions)
            merged == [instructions EXCEPT ![n] = @ \o added]
<1>1. /\ instructions \in Seq(Texts) /\ copiedLength \in Nat /\ instructions[n] \in Texts
      /\ capacity \in Nat /\ capacity >= StackInstructions /\ n \in Nat \ {0}
  BY DEF Fits
<1>2. instructions[n] \o added \in Texts /\ Len(added) \in Nat
  BY <1>1, JoinedTexts
<1>3. /\ merged \in Seq(Texts) /\ Len(merged) = n /\ merged[n] = instructions[n] \o added
      /\ \A k \in 1..(n - 1) : merged[k] = instructions[k]
  BY <1>1, <1>2
<1>. HIDE DEF merged
<1>4. \E text : Spells(text, merged)
  <2>1. PICK text : Spells(text, instructions)
    BY DEF Fits
  <2>2. Spells([text EXCEPT ![n] = text[n - 1] \o merged[n]], merged)
    BY <1>1, <1>3, <2>1, SpellsLast
  <2>. QED BY <2>2
<1>5. ASSUME NEW text, Spells(text, merged)
      PROVE  /\ \A k \in 0..n : text[k] \in Texts
             /\ Len(text[n]) <= copiedLength + Len(added)
             /\ capacity = StackInstructions => Len(text[n]) = copiedLength + Len(added)
  <2>. DEFINE old == [text EXCEPT ![n] = text[n - 1] \o instructions[n]]
  <2>1. \A k \in 1..(n - 1) : instructions[k] = merged[k]
    BY <1>3
  <2>2. /\ Spells(old, instructions) /\ old[n] = text[n - 1] \o instructions[n]
        /\ \A k \in 0..(n - 1) : old[k] = text[k]
    <3>1. /\ Len(instructions) = Len(merged) /\ Len(merged) # 0
          /\ \A k \in 1..(Len(merged) - 1) : instructions[k] = merged[k]
      BY <1>3, <2>1
    <3>2. instructions \in Seq(Texts) /\ merged \in Seq(Texts)
      BY <1>1, <1>3
    <3>. DEFINE changed == [text EXCEPT ![Len(merged)] = text[Len(merged) - 1] \o instructions[Len(merged)]]
    <3>3. /\ Spells(changed, instructions)
          /\ \A k \in 0..(Len(merged) - 1) : changed[k] = text[k]
          /\ changed[Len(merged)] = text[Len(merged) - 1] \o instructions[Len(merged)]
      BY <1>5, <3>1, <3>2, SpellsLast
    <3>4. changed = old
      BY <1>3
    <3>. HIDE DEF changed, old
    <3>. QED BY <1>3, <3>3, <3>4
  <2>3. /\ \A k \in 0..n : old[k] \in Texts
        /\ Len(old[n]) <= copiedLength
        /\ capacity = StackInstructions => Len(old[n]) = copiedLength
    BY <2>2 DEF Fits
  <2>4. text[n] = text[n - 1] \o (instructions[n] \o added)
    <3>1. \A k \in 1..Len(merged) : text[k] = text[k - 1] \o merged[k]
      BY <1>3, <1>5, SpellsByValue
    <3>2. n \in 1..Len(merged)
      BY <1>1, <1>3
    <3>. QED BY <1>3, <3>1, <3>2
  <2>. HIDE DEF old, n
  <2>5. n - 1 \in 0..(n - 1) /\ \A k \in 0..(n - 1) : k \in 0..n
    BY <1>1
  <2>6. \A k \in 0..(n - 1) : text[k] \in Texts
    BY <2>2, <2>3, <2>5
  <2>7. /\ text[n] \in Texts /\ Len(text[n - 1]) \in Nat /\ Len(instructions[n]) \in Nat
        /\ Len(text[n]) = Len(text[n - 1]) + (Len(instructions[n]) + Len(added))
        /\ Len(old[n]) = Len(text[n - 1]) + Len(instructions[n])
    <3>1. text[n - 1] \in Texts /\ instructions[n] \in Texts /\ instructions[n] \o added \in Texts
      BY <1>1, <1>2, <2>5, <2>6
    <3>2. /\ Len(instructions[n] \o added) = Len(instructions[n]) + Len(added)
          /\ Len(instructions[n]) \in Nat /\ Len(text[n - 1]) \in Nat
      BY <3>1, JoinedTexts
    <3>3. text[n] \in Texts /\ Len(text[n]) = Len(text[n - 1]) + Len(instructions[n] \o added)
      BY <2>4, <3>1, JoinedTexts
    <3>4. Len(old[n]) = Len(text[n - 1]) + Len(instructions[n])
      BY <2>2, <3>1, JoinedTexts
    <3>. QED BY <3>2, <3>3, <3>4
  <2>8. \A k \in 0..n : k \in 0..(n - 1) \/ k = n
    BY <1>1
  <2>9. \A k \in 0..n : text[k] \in Texts
    BY <2>6, <2>7, <2>8
  <2>10. n \in 0..n /\ Len(text[n]) = Len(old[n]) + Len(added) /\ Len(old[n]) \in Nat
    <3>1. \A i, j, k \in Nat : i + (j + k) = (i + j) + k /\ i + j \in Nat
      OBVIOUS
    <3>2. Len(text[n]) = (Len(text[n - 1]) + Len(instructions[n])) + Len(added)
      BY <1>2, <2>7, <3>1
    <3>3. Len(old[n]) \in Nat
      BY <2>7, <3>1
    <3>4. n \in 0..n
      BY <1>1
    <3>. QED BY <2>7, <3>2, <3>3, <3>4
  <2>. QED BY <1>1, <1>2, <2>3, <2>9, <2>10
<1>6. copiedLength + Len(added) \in Nat
  BY <1>1, <1>2
<1>7. \A text : Spells(text, Nothing(n)) => \A k \in 0..n : text[k] = <<>>
  BY DEF Fits
<1>. HIDE DEF n
<1>8. Fits(merged, capacity, copiedLength + Len(added))
  BY <1>1, <1>3, <1>4, <1>5, <1>6, <1>7 DEF Fits
<1>. QED BY <1>8 DEF merged, n

\* The buffer grows: on its first move to the heap its instructions become empty
\* ones, which have no text.
LEMMA FitsGrow ==
  ASSUME NEW instructions, NEW capacity, NEW copiedLength, Fits(instructions, capacity, copiedLength)
  PROVE  /\ Fits([k \in DOMAIN instructions |-> <<>>], capacity + StackInstructions, copiedLength)
         /\ capacity # StackInstructions => Fits(instructions, capacity + StackInstructions, copiedLength)
<1>. DEFINE n == Len(instructions)
            zeros == [k \in 0..n |-> <<>>]
<1>1. /\ instructions \in Seq(Texts) /\ copiedLength \in Nat /\ n \in Nat
      /\ capacity \in Nat /\ capacity >= StackInstructions
      /\ \A text : Spells(text, Nothing(n)) => \A k \in 0..n : text[k] = <<>>
  BY DEF Fits
<1>2. /\ capacity + StackInstructions \in Nat /\ capacity + StackInstructions >= StackInstructions
      /\ capacity + StackInstructions # StackInstructions
  BY <1>1, StackAssumption
<1>3. <<>> \in Texts /\ Len(<<>>) = 0 /\ <<>> \o <<>> = <<>>
  BY DEF Texts
<1>4. Nothing(n) \in Seq(Texts) /\ Len(Nothing(n)) = n
  BY <1>1, <1>3, FunctionIsSeq DEF Nothing
<1>5. Spells(zeros, Nothing(n))
  <2>1. \A k \in 1..n : Nothing(n)[k] = <<>> /\ k \in 0..n /\ k - 1 \in 0..n
    BY <1>1 DEF Nothing
  <2>2. 0 \in 0..n
    BY <1>1
  <2>3. zeros = [k \in 0..n |-> zeros[k]] /\ \A k \in 0..n : zeros[k] = <<>>
    OBVIOUS
  <2>. HIDE DEF zeros, n
  <2>4. \A k \in 1..n : zeros[k] = zeros[k - 1] \o Nothing(n)[k]
    BY <1>3, <2>1, <2>3
  <2>. QED BY <1>4, <2>2, <2>3, <2>4, SpellsByValue
<1>6. ASSUME NEW text, Spells(text, Nothing(n))
      PROVE  (\A k \in 0..n : text[k] \in Texts) /\ Len(text[n]) <= copiedLength
  <2>1. n \in 0..n /\ \A k \in 0..n : text[k] = <<>>
    BY <1>1, <1>6
  <2>. QED BY <1>1, <1>3, <2>1
<1>7. [k \in DOMAIN instructions |-> <<>>] = Nothing(n)
  BY <1>1 DEF Nothing
<1>8. Fits(Nothing(n), capacity + StackInstructions, copiedLength)
  <2>. HIDE DEF n, zeros
  <2>. QED BY <1>1, <1>2, <1>4, <1>5, <1>6 DEF Fits
<1>9. capacity # StackInstructions => Fits(instructions, capacity + StackInstructions, copiedLength)
  BY <1>1, <1>2 DEF Fits
<1>. QED BY <1>7, <1>8, <1>9

\* The copied text of a buffer fits, and what RKAppendCopyInstruction makes of it.
Copied(buffer) == Fits(buffer.instructions, buffer.capacity, buffer.copiedLength)

\* The text appended is counted, whether it merges with the last instruction, is
\* an instruction of its own, or makes the buffer grow (NSString.m:1116-1148).
LEMMA AppendCopyCounts ==
  ASSUME NEW buffer \in CopyBuffers, Copied(buffer), NEW text \in Texts
  PROVE  Copied(AppendCopyInstruction(buffer, text))
<1>1. /\ buffer.instructions \in Seq(Texts) /\ buffer.capacity \in Nat
      /\ buffer.copiedLength \in Nat
  BY DEF CopyBuffers
<1>2. CASE text = <<>>
  BY <1>2 DEF AppendCopyInstruction
<1>3. CASE text # <<>> /\ Continues(buffer.instructions, text)
  <2>. DEFINE merged == [buffer.instructions EXCEPT ![Len(buffer.instructions)] = @ \o text]
              after == [buffer EXCEPT !.instructions = merged, !.copiedLength = @ + Len(text)]
  <2>1. AppendCopyInstruction(buffer, text) = after
    BY <1>3 DEF AppendCopyInstruction
  <2>2. Len(buffer.instructions) # 0
    BY <1>1, <1>3 DEF Continues
  <2>3. Fits(merged, buffer.capacity, buffer.copiedLength + Len(text))
    BY <2>2, FitsMerge DEF Copied
  <2>. HIDE DEF merged
  <2>4. /\ after.instructions = merged /\ after.capacity = buffer.capacity
        /\ after.copiedLength = buffer.copiedLength + Len(text)
    BY DEF CopyBuffers
  <2>. QED BY <2>1, <2>3, <2>4 DEF Copied
<1>4. CASE text # <<>> /\ ~Continues(buffer.instructions, text)
  <2>. DEFINE grown == Grow(buffer, <<>>)
              after == [grown EXCEPT !.instructions = Append(@, text),
                                     !.copiedLength = @ + Len(text)]
  <2>1. AppendCopyInstruction(buffer, text) = after
    BY <1>4 DEF AppendCopyInstruction
  <2>2. grown \in CopyBuffers /\ Copied(grown)
    <3>1. CASE Len(buffer.instructions) < buffer.capacity
      BY <3>1 DEF Grow
    <3>2. CASE ~(Len(buffer.instructions) < buffer.capacity)
      <4>. DEFINE zeros == [k \in DOMAIN buffer.instructions |-> <<>>]
                  kept == IF OnStack(buffer) THEN zeros ELSE buffer.instructions
      <4>1. grown = [buffer EXCEPT !.instructions = kept, !.capacity = @ + StackInstructions]
        BY <3>2 DEF Grow
      <4>2. Fits(kept, buffer.capacity + StackInstructions, buffer.copiedLength)
        BY FitsGrow DEF Copied, OnStack
      <4>3. kept \in Seq(Texts) /\ buffer.capacity + StackInstructions \in Nat
        BY <4>2 DEF Fits
      <4>. HIDE DEF kept
      <4>. QED BY <4>1, <4>2, <4>3 DEF Copied, CopyBuffers
    <3>. QED BY <3>1, <3>2
  <2>. HIDE DEF grown
  <2>3. Fits(Append(grown.instructions, text), grown.capacity, grown.copiedLength + Len(text))
    BY <2>2, FitsAppend DEF Copied
  <2>4. /\ after.instructions = Append(grown.instructions, text)
        /\ after.capacity = grown.capacity
        /\ after.copiedLength = grown.copiedLength + Len(text)
    BY <2>2 DEF CopyBuffers
  <2>. QED BY <2>1, <2>3, <2>4 DEF Copied
<1>. QED BY <1>2, <1>3, <1>4

\* EvaluateCopyInstructions obeys its recursion as soon as any function does.
LEMMA EvaluateSpells ==
  ASSUME NEW instructions, \E text : Spells(text, instructions)
  PROVE  \E text : /\ Spells(text, instructions)
                   /\ EvaluateCopyInstructions(instructions) = text[Len(instructions)]
<1>. DEFINE text == CHOOSE text : Spells(text, instructions)
<1>1. Spells(text, instructions)
  OBVIOUS
<1>2. EvaluateCopyInstructions(instructions) = text[Len(instructions)]
  BY DEF EvaluateCopyInstructions, Spells
<1>. QED BY <1>1, <1>2

\* A step leaves the copy instructions, or appends one or two texts to them.
CopiesAppend ==
  \/ copies' = copies
  \/ \E text \in Texts : copies' = AppendCopyInstruction(copies, text)
  \/ \E first, second \in Texts :
       copies' = AppendCopyInstruction(AppendCopyInstruction(copies, first), second)

\* Every step is of one of these kinds, and what it appends is a text.
LEMMA StepsAppend ==
  ASSUME IInv, [Next]_vars
  PROVE  CopiesAppend
<1>. USE DEF CopiesAppend
<1>1. CASE Compile
  <2>1. CASE CompileEnds
    <3>. DEFINE before == Slice("subject", MakeRange(0, searchIndex'))
    <3>1. searchIndex' \in Nat
      BY <2>1, CallTyped DEF CompileEnds, IInv, TypeOK
    <3>2. before \in Texts
      BY <3>1, SliceIsText DEF MakeRange
    <3>3. copies' = IF Replacing THEN AppendCopyInstruction(copies, before) ELSE copies
      BY <2>1 DEF CompileEnds
    <3>. HIDE DEF before
    <3>. QED BY <3>2, <3>3
  <2>2. CASE ~CompileEnds
    BY <1>1, <2>2
    DEF Compile, CompileDollars, CompileCapture, CompileCaseOp, CompileText, CompileFails
  <2>. QED BY <2>1, <2>2
<1>2. CASE Search
  <2>1. ASSUME pc = "search", NEW ranges, ApplyFrom(ranges),
               ranges[0] \in RangesIn(searchIndex, SearchEnd)
        PROVE  CopiesAppend
    <3>. DEFINE between == Slice("subject", MakeRange(searchIndex, ranges[0].location - searchIndex))
    <3>1. /\ ranges[0].location \in Nat /\ searchIndex \in Nat
          /\ ranges[0].location - searchIndex \in Nat
      <4>1. SearchEnd \in Nat /\ searchIndex \in Nat
        BY CallTyped DEF IInv, TypeOK
      <4>2. ranges[0].location \in searchIndex..SearchEnd
        BY <2>1 DEF RangesIn
      <4>. QED BY <4>1, <4>2
    <3>2. between \in Texts
      BY <3>1, SliceIsText DEF MakeRange
    <3>3. copies' = IF Replacing THEN AppendCopyInstruction(copies, between) ELSE copies
      BY <2>1 DEF ApplyFrom
    <3>. HIDE DEF between
    <3>. QED BY <3>2, <3>3
  <2>2. CASE Match
    <3>1. CASE SearchRepeated /\ ApplyFrom(matchRanges)
      <4>1. matchRanges[0] \in RangesIn(searchIndex, SearchEnd) /\ pc = "search"
        BY <2>2, <3>1 DEF Match, SearchRepeated, IInv, TypeOK, InBounds
      <4>. QED BY <2>1, <3>1, <4>1
    <3>2. CASE \E ranges \in Found : ApplyFrom(ranges)
      BY <2>1, <2>2, <3>2 DEF Match, Found
    <3>. QED BY <2>2, <3>1, <3>2 DEF Match
  <2>3. CASE SearchEnds \/ SearchFails
    BY <2>3 DEF SearchEnds, SearchFails
  <2>. QED BY <1>2, <2>2, <2>3 DEF Search
<1>3. CASE Apply
  <2>1. CASE CopyPiece
    <3>1. Piece \in Texts
      BY <2>1, PieceIsText DEF CopyPiece, IInv
    <3>. QED BY <2>1, <3>1 DEF CopyPiece
  <2>2. CASE EndConversion
    <3>1. Convert(conversionString, currentOp) \in Texts
      BY ConvertIsText DEF IInv, TypeOK
    <3>. QED BY <2>2, <3>1 DEF EndConversion
  <2>3. CASE ConvertNextChar
    <3>1. Piece \in Texts /\ Piece # <<>>
      BY <2>3, PieceIsText DEF ConvertNextChar, HasPiece, IInv
    <3>2. Convert(<<Head(Piece)>>, currentOp) \in Texts /\ Tail(Piece) \in Texts
      BY <3>1, PartsAreTexts, ConvertIsText
    <3>. QED BY <2>3, <3>2 DEF ConvertNextChar
  <2>4. CASE EndNothing \/ GatherPiece \/ ChangeOp \/ ApplyEnds
    BY <2>4 DEF EndNothing, GatherPiece, ChangeOp, ApplyEnds
  <2>. QED BY <1>3, <2>1, <2>2, <2>3, <2>4 DEF Apply
<1>4. CASE Finish
  <2>. DEFINE rest == Slice("subject", MakeRange(searchIndex, call.length - searchIndex))
  <2>1. searchIndex \in Nat /\ call.length - searchIndex \in Nat
    <3>1. searchIndex \in call.range.location..SearchEnd /\ SearchEnd <= call.length
      BY <1>4, CallTyped DEF IInv, TypeOK, InBounds, Finish
    <3>. QED BY <3>1, CallTyped DEF IInv, TypeOK
  <2>2. rest \in Texts
    BY <2>1, SliceIsText DEF MakeRange
  <2>3. copies' = IF Replacing THEN AppendCopyInstruction(copies, rest) ELSE copies
    BY <1>4 DEF Finish
  <2>. HIDE DEF rest
  <2>. QED BY <2>2, <2>3
<1>5. CASE UNCHANGED vars
  BY <1>5 DEF vars
<1>. QED BY <1>1, <1>2, <1>3, <1>4, <1>5 DEF Next, Done

\* The empty buffer on the stack holds no text.
LEMMA NothingCopied == Init => Copied(copies)
<1>. SUFFICES ASSUME Init PROVE Copied(copies)
  OBVIOUS
<1>. DEFINE none == [k \in 0..0 |-> <<>>]
<1>1. <<>> \in Seq(Texts) /\ Len(<<>>) = 0 /\ <<>> \in Texts
  BY DEF Texts
<1>2. Nothing(0) \in Seq(Texts) /\ Len(Nothing(0)) = 0
  BY FunctionIsSeq DEF Nothing
<1>3. ASSUME NEW instructions \in Seq(Texts), Len(instructions) = 0, NEW text,
             Spells(text, instructions)
      PROVE  \A k \in 0..0 : text[k] = <<>>
  <2>1. text[0] = <<>>
    BY <1>3, SpellsByValue
  <2>2. \A k \in 0..0 : k = 0
    OBVIOUS
  <2>. QED BY <2>1, <2>2
<1>4. Spells(none, <<>>)
  <2>1. none = [k \in 0..0 |-> none[k]] /\ none[0] = <<>>
    OBVIOUS
  <2>. HIDE DEF none
  <2>. QED BY <1>1, <2>1, SpellsByValue
<1>5. \A text : Spells(text, <<>>) => \A k \in 0..0 : text[k] = <<>>
  BY <1>1, <1>3
<1>6. \A text : Spells(text, Nothing(0)) => \A k \in 0..0 : text[k] = <<>>
  BY <1>2, <1>3
<1>7. StackInstructions \in Nat /\ 0 \in 0..0
  BY StackAssumption
<1>. HIDE DEF none
<1>8. Fits(<<>>, StackInstructions, 0)
  BY <1>1, <1>4, <1>5, <1>6, <1>7 DEF Fits
<1>. QED BY <1>8 DEF Init, Copied

\* A step keeps the copied text within the counted length.
LEMMA CopiedKeeps ==
  ASSUME IInv, Copied(copies), [Next]_vars
  PROVE  Copied(copies)'
<1>1. copies \in CopyBuffers /\ ~Full(copies)
  BY DEF IInv, TypeOK, InBounds, CopyBuffers, Full
<1>2. CopiesAppend
  BY StepsAppend
<1>3. Copied(copies')
  <2>1. CASE copies' = copies
    BY <2>1
  <2>2. CASE \E text \in Texts : copies' = AppendCopyInstruction(copies, text)
    BY <1>1, <2>2, AppendCopyCounts
  <2>3. ASSUME NEW first \in Texts, NEW second \in Texts,
               copies' = AppendCopyInstruction(AppendCopyInstruction(copies, first), second)
        PROVE  Copied(copies')
    <3>1. /\ AppendCopyInstruction(copies, first) \in CopyBuffers
          /\ Copied(AppendCopyInstruction(copies, first))
      BY <1>1, AppendCopyCounts, AppendCopyFits
    <3>. QED BY <2>3, <3>1, AppendCopyCounts
  <2>. QED BY <1>2, <2>1, <2>2, <2>3 DEF CopiesAppend
<1>. QED BY <1>3

-------------------------------------------------------------------------------
(* What is lost when a buffer leaves the stack.                            *)

\* The instructions that read as empty ones are the first StackInstructions, of
\* a buffer that has left the stack, and it has more than those.
Loses(instructions, capacity, empty) ==
  /\ capacity >= StackInstructions
  /\ capacity # StackInstructions => Len(instructions) > StackInstructions
  /\ \A k \in 1..Len(instructions) :
       instructions[k] = empty <=> (k <= StackInstructions /\ capacity # StackInstructions)

\* Both buffers lose their first instructions when they leave the stack, and no
\* other ones.
LosesFirst ==
  /\ Loses(references.instructions, references.capacity, ZeroInstruction)
  /\ Loses(copies.instructions, copies.capacity, <<>>)

\* An instruction that is not empty is appended, to a buffer that grows if it has
\* to (NSString.m:1087-1102, 1132-1148).
LEMMA AppendLoses ==
  ASSUME NEW S, NEW empty \in S, NEW buffer, NEW B,
         \/ B = [instructions : Seq(S), capacity : Nat]
         \/ B = [instructions : Seq(S), capacity : Nat, copiedLength : Nat],
         buffer \in B, ~Full(buffer), Loses(buffer.instructions, buffer.capacity, empty),
         NEW added \in S, added # empty
  PROVE  Loses(Append(Grow(buffer, empty).instructions, added), Grow(buffer, empty).capacity, empty)
<1>. DEFINE grown == Grow(buffer, empty)
            instructions == grown.instructions
            capacity == grown.capacity
<1>1. buffer.instructions \in Seq(S) /\ buffer.capacity \in Nat
  <2>1. CASE B = [instructions : Seq(S), capacity : Nat]  BY <2>1
  <2>2. CASE B = [instructions : Seq(S), capacity : Nat, copiedLength : Nat]  BY <2>2
  <2>. QED BY <2>1, <2>2
<1>2. StackInstructions \in Nat \ {0}
  BY StackAssumption
<1>3. /\ instructions \in Seq(S) /\ capacity \in Nat /\ capacity >= StackInstructions
      /\ capacity # StackInstructions => Len(instructions) >= StackInstructions
      /\ \A k \in 1..Len(instructions) :
           instructions[k] = empty <=> (k <= StackInstructions /\ capacity # StackInstructions)
  <2>1. CASE Len(buffer.instructions) < buffer.capacity
    <3>1. grown = buffer
      BY <2>1 DEF Grow
    <3>2. Len(buffer.instructions) \in Nat
      BY <1>1
    <3>. HIDE DEF grown
    <3>. QED BY <1>1, <1>2, <3>1, <3>2 DEF Loses
  <2>2. CASE ~(Len(buffer.instructions) < buffer.capacity)
    <3>. DEFINE n == Len(buffer.instructions)
                zeros == [k \in DOMAIN buffer.instructions |-> empty]
                kept == IF OnStack(buffer) THEN zeros ELSE buffer.instructions
    <3>1. grown = [buffer EXCEPT !.instructions = kept, !.capacity = @ + StackInstructions]
      BY <2>2 DEF Grow
    <3>2. n \in Nat /\ n = buffer.capacity
      BY <1>1, <2>2 DEF Full
    <3>3. zeros \in Seq(S) /\ Len(zeros) = n /\ \A k \in 1..n : zeros[k] = empty
      <4>1. DOMAIN buffer.instructions = 1..n
        BY <1>1
      <4>2. zeros \in [1..n -> S]
        BY <4>1
      <4>. QED BY <3>2, <4>1, <4>2, FunctionIsSeq
    <3>4. kept \in Seq(S) /\ Len(kept) = n
      BY <1>1, <3>3
    <3>. HIDE DEF kept, zeros
    <3>5. instructions = kept /\ capacity = buffer.capacity + StackInstructions
      <4>1. CASE B = [instructions : Seq(S), capacity : Nat]  BY <3>1, <4>1
      <4>2. CASE B = [instructions : Seq(S), capacity : Nat, copiedLength : Nat]  BY <3>1, <4>2
      <4>. QED BY <4>1, <4>2
    <3>6. buffer.capacity >= StackInstructions
      BY DEF Loses
    <3>7. ASSUME NEW k \in 1..n
          PROVE  kept[k] = empty <=> k <= StackInstructions
      <4>1. CASE OnStack(buffer)
        <5>1. kept = zeros /\ n = StackInstructions
          BY <3>2, <4>1 DEF kept, OnStack
        <5>. QED BY <3>2, <3>3, <5>1
      <4>2. CASE ~OnStack(buffer)
        BY <4>2 DEF kept, OnStack, Loses
      <4>. QED BY <4>1, <4>2
    <3>8. capacity # StackInstructions /\ capacity \in Nat /\ capacity >= StackInstructions
      BY <1>1, <1>2, <3>5, <3>6
    <3>. HIDE DEF instructions, capacity, n
    <3>. QED BY <1>1, <1>2, <3>2, <3>4, <3>5, <3>6, <3>7, <3>8
  <2>. QED BY <2>1, <2>2
<1>. HIDE DEF grown, instructions, capacity
<1>4. /\ Len(Append(instructions, added)) = Len(instructions) + 1
      /\ Len(instructions) \in Nat
      /\ Append(instructions, added)[Len(instructions) + 1] = added
      /\ \A k \in 1..Len(instructions) : Append(instructions, added)[k] = instructions[k]
  BY <1>3
<1>5. ASSUME NEW k \in 1..(Len(instructions) + 1)
      PROVE  Append(instructions, added)[k] = empty
               <=> (k <= StackInstructions /\ capacity # StackInstructions)
  <2>1. CASE k = Len(instructions) + 1
    BY <1>2, <1>3, <1>4, <2>1
  <2>2. CASE k # Len(instructions) + 1
    <3>1. k \in 1..Len(instructions)
      BY <1>4, <2>2
    <3>. QED BY <1>3, <1>4, <3>1
  <2>. QED BY <2>1, <2>2
<1>6. Loses(Append(instructions, added), capacity, empty)
  BY <1>2, <1>3, <1>4, <1>5 DEF Loses
<1>. QED BY <1>6 DEF instructions, capacity, grown

\* RKAppendInstruction appends no empty instruction.
LEMMA AppendInstructionLoses ==
  ASSUME NEW buffer \in ReferenceBuffers, ~Full(buffer),
         Loses(buffer.instructions, buffer.capacity, ZeroInstruction),
         NEW op, NEW range, Instruction(op, range) # ZeroInstruction,
         (range.length = 0 /\ op = CopyRange) \/ Instruction(op, range) \in Instructions
  PROVE  LET after == AppendInstruction(buffer, op, range) IN
         Loses(after.instructions, after.capacity, ZeroInstruction)
<1>1. CASE range.length = 0 /\ op = CopyRange
  BY <1>1 DEF AppendInstruction
<1>2. CASE ~(range.length = 0 /\ op = CopyRange)
  <2>. DEFINE grown == Grow(buffer, ZeroInstruction)
              after == [grown EXCEPT !.instructions = Append(@, Instruction(op, range))]
  <2>1. AppendInstruction(buffer, op, range) = after
    BY <1>2 DEF AppendInstruction
  <2>2. ZeroInstruction \in Instructions
    BY DEF ZeroInstruction, Instruction, Instructions, MakeRange, Ranges, Ops, Stop,
           CopyCaptureIndex, CopyRange
  <2>3. grown \in ReferenceBuffers
    BY <2>2, GrowMakesRoom DEF ReferenceBuffers
  <2>4. Loses(Append(grown.instructions, Instruction(op, range)), grown.capacity, ZeroInstruction)
    BY <1>2, <2>2, AppendLoses DEF ReferenceBuffers
  <2>. HIDE DEF grown
  <2>5. /\ after.instructions = Append(grown.instructions, Instruction(op, range))
        /\ after.capacity = grown.capacity
    BY <2>3 DEF ReferenceBuffers
  <2>. QED BY <2>1, <2>4, <2>5
<1>. QED BY <1>1, <1>2

\* Nor does RKAppendCopyInstruction, and what it merges is behind what was lost.
LEMMA AppendCopyLoses ==
  ASSUME NEW buffer \in CopyBuffers, ~Full(buffer),
         Loses(buffer.instructions, buffer.capacity, <<>>), NEW text \in Texts
  PROVE  LET after == AppendCopyInstruction(buffer, text) IN
         Loses(after.instructions, after.capacity, <<>>)
<1>0. /\ buffer.instructions \in Seq(Texts) /\ buffer.capacity \in Nat
      /\ <<>> \in Texts /\ StackInstructions \in Nat \ {0}
  BY StackAssumption DEF CopyBuffers, Texts
<1>1. CASE text = <<>>
  BY <1>1 DEF AppendCopyInstruction
<1>2. CASE text # <<>> /\ Continues(buffer.instructions, text)
  <2>. DEFINE n == Len(buffer.instructions)
              merged == [buffer.instructions EXCEPT ![n] = @ \o text]
              after == [buffer EXCEPT !.instructions = merged, !.copiedLength = @ + Len(text)]
  <2>1. AppendCopyInstruction(buffer, text) = after
    BY <1>2 DEF AppendCopyInstruction
  <2>2. n \in Nat \ {0} /\ buffer.instructions[n] \in Texts
    BY <1>0, <1>2 DEF Continues
  <2>3. buffer.instructions[n] \o text # <<>>
    <3>1. Len(text) # 0 /\ Len(text) \in Nat
      BY <1>2 DEF Texts
    <3>. QED BY <2>2, <3>1, JoinedTexts
  <2>4. /\ Len(merged) = n /\ merged[n] = buffer.instructions[n] \o text
        /\ \A k \in 1..n : k # n => merged[k] = buffer.instructions[k]
    BY <1>0, <2>2
  <2>5. after.instructions = merged /\ after.capacity = buffer.capacity
    BY DEF CopyBuffers
  <2>6. ~(n <= StackInstructions /\ buffer.capacity # StackInstructions)
    BY <1>0, <2>2 DEF Loses
  <2>. HIDE DEF merged, after
  <2>7. ASSUME NEW k \in 1..n
        PROVE  merged[k] = <<>> <=> (k <= StackInstructions /\ buffer.capacity # StackInstructions)
    <3>1. CASE k = n
      BY <2>3, <2>4, <2>6, <3>1
    <3>2. CASE k # n
      BY <2>4, <3>2 DEF Loses
    <3>. QED BY <3>1, <3>2
  <2>8. Loses(merged, buffer.capacity, <<>>)
    BY <2>4, <2>7 DEF Loses
  <2>. QED BY <2>1, <2>5, <2>8
<1>3. CASE text # <<>> /\ ~Continues(buffer.instructions, text)
  <2>. DEFINE grown == Grow(buffer, <<>>)
              after == [grown EXCEPT !.instructions = Append(@, text),
                                     !.copiedLength = @ + Len(text)]
  <2>1. AppendCopyInstruction(buffer, text) = after
    BY <1>3 DEF AppendCopyInstruction
  <2>2. grown \in CopyBuffers
    BY <1>0, GrowMakesRoom DEF CopyBuffers
  <2>3. Loses(Append(grown.instructions, text), grown.capacity, <<>>)
    BY <1>0, <1>3, AppendLoses DEF CopyBuffers
  <2>. HIDE DEF grown
  <2>4. after.instructions = Append(grown.instructions, text) /\ after.capacity = grown.capacity
    BY <2>2 DEF CopyBuffers
  <2>. QED BY <2>1, <2>3, <2>4
<1>. QED BY <1>1, <1>2, <1>3

\* Once the reference instructions have left the stack, they begin with a stop.
StopsAtOnce == pc = "apply" /\ ~OnStack(references) => lastOp = Stop

\* A step appends to the reference instructions, while they are compiled, what is
\* not empty, or leaves them.
LEMMA CompileLoses ==
  ASSUME IInv, LosesFirst, Compile
  PROVE  Loses(references.instructions, references.capacity, ZeroInstruction)'
<1>. USE DEF IInv
<1>1. /\ references \in ReferenceBuffers /\ ~Full(references)
      /\ Loses(references.instructions, references.capacity, ZeroInstruction)
  BY DEF TypeOK, InBounds, ReferenceBuffers, Full, LosesFirst
<1>2. /\ referenceIndex \in Nat /\ Len(call.reference) \in Nat
      /\ currentRange \in [location : Nat, length : Nat]
      /\ currentRange.location + currentRange.length = referenceIndex
      /\ referenceIndex <= Len(call.reference)
  BY CallTyped DEF TypeOK, InBounds
<1>3. \A op, range : op # Stop => Instruction(op, range) # ZeroInstruction
  BY DEF Instruction, ZeroInstruction
<1>4. CopyRange # Stop /\ CopyCaptureIndex # Stop /\ \A op \in CaseOps : op # Stop
  BY DEF CopyRange, CopyCaptureIndex, Stop, CaseOps, NextCharOps, BeginOps,
       UppercaseNextChar,
         LowercaseNextChar, UppercaseBegin, LowercaseBegin, ChangeCaseEnd
<1>5. /\ Flushed \in ReferenceBuffers /\ ~Full(Flushed)
      /\ Loses(Flushed.instructions, Flushed.capacity, ZeroInstruction)
  <2>1. Instruction(CopyRange, currentRange) \in Instructions
    BY <1>2 DEF TypeOK, Instructions, Instruction, Ranges, Ops, CopyRange, CopyCaptureIndex
  <2>2. LET after == AppendInstruction(references, CopyRange, currentRange) IN
        Loses(after.instructions, after.capacity, ZeroInstruction)
    BY <1>1, <1>3, <1>4, <2>1, AppendInstructionLoses
  <2>. QED BY <2>2, FlushFits DEF Flushed
<1>6. ASSUME NEW op, NEW range, Instruction(op, range) # ZeroInstruction,
             Instruction(op, range) \in Instructions,
             references' = AppendInstruction(Flushed, op, range)
      PROVE  Loses(references.instructions, references.capacity, ZeroInstruction)'
  <2>1. LET after == AppendInstruction(Flushed, op, range) IN
        Loses(after.instructions, after.capacity, ZeroInstruction)
    BY <1>5, <1>6, AppendInstructionLoses
  <2>. QED BY <1>6, <2>1
<1>7. CASE CompileDollars
  <2>. DEFINE range == [currentRange EXCEPT !.length = @ + 1]
  <2>1. range \in [location : Nat, length : Nat] /\ range.location + range.length = referenceIndex + 1
    BY <1>2
  <2>2. referenceIndex + 2 <= Len(call.reference)
    BY <1>2, <1>7 DEF CompileDollars, InReference
  <2>3. references' = AppendInstruction(references, CopyRange, range)
    BY <1>7 DEF CompileDollars
  <2>. HIDE DEF range
  <2>4. Instruction(CopyRange, range) \in Instructions
    BY <1>2, <2>1, <2>2
         DEF Instructions, Instruction, Ranges, Ops, CopyRange, CopyCaptureIndex
  <2>5. LET after == AppendInstruction(references, CopyRange, range) IN
        Loses(after.instructions, after.capacity, ZeroInstruction)
    BY <1>1, <1>3, <1>4, <2>4, AppendInstructionLoses
  <2>. QED BY <2>3, <2>5
<1>8. CASE CompileCapture
  <2>. DEFINE capture == TokenAt(referenceIndex).capture
  <2>1. TokenAt(referenceIndex) \in Token
    <3>1. call.reference \in Seq(Token)
      BY CallTyped DEF TypeOK
    <3>2. referenceIndex + 1 \in 1..Len(call.reference)
      BY <1>2, <1>8 DEF CompileCapture, Compiling, InReference
    <3>. QED BY <3>1, <3>2 DEF TokenAt
  <2>2. /\ capture \in Nat /\ capture < CaptureCount /\ CaptureCount \in Nat
        /\ references' = AppendInstruction(Flushed, CopyCaptureIndex, MakeRange(capture, 0))
    BY <1>8, <2>1, CaptureCountAssumption DEF Token, CompileCapture, Emit
  <2>. HIDE DEF capture
  <2>3. Instruction(CopyCaptureIndex, MakeRange(capture, 0)) \in Instructions
    BY <2>2
         DEF Instruction, Instructions, MakeRange, Ranges, Ops, CopyCaptureIndex,
         CopyRange,
                Captures
  <2>. QED BY <1>3, <1>4, <1>6, <2>2, <2>3
<1>9. CASE CompileCaseOp
  <2>. DEFINE op == TokenAt(referenceIndex).op
  <2>1. op \in CaseOps /\ references' = AppendInstruction(Flushed, op, MakeRange(0, 0))
    BY <1>9 DEF CompileCaseOp, Emit
  <2>. HIDE DEF op
  <2>2. Instruction(op, MakeRange(0, 0)) \in Instructions
    BY <2>1
         DEF Instruction, Instructions, MakeRange, Ranges, Ops, CaseOps, NextCharOps,
         BeginOps,
                UppercaseNextChar, LowercaseNextChar, UppercaseBegin, LowercaseBegin,
                ChangeCaseEnd, CopyCaptureIndex, CopyRange
  <2>. QED BY <1>3, <1>4, <1>6, <2>1, <2>2
<1>10. CASE CompileText \/ CompileFails
  <2>1. references' = references
    BY <1>10 DEF CompileText, CompileFails, compileVars
  <2>. QED BY <1>1, <2>1
<1>11. CASE CompileEnds
  <2>1. references' = AppendInstruction(Flushed, Stop, NotFound)
    BY <1>11 DEF CompileEnds
  <2>2. /\ Instruction(Stop, NotFound) \in Instructions
        /\ Instruction(Stop, NotFound) # ZeroInstruction
    BY DEF Instruction, Instructions, NotFound, MakeRange, Ranges, Ops, Stop,
         CopyCaptureIndex,
           CopyRange, ZeroInstruction
  <2>. QED BY <1>6, <2>1, <2>2
<1>. QED BY <1>7, <1>8, <1>9, <1>10, <1>11 DEF Compile

\* Every step keeps what is lost to the first instructions.
LEMMA LosesKeeps ==
  ASSUME IInv, LosesFirst, [Next]_vars
  PROVE  LosesFirst'
<1>1. /\ copies \in CopyBuffers /\ ~Full(copies)
      /\ Loses(copies.instructions, copies.capacity, <<>>)
      /\ Loses(references.instructions, references.capacity, ZeroInstruction)
  BY DEF IInv, TypeOK, InBounds, CopyBuffers, Full, LosesFirst
<1>2. Loses(copies.instructions, copies.capacity, <<>>)'
  <2>1. ASSUME NEW text \in Texts, copies' = AppendCopyInstruction(copies, text)
        PROVE  Loses(copies.instructions, copies.capacity, <<>>)'
    <3>1. LET after == AppendCopyInstruction(copies, text) IN
          Loses(after.instructions, after.capacity, <<>>)
      BY <1>1, AppendCopyLoses
    <3>. QED BY <2>1, <3>1
  <2>2. ASSUME NEW first \in Texts, NEW second \in Texts,
               copies' = AppendCopyInstruction(AppendCopyInstruction(copies, first), second)
        PROVE  Loses(copies.instructions, copies.capacity, <<>>)'
    <3>. DEFINE between == AppendCopyInstruction(copies, first)
    <3>1. between \in CopyBuffers /\ ~Full(between)
      BY <1>1, AppendCopyFits
    <3>2. Loses(between.instructions, between.capacity, <<>>)
      BY <1>1, AppendCopyLoses
    <3>3. copies' = AppendCopyInstruction(between, second)
      BY <2>2
    <3>. HIDE DEF between
    <3>4. LET after == AppendCopyInstruction(between, second) IN
          Loses(after.instructions, after.capacity, <<>>)
      BY <3>1, <3>2, AppendCopyLoses
    <3>. QED BY <3>3, <3>4
  <2>3. CASE copies' = copies
    BY <1>1, <2>3
  <2>. QED BY <2>1, <2>2, <2>3, StepsAppend DEF CopiesAppend
<1>3. Loses(references.instructions, references.capacity, ZeroInstruction)'
  <2>1. CASE Compile
    BY <2>1, CompileLoses
  <2>2. CASE ~Compile
    <3>1. references' = references
      BY <2>2
           DEF Next, Search, Apply, Match, ApplyFrom, SearchEnds, SearchFails,
           EndNothing,
                  CopyPiece, GatherPiece, EndConversion, ConvertNextChar, ChangeOp, ApplyEnds,
                  Finish, Done, vars, compileVars
    <3>. QED BY <1>1, <3>1
  <2>. QED BY <2>1, <2>2
<1>. QED BY <1>2, <1>3 DEF LosesFirst

\* The first instruction a match applies is a stop, if the first ones are lost.
LEMMA StopsKeeps ==
  ASSUME IInv, LosesFirst, StopsAtOnce, [Next]_vars
  PROVE  StopsAtOnce'
<1>1. CASE Match
  <2>1. references' = references /\ lastOp' = references.instructions[1].op
    BY <1>1 DEF Match, ApplyFrom, compileVars
  <2>2. ~OnStack(references) => references.instructions[1] = ZeroInstruction
    <3>1. Len(references.instructions) \in Nat
      BY DEF IInv, TypeOK
    <3>2. StackInstructions \in Nat \ {0}
      BY StackAssumption
    <3>3. ASSUME ~OnStack(references) PROVE 1 \in 1..Len(references.instructions)
      BY <3>1, <3>2, <3>3 DEF LosesFirst, Loses, OnStack
    <3>. QED BY <3>2, <3>3 DEF LosesFirst, Loses, OnStack
  <2>. QED BY <2>1, <2>2 DEF StopsAtOnce, ZeroInstruction, Instruction, OnStack
<1>2. CASE Apply
  <2>1. CASE ApplyEnds
    BY <2>1 DEF StopsAtOnce, ApplyEnds
  <2>2. CASE ~ApplyEnds
    BY <1>2, <2>2
    DEF Apply, EndNothing, CopyPiece, GatherPiece, EndConversion, ConvertNextChar, ChangeOp,
        Applying, StopsAtOnce, OnStack, compileVars
  <2>. QED BY <2>1, <2>2
<1>3. CASE Compile
  BY <1>3
       DEF Compile, CompileDollars, CompileCapture, CompileCaseOp, CompileText,
       CompileFails,
              CompileEnds, Compiling, Return, StopsAtOnce
<1>4. CASE SearchEnds \/ SearchFails \/ Finish
  BY <1>4 DEF SearchEnds, SearchFails, Fail, Finish, Return, StopsAtOnce
<1>5. CASE UNCHANGED vars
  BY <1>5 DEF vars, compileVars, applyVars, StopsAtOnce, OnStack
<1>. QED BY <1>1, <1>2, <1>3, <1>4, <1>5 DEF Next, Search, Done

-------------------------------------------------------------------------------
(* The theorems, but for what is returned.                                 *)

\* The invariant holds in every state.
LEMMA Always == Spec => []IInv
BY Initially, Inductive, PTL DEF Spec

\* Every variable of a search and replace has a value of its kind: an
\* instruction stands for a capture the regex has or a range of the reference
\* string (NSString.m:1012-1072), and an operation is one of the known ones.
THEOREM TypeCorrect == Spec => []TypeOK
<1>1. IInv => TypeOK  BY DEF IInv
<1> QED  BY <1>1, Always, PTL

\* Nothing is written behind the end of a buffer, whenever it grows, and no
\* length computed by subtraction is negative: every search begins where the last
\* match ended, in the range asked for (NSString.m:773-787, 1087-1140).
THEOREM StaysInBounds == Spec => []InBounds
<1>1. IInv => InBounds  BY DEF IInv
<1> QED  BY <1>1, Always, PTL

\* The buffer the new string is copied to, whose size is the sum of the lengths
\* counted, holds the text of all copy instructions, and has no byte that none of
\* them writes while they are on the stack (NSString.m:855-884, 1116-1148).
THEOREM CopiesFit == Spec => []CopyFits
<1>1. Copied(copies) => CopyFits
  <2>. SUFFICES ASSUME Copied(copies) PROVE CopyFits
    OBVIOUS
  <2>1. PICK text : /\ Spells(text, copies.instructions)
                    /\ EvaluateCopyInstructions(copies.instructions)
                         = text[Len(copies.instructions)]
    BY EvaluateSpells DEF Copied, Fits
  <2>. QED BY <2>1 DEF Copied, Fits, CopyFits, OnStack
<1>2. Init => Copied(copies)
  BY NothingCopied
<1>3. IInv /\ Copied(copies) /\ [Next]_vars => Copied(copies)'
  BY CopiedKeeps
<1>. QED BY <1>1, <1>2, <1>3, Always, PTL DEF Spec

\* A buffer that moves to the heap loses the instructions it had on the stack, and
\* no instruction is lost later, however often it grows (NSString.m:1087-1102,
\* 1132-1148).
THEOREM OverflowLosesTheStack == Spec => []LosesFirst
<1>1. Init => LosesFirst
  BY StackAssumption DEF Init, LosesFirst, Loses
<1>2. IInv /\ LosesFirst /\ [Next]_vars => LosesFirst'
  BY LosesKeeps
<1>. QED BY <1>1, <1>2, Always, PTL DEF Spec

\* So a reference string of more instructions than the stack holds replaces every
\* match by nothing: RKApplyReferenceInstructions begins with a stop
\* (NSString.m:900-925).
THEOREM OverflowAppliesNothing == Spec => [](pc = "apply" /\ ~OnStack(references) => ~Applying)
<1>1. Init => StopsAtOnce
  BY DEF Init, StopsAtOnce
<1>2. IInv /\ LosesFirst /\ StopsAtOnce /\ [Next]_vars => StopsAtOnce'
  BY StopsKeeps
<1>3. StopsAtOnce => (pc = "apply" /\ ~OnStack(references) => ~Applying)
  BY DEF StopsAtOnce, Applying
<1>. QED BY <1>1, <1>2, <1>3, Always, OverflowLosesTheStack, PTL DEF Spec

-------------------------------------------------------------------------------
(* Texts put together.                                                     *)

\* Induction, over a set of numbers.
LEMMA NatInduct ==
  ASSUME NEW S, 0 \in S, \A n \in Nat : n \in S => n + 1 \in S
  PROVE  Nat \subseteq S
<1>. DEFINE T == Nat \ S
<1>. SUFFICES ASSUME T # {} PROVE FALSE
  OBVIOUS
<1>1. PICK n \in T : \A m \in T : ~(<<m, n>> \in OpToRel(<, Nat))
  BY NatLessThanWellFounded, WFMin
<1>2. \A m \in T : ~(m < n)
  BY <1>1 DEF OpToRel
<1>3. n # 0 /\ n - 1 \in Nat
  OBVIOUS
<1>4. n - 1 \notin T
  BY <1>2, <1>3
<1>. QED BY <1>3, <1>4

\* Texts after each other.
LEMMA TextAlgebra ==
  /\ <<>> \in Texts /\ Len(<<>>) = 0
  /\ \A a \in Texts : a \o <<>> = a /\ <<>> \o a = a
  /\ \A a, b \in Texts : a \o b \in Texts /\ Len(a \o b) = Len(a) + Len(b)
  /\ \A a, b, c \in Texts : (a \o b) \o c = a \o (b \o c)
<1>1. Texts = Seq(Characters)
  BY DEF Texts, Characters
<1>2. \A a \in Seq(Characters) : a \o <<>> = a /\ <<>> \o a = a
  BY ConcatEmptySeq
<1>3. \A a, b, c \in Seq(Characters) : (a \o b) \o c = a \o (b \o c)
  BY ConcatAssociative
<1>4. \A a, b \in Texts : a \o b \in Texts /\ Len(a \o b) = Len(a) + Len(b)
  BY JoinedTexts
<1>5. <<>> \in Seq(Characters) /\ Len(<<>>) = 0
  OBVIOUS
<1>. QED BY <1>1, <1>2, <1>3, <1>4, <1>5

\* Instructions have a text, however many there are.
LEMMA EverySequenceSpells ==
  ASSUME NEW instructions \in Seq(Texts)
  PROVE  \E text : Spells(text, instructions)
<1>. DEFINE S == {n \in Nat : \A s \in Seq(Texts) : Len(s) = n => \E text : Spells(text, s)}
<1>1. 0 \in S
  <2>. SUFFICES ASSUME NEW s \in Seq(Texts), Len(s) = 0 PROVE \E text : Spells(text, s)
    OBVIOUS
  <2>. DEFINE none == [k \in 0..0 |-> <<>>]
  <2>1. none = [k \in 0..0 |-> none[k]] /\ none[0] = <<>>
    OBVIOUS
  <2>. HIDE DEF none
  <2>2. 0..Len(s) = 0..0 /\ \A k \in 1..Len(s) : FALSE
    OBVIOUS
  <2>3. none = [k \in 0..Len(s) |-> none[k]]
    BY <2>1, <2>2
  <2>4. Spells(none, s)
    BY <2>1, <2>2, <2>3, SpellsByValue
  <2>. QED BY <2>4
<1>2. ASSUME NEW n \in Nat, n \in S PROVE n + 1 \in S
  <2>. SUFFICES ASSUME NEW s \in Seq(Texts), Len(s) = n + 1 PROVE \E text : Spells(text, s)
    OBVIOUS
  <2>. DEFINE fewer == [k \in 1..n |-> s[k]]
  <2>1. fewer \in Seq(Texts) /\ Len(fewer) = n
    <3>1. fewer \in [1..n -> Texts]
      OBVIOUS
    <3>. QED BY <3>1, FunctionIsSeq
  <2>2. PICK text : Spells(text, fewer)
    BY <1>2, <2>1
  <2>3. \A k \in 1..Len(fewer) : s[k] = fewer[k]
    BY <2>1
  <2>. HIDE DEF fewer
  <2>. QED BY <2>1, <2>2, <2>3, SpellsMore
<1>3. Nat \subseteq S
  <2>. HIDE DEF S
  <2>. QED BY <1>1, <1>2, NatInduct
<1>. QED BY <1>3

\* And one only.
LEMMA SpellsOnce ==
  ASSUME NEW instructions \in Seq(Texts), NEW text, Spells(text, instructions),
         NEW other, Spells(other, instructions)
  PROVE  \A k \in 0..Len(instructions) : text[k] = other[k] /\ text[k] \in Texts
<1>. DEFINE n == Len(instructions)
            S == {k \in Nat : k <= n => text[k] = other[k] /\ text[k] \in Texts}
<1>1. /\ text[0] = <<>> /\ \A k \in 1..n : text[k] = text[k - 1] \o instructions[k]
      /\ other[0] = <<>> /\ \A k \in 1..n : other[k] = other[k - 1] \o instructions[k]
  BY SpellsByValue
<1>2. n \in Nat /\ \A k \in 1..n : instructions[k] \in Texts
  OBVIOUS
<1>. HIDE DEF n
<1>3. 0 \in S
  BY <1>1, TextAlgebra
<1>4. ASSUME NEW k \in Nat, k \in S PROVE k + 1 \in S
  <2>. SUFFICES ASSUME k + 1 <= n PROVE text[k + 1] = other[k + 1] /\ text[k + 1] \in Texts
    OBVIOUS
  <2>1. k + 1 \in 1..n /\ (k + 1) - 1 = k /\ k <= n
    BY <1>2
  <2>2. text[k + 1] = text[k] \o instructions[k + 1] /\ other[k + 1] = other[k] \o instructions[k + 1]
    BY <1>1, <2>1
  <2>. QED BY <1>2, <1>4, <2>1, <2>2, JoinedTexts
<1>5. Nat \subseteq S
  <2>. HIDE DEF S
  <2>. QED BY <1>3, <1>4, NatInduct
<1>. QED BY <1>2, <1>5 DEF n

\* Texts after each other, which is what copy instructions are put together to.
Joined(texts) == EvaluateCopyInstructions(texts)

\* The text of no texts, and of one more.
LEMMA JoinedMore ==
  ASSUME NEW texts \in Seq(Texts)
  PROVE  /\ Joined(texts) \in Texts
         /\ Len(texts) = 0 => Joined(texts) = <<>>
         /\ \A more \in Seq(Texts) :
              /\ Len(more) = Len(texts) + 1
              /\ \A k \in 1..Len(texts) : more[k] = texts[k]
              => Joined(more) = Joined(texts) \o more[Len(more)]
<1>1. PICK text : Spells(text, texts) /\ Joined(texts) = text[Len(texts)]
  BY EverySequenceSpells, EvaluateSpells DEF Joined
<1>2. Len(texts) \in Nat
  OBVIOUS
<1>3. Joined(texts) \in Texts
  <2>1. Len(texts) \in 0..Len(texts)
    BY <1>2
  <2>. QED BY <1>1, <2>1, SpellsOnce
<1>4. ASSUME Len(texts) = 0 PROVE Joined(texts) = <<>>
  BY <1>1, <1>4, SpellsByValue
<1>5. ASSUME NEW more \in Seq(Texts), Len(more) = Len(texts) + 1,
             \A k \in 1..Len(texts) : more[k] = texts[k]
      PROVE  Joined(more) = Joined(texts) \o more[Len(more)]
  <2>1. PICK longer : Spells(longer, more) /\ Joined(more) = longer[Len(more)]
    BY EverySequenceSpells, EvaluateSpells DEF Joined
  <2>. DEFINE shorter == [k \in 0..Len(texts) |-> longer[k]]
  <2>2. Spells(shorter, texts) /\ longer[Len(more)] = longer[Len(texts)] \o more[Len(more)]
    BY <1>5, <2>1, SpellsFewer
  <2>3. Len(texts) \in 0..Len(texts)
    BY <1>2
  <2>4. shorter[Len(texts)] = text[Len(texts)]
    <3>. HIDE DEF shorter
    <3>. QED BY <1>1, <2>2, <2>3, SpellsOnce
  <2>. QED BY <1>1, <2>1, <2>2, <2>3, <2>4
<1>. QED BY <1>3, <1>4, <1>5

\* One text more.
LEMMA JoinedAppend ==
  ASSUME NEW texts \in Seq(Texts), NEW text \in Texts
  PROVE  Joined(Append(texts, text)) = Joined(texts) \o text
<1>1. /\ Append(texts, text) \in Seq(Texts) /\ Len(Append(texts, text)) = Len(texts) + 1
      /\ \A k \in 1..Len(texts) : Append(texts, text)[k] = texts[k]
      /\ Append(texts, text)[Len(texts) + 1] = text
  OBVIOUS
<1>. QED BY <1>1, JoinedMore

\* A longer last text.
LEMMA JoinedMerge ==
  ASSUME NEW texts \in Seq(Texts), Len(texts) # 0, NEW text \in Texts
  PROVE  LET merged == [texts EXCEPT ![Len(texts)] = @ \o text] IN
         merged \in Seq(Texts) /\ Joined(merged) = Joined(texts) \o text
<1>. DEFINE n == Len(texts)
            merged == [texts EXCEPT ![n] = @ \o text]
            front == [k \in 1..(n - 1) |-> texts[k]]
<1>1. n \in Nat \ {0} /\ texts[n] \in Texts /\ texts[n] \o text \in Texts
  BY JoinedTexts
<1>2. merged \in Seq(Texts) /\ Len(merged) = n /\ merged[n] = texts[n] \o text
      /\ \A k \in 1..(n - 1) : merged[k] = texts[k]
  BY <1>1
<1>3. front \in Seq(Texts) /\ Len(front) = n - 1 /\ \A k \in 1..(n - 1) : front[k] = texts[k]
  <2>1. front \in [1..(n - 1) -> Texts] /\ n - 1 \in Nat
    BY <1>1
  <2>. QED BY <2>1, FunctionIsSeq
<1>. HIDE DEF front, merged
<1>4. Joined(texts) = Joined(front) \o texts[n] /\ Joined(merged) = Joined(front) \o merged[n]
  <2>1. Len(texts) = Len(front) + 1 /\ Len(merged) = Len(front) + 1
    BY <1>1, <1>2, <1>3
  <2>2. \A k \in 1..Len(front) : texts[k] = front[k] /\ merged[k] = front[k]
    BY <1>2, <1>3
  <2>. QED BY <1>2, <1>3, <2>1, <2>2, JoinedMore
<1>5. (Joined(front) \o texts[n]) \o text = Joined(front) \o (texts[n] \o text)
  <2>1. Joined(front) \in Texts
    BY <1>3, JoinedMore
  <2>. QED BY <1>1, <2>1, TextAlgebra
<1>. QED BY <1>2, <1>4, <1>5 DEF merged

\* Empty texts have an empty text.
LEMMA JoinedNothing ==
  ASSUME NEW n \in Nat
  PROVE  Nothing(n) \in Seq(Texts) /\ Len(Nothing(n)) = n /\ Joined(Nothing(n)) = <<>>
<1>. DEFINE S == {m \in Nat : Joined(Nothing(m)) = <<>>}
<1>1. <<>> \in Texts /\ <<>> \o <<>> = <<>>
  BY DEF Texts
<1>2. ASSUME NEW m \in Nat
      PROVE  Nothing(m) \in Seq(Texts) /\ Len(Nothing(m)) = m /\ \A k \in 1..m : Nothing(m)[k] = <<>>
  <2>1. Nothing(m) \in [1..m -> Texts]
    BY <1>1 DEF Nothing
  <2>. QED BY <2>1, FunctionIsSeq DEF Nothing
<1>3. 0 \in S
  BY <1>2, JoinedMore
<1>4. ASSUME NEW m \in Nat, m \in S PROVE m + 1 \in S
  <2>1. m + 1 \in Nat /\ m + 1 \in 1..(m + 1) /\ \A k \in 1..m : k \in 1..(m + 1)
    OBVIOUS
  <2>2. \A k \in 1..Len(Nothing(m)) : Nothing(m + 1)[k] = Nothing(m)[k]
    BY <1>2, <2>1
  <2>3. Joined(Nothing(m + 1)) = Joined(Nothing(m)) \o Nothing(m + 1)[m + 1]
    <3>. DEFINE fewer == Nothing(m)
                more == Nothing(m + 1)
    <3>1. /\ fewer \in Seq(Texts) /\ more \in Seq(Texts) /\ Len(more) = Len(fewer) + 1
          /\ Len(more) = m + 1 /\ \A k \in 1..Len(fewer) : more[k] = fewer[k]
      BY <1>2, <2>1, <2>2
    <3>. HIDE DEF fewer, more
    <3>2. Joined(more) = Joined(fewer) \o more[Len(more)]
      BY <3>1, JoinedMore
    <3>. QED BY <3>1, <3>2 DEF fewer, more
  <2>. QED BY <1>1, <1>2, <1>4, <2>1, <2>3
<1>5. Nat \subseteq S
  <2>. HIDE DEF S
  <2>. QED BY <1>3, <1>4, NatInduct
<1>. QED BY <1>2, <1>5

\* FlattenSeq puts texts together in the same way.
LEMMA FlattenJoins ==
  ASSUME NEW texts \in Seq(Texts)
  PROVE  FlattenSeq(texts) = Joined(texts)
<1>. DEFINE n == Len(texts)
            Obeys(f) == f = [i \in 1..n |-> IF i = 1 THEN texts[i] ELSE f[i - 1] \o texts[i]]
            flatten == CHOOSE f : Obeys(f)
<1>1. n \in Nat /\ \A k \in 1..n : texts[k] \in Texts
  OBVIOUS
<1>2. PICK text : Spells(text, texts) /\ Joined(texts) = text[n]
  BY EverySequenceSpells, EvaluateSpells DEF Joined
<1>3. /\ text[0] = <<>> /\ \A k \in 1..n : text[k] = text[k - 1] \o texts[k]
      /\ \A k \in 0..n : text[k] \in Texts
  BY <1>2, SpellsByValue, SpellsOnce
<1>4. CASE n = 0
  <2>1. texts = <<>>
    BY <1>4
  <2>. QED BY <1>4, <2>1, JoinedMore DEF FlattenSeq
<1>5. CASE n # 0
  <2>1. FlattenSeq(texts) = flatten[n]
    BY <1>5 DEF FlattenSeq
  <2>. HIDE DEF n
  <2>2. Obeys([i \in 1..n |-> text[i]])
    <3>. DEFINE f == [i \in 1..n |-> text[i]]
    <3>1. ASSUME NEW i \in 1..n
          PROVE  text[i] = IF i = 1 THEN texts[i] ELSE f[i - 1] \o texts[i]
      <4>1. CASE i = 1
        <5>1. text[1] = text[0] \o texts[1] /\ texts[1] \in Texts
          <6>1. 1 \in 1..n /\ 1 - 1 = 0
            BY <4>1
          <6>. QED BY <1>1, <1>3, <6>1
        <5>. QED BY <1>3, <4>1, <5>1, TextAlgebra
      <4>2. CASE i # 1
        <5>1. i - 1 \in 1..n
          BY <1>1, <4>2
        <5>. QED BY <1>3, <4>2, <5>1
      <4>. QED BY <4>1, <4>2
    <3>. QED BY <3>1
  <2>3. Obeys(flatten)
    <3>. HIDE DEF Obeys
    <3>. QED BY <2>2
  <2>. HIDE DEF flatten
  <2>. DEFINE S == {k \in Nat : k + 1 <= n => flatten[k + 1] = text[k + 1]}
  <2>4. \A i \in 1..n : flatten[i] = IF i = 1 THEN texts[i] ELSE flatten[i - 1] \o texts[i]
    BY <2>3
  <2>5. 0 \in S
    <3>1. 1 \in 1..n /\ 1 - 1 = 0
      BY <1>1, <1>5
    <3>2. flatten[1] = texts[1] /\ text[1] = text[0] \o texts[1] /\ texts[1] \in Texts
      BY <1>1, <1>3, <2>4, <3>1
    <3>. QED BY <1>3, <3>2, TextAlgebra
  <2>6. ASSUME NEW k \in Nat, k \in S PROVE k + 1 \in S
    <3>. SUFFICES ASSUME k + 2 <= n PROVE flatten[k + 2] = text[k + 2]
      OBVIOUS
    <3>1. k + 2 \in 1..n /\ (k + 2) - 1 = k + 1 /\ k + 1 <= n /\ k + 2 # 1
      BY <1>1
    <3>2. flatten[k + 2] = flatten[k + 1] \o texts[k + 2]
      BY <2>4, <3>1
    <3>3. text[k + 2] = text[k + 1] \o texts[k + 2]
      BY <1>3, <3>1
    <3>. QED BY <2>6, <3>1, <3>2, <3>3
  <2>7. Nat \subseteq S
    <3>. HIDE DEF S
    <3>. QED BY <2>5, <2>6, NatInduct
  <2>8. n - 1 \in Nat /\ (n - 1) + 1 = n
    BY <1>1, <1>5
  <2>9. flatten[n] = text[n]
    BY <2>7, <2>8
  <2>. QED BY <1>2, <2>1, <2>9 DEF n
<1>. QED BY <1>4, <1>5

\* A text converted in two parts.
LEMMA ConvertJoins ==
  ASSUME NEW first \in Texts, NEW second \in Texts, NEW op
  PROVE  /\ Convert(first \o second, op) = Convert(first, op) \o Convert(second, op)
         /\ Convert(first, op) \in Texts /\ Len(Convert(first, op)) = Len(first)
         /\ Convert(<<>>, op) = <<>>
<1>. DEFINE case == IF op \in {UppercaseNextChar, UppercaseBegin} THEN "upper" ELSE "lower"
            changed(c) == [c EXCEPT !.case = case]
<1>1. \A text : Convert(text, op) = [k \in DOMAIN text |-> changed(text[k])]
  BY DEF Convert
<1>. HIDE DEF changed
<1>2. \A text \in Texts : /\ text \in Seq(Characters) /\ Len(text) \in Nat
                          /\ DOMAIN text = 1..Len(text)
  BY DEF Texts, Characters
<1>3. \A text \in Texts : /\ Convert(text, op) \in Texts /\ Len(Convert(text, op)) = Len(text)
                          /\ \A k \in 1..Len(text) : Convert(text, op)[k] = changed(text[k])
  <2>. TAKE text \in Texts
  <2>1. Convert(text, op) \in Texts
    BY ConvertIsText
  <2>2. DOMAIN Convert(text, op) = 1..Len(text)
    BY <1>1, <1>2
  <2>3. Len(Convert(text, op)) = Len(text)
    BY <1>2, <2>1, <2>2
  <2>. QED BY <1>1, <1>2, <2>1, <2>3
<1>4. Convert(<<>>, op) = <<>>
  BY <1>3, TextAlgebra, <1>2
<1>5. Convert(first \o second, op) = Convert(first, op) \o Convert(second, op)
  <2>. DEFINE whole == Convert(first \o second, op)
              parts == Convert(first, op) \o Convert(second, op)
  <2>1. /\ first \o second \in Texts /\ Len(first \o second) = Len(first) + Len(second)
        /\ \A k \in 1..(Len(first) + Len(second)) :
             (first \o second)[k] = IF k <= Len(first) THEN first[k] ELSE second[k - Len(first)]
    BY <1>2, TextAlgebra, ConcatProperties
  <2>2. whole \in Seq(Characters) /\ Len(whole) = Len(first) + Len(second)
        /\ \A k \in 1..(Len(first) + Len(second)) : whole[k] = changed((first \o second)[k])
    BY <1>2, <1>3, <2>1
  <2>3. /\ parts \in Seq(Characters) /\ Len(parts) = Len(first) + Len(second)
        /\ \A k \in 1..(Len(first) + Len(second)) :
             parts[k] = IF k <= Len(first) THEN Convert(first, op)[k]
                        ELSE Convert(second, op)[k - Len(first)]
    <3>. DEFINE c1 == Convert(first, op)
                c2 == Convert(second, op)
    <3>1. /\ c1 \in Seq(Characters) /\ Len(c1) = Len(first)
          /\ c2 \in Seq(Characters) /\ Len(c2) = Len(second)
      BY <1>2, <1>3
    <3>. HIDE DEF c1, c2
    <3>2. /\ c1 \o c2 \in Seq(Characters) /\ Len(c1 \o c2) = Len(c1) + Len(c2)
          /\ \A k \in 1..(Len(c1) + Len(c2)) :
               (c1 \o c2)[k] = IF k <= Len(c1) THEN c1[k] ELSE c2[k - Len(c1)]
      BY <3>1, ConcatProperties
    <3>3. parts = c1 \o c2
      BY DEF c1, c2
    <3>. HIDE DEF parts
    <3>4. /\ parts \in Seq(Characters) /\ Len(parts) = Len(first) + Len(second)
          /\ \A k \in 1..(Len(first) + Len(second)) :
               parts[k] = IF k <= Len(first) THEN c1[k] ELSE c2[k - Len(first)]
      BY <3>1, <3>2, <3>3
    <3>. QED BY <3>4 DEF c1, c2
  <2>4. ASSUME NEW k \in 1..(Len(first) + Len(second))
        PROVE  whole[k] = parts[k]
    <3>1. Len(first) \in Nat /\ Len(second) \in Nat
      BY <1>2
    <3>2. CASE k <= Len(first)
      <4>1. k \in 1..Len(first)
        BY <3>1, <3>2
      <4>. QED BY <1>3, <2>1, <2>2, <2>3, <3>2, <4>1
    <3>3. CASE ~(k <= Len(first))
      <4>1. k - Len(first) \in 1..Len(second)
        BY <3>1, <3>3
      <4>. QED BY <1>3, <2>1, <2>2, <2>3, <3>3, <4>1
    <3>. QED BY <3>2, <3>3
  <2>. HIDE DEF whole, parts
  <2>. QED BY <2>2, <2>3, <2>4, SeqEqual DEF whole, parts
<1>. QED BY <1>3, <1>4, <1>5

\* A slice is made of two that meet.
LEMMA SliceJoins ==
  ASSUME NEW from \in {"subject", "reference"}, NEW at \in Nat, NEW m \in Nat, NEW n \in Nat
  PROVE  /\ Slice(from, MakeRange(at, m)) \in Texts
         /\ Len(Slice(from, MakeRange(at, m))) = m
         /\ Slice(from, MakeRange(at, m + n))
              = Slice(from, MakeRange(at, m)) \o Slice(from, MakeRange(at + m, n))
         /\ Slice(from, MakeRange(at, 0)) = <<>>
         /\ Slice(from, MakeRange(at, 1)) = <<Character(from, at)>>
<1>1. ASSUME NEW a \in Nat, NEW l \in Nat
      PROVE  /\ Slice(from, MakeRange(a, l)) \in Texts
             /\ Slice(from, MakeRange(a, l)) \in Seq(Characters)
             /\ Len(Slice(from, MakeRange(a, l))) = l
             /\ \A k \in 1..l : Slice(from, MakeRange(a, l))[k] = Character(from, a + k - 1)
  <2>. DEFINE s == Slice(from, MakeRange(a, l))
  <2>1. s \in Texts
    BY SliceIsText DEF MakeRange
  <2>2. s = [k \in 1..l |-> Character(from, a + k - 1)]
    BY DEF Slice, MakeRange
  <2>3. DOMAIN s = 1..l /\ \A k \in 1..l : s[k] = Character(from, a + k - 1)
    BY <2>2
  <2>. HIDE DEF s
  <2>4. s \in Seq(Characters) /\ Len(s) = l
    BY <2>1, <2>3 DEF Texts, Characters
  <2>. QED BY <2>1, <2>3, <2>4 DEF s
<1>2. Slice(from, MakeRange(at, m + n))
        = Slice(from, MakeRange(at, m)) \o Slice(from, MakeRange(at + m, n))
  <2>. DEFINE whole == Slice(from, MakeRange(at, m + n))
              first == Slice(from, MakeRange(at, m))
              second == Slice(from, MakeRange(at + m, n))
  <2>1. /\ whole \in Seq(Characters) /\ Len(whole) = m + n
        /\ \A k \in 1..(m + n) : whole[k] = Character(from, at + k - 1)
    BY <1>1
  <2>2. /\ first \in Seq(Characters) /\ Len(first) = m
        /\ \A k \in 1..m : first[k] = Character(from, at + k - 1)
        /\ second \in Seq(Characters) /\ Len(second) = n
        /\ \A k \in 1..n : second[k] = Character(from, at + m + k - 1)
    <3>1. at + m \in Nat
      OBVIOUS
    <3>. QED BY <1>1, <3>1
  <2>. HIDE DEF whole, first, second
  <2>3. /\ first \o second \in Seq(Characters) /\ Len(first \o second) = m + n
        /\ \A k \in 1..(m + n) : (first \o second)[k] = IF k <= m THEN first[k] ELSE second[k - m]
    BY <2>2, ConcatProperties
  <2>4. ASSUME NEW k \in 1..(m + n)
        PROVE  whole[k] = (first \o second)[k]
    <3>1. CASE k <= m
      BY <2>1, <2>2, <2>3, <3>1
    <3>2. CASE ~(k <= m)
      <4>1. k - m \in 1..n /\ at + m + (k - m) - 1 = at + k - 1
        BY <3>2
      <4>. QED BY <2>1, <2>2, <2>3, <3>2, <4>1
    <3>. QED BY <3>1, <3>2
  <2>. QED BY <2>1, <2>3, <2>4, SeqEqual DEF whole, first, second
<1>3. Slice(from, MakeRange(at, 0)) = <<>>
  BY <1>1
<1>4. Slice(from, MakeRange(at, 1)) = <<Character(from, at)>>
  <2>1. /\ Slice(from, MakeRange(at, 1)) \in Seq(Characters)
        /\ Len(Slice(from, MakeRange(at, 1))) = 1
        /\ Slice(from, MakeRange(at, 1))[1] = Character(from, at + 1 - 1) /\ at + 1 - 1 = at
    <3>1. 1 \in Nat /\ 1 \in 1..1 /\ at + 1 - 1 = at
      OBVIOUS
    <3>2. /\ Slice(from, MakeRange(at, 1)) \in Seq(Characters)
          /\ Len(Slice(from, MakeRange(at, 1))) = 1
          /\ \A k \in 1..1 : Slice(from, MakeRange(at, 1))[k] = Character(from, at + k - 1)
      BY <1>1, <3>1
    <3>. QED BY <3>1, <3>2
  <2>. QED BY <2>1
<1>. QED BY <1>1, <1>2, <1>3, <1>4

\* What a buffer holds of all the text appended to it: the end, and all of it
\* while it is on the stack.
Keeps(buffer, all) ==
  /\ all \in Texts
  /\ buffer.copiedLength = Len(all)
  /\ \E lost \in Texts : all = lost \o Joined(buffer.instructions)
  /\ OnStack(buffer) => Joined(buffer.instructions) = all

\* A text appended is appended to what the buffer holds (NSString.m:1116-1148).
LEMMA AppendCopyKeeps ==
  ASSUME NEW buffer \in CopyBuffers, Copied(buffer), NEW all, Keeps(buffer, all), NEW text \in Texts
  PROVE  Keeps(AppendCopyInstruction(buffer, text), all \o text)
<1>1. /\ buffer.instructions \in Seq(Texts) /\ buffer.capacity \in Nat
      /\ buffer.copiedLength \in Nat /\ all \in Texts /\ buffer.copiedLength = Len(all)
      /\ all \o text \in Texts /\ Len(all \o text) = Len(all) + Len(text)
      /\ buffer.capacity >= StackInstructions /\ StackInstructions \in Nat \ {0}
  BY TextAlgebra, StackAssumption DEF CopyBuffers, Keeps, Copied, Fits
<1>2. ASSUME NEW after, after.copiedLength = Len(all) + Len(text),
             NEW before \in Texts, Joined(after.instructions) = before \o text,
             \E lost \in Texts : all = lost \o before,
             OnStack(after) => before = all
      PROVE  Keeps(after, all \o text)
  <2>1. PICK lost \in Texts : all = lost \o before
    BY <1>2
  <2>2. all \o text = lost \o Joined(after.instructions)
    BY <1>2, <2>1, TextAlgebra
  <2>. QED BY <1>1, <1>2, <2>1, <2>2 DEF Keeps
<1>3. CASE text = <<>>
  <2>1. AppendCopyInstruction(buffer, text) = buffer /\ all \o text = all
    BY <1>1, <1>3, TextAlgebra DEF AppendCopyInstruction
  <2>. QED BY <2>1
<1>4. CASE text # <<>> /\ Continues(buffer.instructions, text)
  <2>. DEFINE merged == [buffer.instructions EXCEPT ![Len(buffer.instructions)] = @ \o text]
              after == [buffer EXCEPT !.instructions = merged, !.copiedLength = @ + Len(text)]
              before == Joined(buffer.instructions)
  <2>1. AppendCopyInstruction(buffer, text) = after
    BY <1>4 DEF AppendCopyInstruction
  <2>2. Len(buffer.instructions) # 0
    BY <1>1, <1>4 DEF Continues
  <2>3. Joined(merged) = before \o text /\ before \in Texts
    BY <1>1, <2>2, JoinedMerge, JoinedMore
  <2>. HIDE DEF merged
  <2>4. /\ after.instructions = merged /\ after.capacity = buffer.capacity
        /\ after.copiedLength = buffer.copiedLength + Len(text)
    BY DEF CopyBuffers
  <2>5. /\ \E lost \in Texts : all = lost \o before
        /\ OnStack(after) => before = all
    BY <2>4 DEF Keeps, OnStack
  <2>. HIDE DEF after, before
  <2>. QED BY <1>1, <1>2, <2>1, <2>3, <2>4, <2>5
<1>5. CASE text # <<>> /\ ~Continues(buffer.instructions, text)
  <2>. DEFINE grown == Grow(buffer, <<>>)
              after == [grown EXCEPT !.instructions = Append(@, text),
                                     !.copiedLength = @ + Len(text)]
              before == Joined(grown.instructions)
  <2>1. AppendCopyInstruction(buffer, text) = after
    BY <1>5 DEF AppendCopyInstruction
  <2>2. /\ grown \in CopyBuffers /\ grown.instructions \in Seq(Texts)
        /\ grown.copiedLength = buffer.copiedLength
        /\ \E lost \in Texts : all = lost \o before
        /\ OnStack(grown) => before = all
    <3>1. CASE Len(buffer.instructions) < buffer.capacity
      <4>1. grown = buffer
        BY <3>1 DEF Grow
      <4>. QED BY <1>1, <4>1 DEF Keeps
    <3>2. CASE ~(Len(buffer.instructions) < buffer.capacity)
      <4>. DEFINE zeros == [k \in DOMAIN buffer.instructions |-> <<>>]
                  kept == IF OnStack(buffer) THEN zeros ELSE buffer.instructions
      <4>1. grown = [buffer EXCEPT !.instructions = kept, !.capacity = @ + StackInstructions]
        BY <3>2 DEF Grow
      <4>2. zeros = Nothing(Len(buffer.instructions)) /\ Len(buffer.instructions) \in Nat
        BY <1>1 DEF Nothing
      <4>3. zeros \in Seq(Texts) /\ Joined(zeros) = <<>>
        BY <4>2, JoinedNothing
      <4>4. kept \in Seq(Texts) /\ \E lost \in Texts : all = lost \o Joined(kept)
        <5>1. CASE OnStack(buffer)
          <6>1. kept = zeros /\ all = all \o <<>>
            BY <1>1, <5>1, TextAlgebra
          <6>. QED BY <1>1, <4>3, <6>1
        <5>2. CASE ~OnStack(buffer)
          BY <1>1, <5>2 DEF Keeps
        <5>. QED BY <5>1, <5>2
      <4>. HIDE DEF kept, zeros
      <4>5. /\ grown.instructions = kept /\ grown.capacity = buffer.capacity + StackInstructions
            /\ grown.copiedLength = buffer.copiedLength
        BY <4>1 DEF CopyBuffers
      <4>6. grown \in CopyBuffers
        <5>1. buffer.capacity + StackInstructions \in Nat
          BY <1>1
        <5>. QED BY <4>1, <4>4, <5>1 DEF CopyBuffers
      <4>7. ~OnStack(grown)
        BY <1>1, <4>5 DEF OnStack
      <4>. HIDE DEF grown
      <4>. QED BY <4>4, <4>5, <4>6, <4>7
    <3>. QED BY <3>1, <3>2
  <2>. HIDE DEF grown
  <2>3. /\ after.instructions = Append(grown.instructions, text)
        /\ after.capacity = grown.capacity
        /\ after.copiedLength = grown.copiedLength + Len(text)
    BY <2>2 DEF CopyBuffers
  <2>4. Joined(after.instructions) = before \o text /\ before \in Texts
    BY <2>2, <2>3, JoinedAppend, JoinedMore
  <2>5. OnStack(after) => before = all
    BY <2>2, <2>3 DEF OnStack
  <2>. HIDE DEF after, before
  <2>. QED BY <1>1, <1>2, <2>1, <2>2, <2>3, <2>4, <2>5 DEF before
<1>. QED BY <1>3, <1>4, <1>5

-------------------------------------------------------------------------------
(* What a match is replaced by, token by token.                            *)

\* The dollars of the first n tokens, a token that stands for itself, and the
\* second of two dollars, which stands for nothing.
Dollars(n) == {j \in 1..n : Op(j) = Dollar}
Plain(k) == Op(k) = Text \/ (Op(k) = Dollar /\ Cardinality(Dollars(k - 1)) % 2 = 0)
Silent(k) == Op(k) = Dollar /\ Cardinality(Dollars(k - 1)) % 2 # 0

\* The references are to captures the regex has.
CapturesKnown == \A k \in Tokens : Op(k) = CopyCaptureIndex => call.reference[k].capture \in Captures

\* What PCRE may have answered.
Answers == [Captures -> RangesIn(0, call.length) \cup {NotFound}]

\* What token k is replaced by, and the first n.
Said(k, ranges) == Cased(PieceOf(k, ranges), Covering(k, ranges))
Shown(n, ranges) == Joined([k \in 1..n |-> Said(k, ranges)])

\* The conversions that may be in force for a token.
Conversions == NextCharOps \cup BeginOps \cup {NoOp}

\* The operations are different ones.
LEMMA OpsDiffer ==
  /\ Text \notin CaseOps /\ Dollar \notin CaseOps /\ CopyCaptureIndex \notin CaseOps
  /\ CopyRange \notin CaseOps /\ Stop \notin CaseOps /\ NoOp \notin CaseOps
  /\ Text # Dollar /\ Text # CopyCaptureIndex /\ Dollar # CopyCaptureIndex
  /\ CopyRange # CopyCaptureIndex /\ Stop # CopyRange /\ Stop # CopyCaptureIndex
  /\ NextCharOps \cap BeginOps = {} /\ ChangeCaseEnd \notin NextCharOps \cup BeginOps
  /\ ChangeCaseEnd # NoOp /\ ChangeCaseEnd \in CaseOps
  /\ CaseOps = NextCharOps \cup BeginOps \cup {ChangeCaseEnd}
BY DEF Text, Dollar, CopyCaptureIndex, CopyRange, Stop, NoOp, CaseOps, NextCharOps,
     BeginOps,
       ChangeCaseEnd, UppercaseNextChar, LowercaseNextChar, UppercaseBegin, LowercaseBegin

\* A set of numbers has a largest one.
LEMMA LargestNat ==
  ASSUME NEW n \in Nat, NEW S \in SUBSET (1..n)
  PROVE  /\ S # {} => Max(S) \in S /\ \A y \in S : Max(S) >= y
         /\ \A x \in S : (\A y \in S : x >= y) => Max(S) = x
<1>1. ASSUME S # {} PROVE \E x \in S : \A y \in S : x >= y
  <2>. DEFINE T == {n - x : x \in S}
  <2>1. \A x \in S : n - x \in Nat
    OBVIOUS
  <2>1a. T \subseteq Nat /\ T # {}
    BY <1>1, <2>1
  <2>2. PICK d \in T : \A e \in T : ~(<<e, d>> \in OpToRel(<, Nat))
    BY <2>1a, NatLessThanWellFounded, WFMin
  <2>3. \A e \in T : ~(e < d)
    BY <2>1a, <2>2 DEF OpToRel
  <2>4. PICK x \in S : d = n - x
    OBVIOUS
  <2>5. ASSUME NEW y \in S PROVE x >= y
    <3>1. n - y \in T
      OBVIOUS
    <3>. QED BY <2>3, <2>4, <3>1
  <2>. QED BY <2>5
<1>2. ASSUME NEW x \in S, \A y \in S : x >= y PROVE Max(S) = x
  <2>. DEFINE m == Max(S)
  <2>1. m \in S /\ \A y \in S : m >= y
    BY <1>2 DEF Max
  <2>. HIDE DEF m
  <2>2. m >= x /\ x >= m
    BY <1>2, <2>1
  <2>3. S \subseteq 1..n
    OBVIOUS
  <2>4. m \in Int /\ x \in Int
    BY <2>1, <2>3
  <2>5. m = x
    BY <2>2, <2>4
  <2>. QED BY <2>5 DEF m
<1>. QED BY <1>1, <1>2 DEF Max

\* What tokens stand for (NSString.m:1012-1074).
LEMMA Pieces ==
  ASSUME call \in Calls, CapturesKnown, NEW ranges \in Answers, NEW k \in Tokens
  PROVE  /\ k \in 1..Len(call.reference) /\ Op(k) \in CaseOps \cup {CopyCaptureIndex, Dollar, Text}
         /\ PieceOf(k, ranges) \in Texts
         /\ Plain(k) => /\ PieceOf(k, ranges) = <<Character("reference", k - 1)>>
                        /\ Op(k) \notin CaseOps \cup {CopyCaptureIndex}
         /\ Silent(k) => PieceOf(k, ranges) = <<>> /\ Op(k) \notin CaseOps \cup {CopyCaptureIndex}
         /\ Op(k) \in CaseOps => PieceOf(k, ranges) = <<>>
         /\ Op(k) = CopyCaptureIndex =>
              PieceOf(k, ranges) = Slice("subject", ranges[call.reference[k].capture])
<1>1. /\ k \in 1..Len(call.reference) /\ call.reference[k] \in Token
      /\ Op(k) \in CaseOps \cup {CopyCaptureIndex, Dollar, Text}
  <2>1. k \in 1..Len(call.reference) /\ call.reference[k] \in Token
    BY CallTyped DEF Tokens
  <2>. QED BY <2>1 DEF Op, Token
<1>2. {j \in 1..(k - 1) : Op(j) = Dollar} = Dollars(k - 1)
  BY DEF Dollars
<1>3. <<Character("reference", k - 1)>> \in Texts
  <2>1. k - 1 \in Int
    BY <1>1
  <2>2. Character("reference", k - 1) \in Characters
    BY <2>1 DEF Character, Characters
  <2>. QED BY <2>2 DEF Texts, Characters
<1>4. Op(k) = CopyCaptureIndex => Slice("subject", ranges[call.reference[k].capture]) \in Texts
  <2>. SUFFICES ASSUME Op(k) = CopyCaptureIndex
                PROVE  Slice("subject", ranges[call.reference[k].capture]) \in Texts
    OBVIOUS
  <2>. DEFINE range == ranges[call.reference[k].capture]
  <2>1. range \in RangesIn(0, call.length) \cup {NotFound}
    BY DEF CapturesKnown, Answers
  <2>2. range.location \in Int /\ range.length \in Nat
    <3>1. CASE range = NotFound  BY <3>1 DEF NotFound, MakeRange
    <3>2. CASE range \in RangesIn(0, call.length)
      BY <3>2, CallTyped DEF RangesIn
    <3>. QED BY <2>1, <3>1, <3>2
  <2>. HIDE DEF range
  <2>3. Slice("subject", range) \in Texts
    BY <2>2, SliceIsText
  <2>. QED BY <2>3 DEF range
<1>. DEFINE first == Cardinality(Dollars(k - 1)) % 2 = 0
            piece == PieceOf(k, ranges)
<1>5. /\ Op(k) = Text => piece = <<Character("reference", k - 1)>>
      /\ Op(k) = Dollar /\ first => piece = <<Character("reference", k - 1)>>
      /\ Op(k) = Dollar /\ ~first => piece = <<>>
      /\ Op(k) = CopyCaptureIndex => piece = Slice("subject", ranges[call.reference[k].capture])
      /\ Op(k) \in CaseOps => piece = <<>>
  <2>. HIDE DEF first
  <2>1. piece = CASE Op(k) = Text -> <<Character("reference", k - 1)>>
                  [] Op(k) = Dollar /\ first -> <<Character("reference", k - 1)>>
                  [] Op(k) = CopyCaptureIndex -> Slice("subject", ranges[call.reference[k].capture])
                  [] OTHER -> <<>>
    BY <1>2 DEF PieceOf, first
  <2>. HIDE DEF piece
  <2>. QED BY <2>1, OpsDiffer
<1>. QED BY <1>1, <1>3, <1>4, <1>5, OpsDiffer, TextAlgebra DEF Plain, Silent

\* What a conversion makes of a text (NSString.m:946-975).
LEMMA CasedTexts ==
  ASSUME NEW text \in Texts, NEW op \in Conversions
  PROVE  /\ Cased(text, op) \in Texts
         /\ Cased(<<>>, op) = <<>>
         /\ op = NoOp => Cased(text, op) = text
         /\ op \in BeginOps => Cased(text, op) = Convert(text, op)
         /\ op \in NextCharOps /\ text # <<>> =>
              Cased(text, op) = Convert(<<Head(text)>>, op) \o Tail(text)
<1>1. /\ op = NoOp => \A t : Cased(t, op) = t
      /\ op \in BeginOps => \A t : Cased(t, op) = Convert(t, op)
      /\ op \in NextCharOps => \A t : Cased(t, op) =
           [i \in DOMAIN t |-> IF i = 1 THEN Convert(t, op)[1] ELSE t[i]]
  BY OpsDiffer DEF Cased, Conversions
<1>2. text \in Seq(Characters) /\ DOMAIN text = 1..Len(text) /\ Len(text) \in Nat
  BY DEF Texts, Characters
<1>3. ASSUME op \in NextCharOps PROVE Cased(<<>>, op) = <<>>
  BY <1>1, <1>3
<1>4. ASSUME op \in NextCharOps, text # <<>>
      PROVE  Cased(text, op) = Convert(<<Head(text)>>, op) \o Tail(text)
  <2>. DEFINE first == Convert(<<Head(text)>>, op)
              parts == first \o Tail(text)
  <2>1. /\ <<Head(text)>> \in Texts /\ Tail(text) \in Texts /\ Head(text) = text[1]
        /\ Len(Tail(text)) = Len(text) - 1 /\ Len(text) >= 1
        /\ \A i \in 1..(Len(text) - 1) : Tail(text)[i] = text[i + 1]
    BY <1>2, <1>4, PartsAreTexts
  <2>2. first \in Seq(Characters) /\ Len(first) = 1 /\ first[1] = Convert(text, op)[1]
    <3>1. first \in Texts /\ Len(first) = 1
      BY <2>1, ConvertJoins
    <3>2. 1 \in DOMAIN text /\ 1 \in DOMAIN <<Head(text)>> /\ <<Head(text)>>[1] = text[1]
      BY <1>2, <2>1
    <3>3. first[1] = Convert(text, op)[1]
      BY <3>2 DEF Convert
    <3>. QED BY <3>1, <3>3 DEF Texts, Characters
  <2>3. Tail(text) \in Seq(Characters)
    BY <2>1 DEF Texts, Characters
  <2>. HIDE DEF first
  <2>4. /\ parts \in Seq(Characters) /\ Len(parts) = Len(text)
        /\ \A i \in 1..Len(text) : parts[i] = IF i <= 1 THEN first[i] ELSE Tail(text)[i - 1]
    <3>. DEFINE rest == Tail(text)
    <3>1. rest \in Seq(Characters) /\ Len(first) + Len(rest) = Len(text) /\ Len(first) = 1
      BY <1>2, <2>1, <2>2, <2>3
    <3>. HIDE DEF rest
    <3>2. /\ first \o rest \in Seq(Characters) /\ Len(first \o rest) = Len(first) + Len(rest)
          /\ \A i \in 1..(Len(first) + Len(rest)) :
               (first \o rest)[i] = IF i <= Len(first) THEN first[i] ELSE rest[i - Len(first)]
      BY <2>2, <3>1, ConcatProperties
    <3>3. /\ first \o rest \in Seq(Characters) /\ Len(first \o rest) = Len(text)
          /\ \A i \in 1..Len(text) : (first \o rest)[i] = IF i <= 1 THEN first[i] ELSE rest[i - 1]
      BY <3>1, <3>2
    <3>. QED BY <3>3 DEF rest
  <2>5. \A i \in 1..Len(text) : parts[i] = IF i = 1 THEN Convert(text, op)[1] ELSE text[i]
    <3>. SUFFICES ASSUME NEW i \in 1..Len(text)
                  PROVE  parts[i] = IF i = 1 THEN Convert(text, op)[1] ELSE text[i]
      OBVIOUS
    <3>1. CASE i = 1
      BY <1>2, <2>2, <2>4, <3>1
    <3>2. CASE i # 1
      <4>1. i - 1 \in 1..(Len(text) - 1) /\ (i - 1) + 1 = i /\ ~(i <= 1)
        BY <1>2, <3>2
      <4>2. Tail(text)[i - 1] = text[i]
        BY <2>1, <4>1
      <4>. QED BY <2>4, <3>2, <4>1, <4>2
    <3>. QED BY <3>1, <3>2
  <2>. HIDE DEF parts
  <2>6. parts = [i \in 1..Len(text) |-> parts[i]]
    BY <2>4
  <2>7. parts = [i \in DOMAIN text |-> IF i = 1 THEN Convert(text, op)[1] ELSE text[i]]
    BY <1>2, <2>5, <2>6
  <2>. QED BY <1>1, <1>4, <2>7 DEF parts, first
<1>5. ASSUME op \in NextCharOps PROVE Cased(text, op) \in Texts
  <2>1. CASE text = <<>>
    <3>1. Cased(text, op) = <<>>
      BY <1>3, <1>5, <2>1
    <3>. QED BY <3>1, TextAlgebra
  <2>2. CASE text # <<>>
    <3>1. <<Head(text)>> \in Texts /\ Tail(text) \in Texts
      BY <2>2, PartsAreTexts
    <3>2. Convert(<<Head(text)>>, op) \in Texts
      BY <3>1, ConvertIsText
    <3>3. Convert(<<Head(text)>>, op) \o Tail(text) \in Texts
      BY <3>1, <3>2, TextAlgebra
    <3>. QED BY <1>4, <1>5, <2>2, <3>3
  <2>. QED BY <2>1, <2>2
<1>6. Convert(text, op) \in Texts /\ Convert(<<>>, op) = <<>>
  BY ConvertJoins
<1>. QED BY <1>1, <1>3, <1>4, <1>5, <1>6 DEF Conversions

\* The conversion that covers the token behind token k follows from the one that
\* covers token k, as currentOp changes when an instruction has been applied.
LEMMA CoveringNext ==
  ASSUME call \in Calls, NEW ranges, NEW k \in Tokens
  PROVE  /\ Covering(1, ranges) = NoOp
         /\ Covering(k, ranges) \in Conversions
         /\ Op(k) = ChangeCaseEnd => Covering(k + 1, ranges) = NoOp
         /\ Op(k) \in NextCharOps \cup BeginOps => Covering(k + 1, ranges) = Op(k)
         /\ Op(k) \notin CaseOps =>
              Covering(k + 1, ranges)
                = IF Covering(k, ranges) \in NextCharOps /\ PieceOf(k, ranges) # <<>> THEN NoOp
                  ELSE Covering(k, ranges)
<1>1. k \in Nat \ {0}
  BY CallTyped DEF Tokens
<1>. DEFINE Used(j, m) == \E i \in (j + 1)..(m - 1) : PieceOf(i, ranges) # <<>>
<1>2. ASSUME NEW m, NEW j, j = LastCaseOp(m)
      PROVE  /\ j = 0 => Covering(m, ranges) = NoOp
             /\ j # 0 /\ Op(j) = ChangeCaseEnd => Covering(m, ranges) = NoOp
             /\ j # 0 /\ Op(j) \in NextCharOps =>
                  Covering(m, ranges) = IF Used(j, m) THEN NoOp ELSE Op(j)
             /\ j # 0 /\ Op(j) \in BeginOps => Covering(m, ranges) = Op(j)
  BY <1>2, OpsDiffer DEF Covering
<1>. HIDE DEF Used
<1>3. Covering(1, ranges) = NoOp
  <2>1. CaseOpsBefore(1) = {}
    BY DEF CaseOpsBefore
  <2>. QED BY <1>2, <2>1 DEF LastCaseOp
<1>4. ASSUME NEW m \in Nat \ {0}, CaseOpsBefore(m) # {}
      PROVE  LastCaseOp(m) \in 1..(m - 1) /\ Op(LastCaseOp(m)) \in CaseOps
  <2>1. CaseOpsBefore(m) \in SUBSET (1..(m - 1)) /\ m - 1 \in Nat
    BY DEF CaseOpsBefore
  <2>2. LastCaseOp(m) \in CaseOpsBefore(m)
    BY <1>4, <2>1, LargestNat DEF LastCaseOp
  <2>. QED BY <2>2 DEF CaseOpsBefore
<1>5. Covering(k, ranges) \in Conversions
  <2>1. CASE CaseOpsBefore(k) = {}
    BY <1>2, <2>1 DEF LastCaseOp, Conversions
  <2>2. CASE CaseOpsBefore(k) # {}
    <3>1. LastCaseOp(k) # 0 /\ Op(LastCaseOp(k)) \in CaseOps
      BY <1>1, <1>4, <2>2
    <3>. QED BY <1>2, <3>1, OpsDiffer DEF Conversions
  <2>. QED BY <2>1, <2>2
<1>6. ASSUME Op(k) \in CaseOps PROVE LastCaseOp(k + 1) = k /\ ~Used(k, k + 1)
  <2>0. (k + 1) - 1 = k /\ k \in 1..k
    BY <1>1
  <2>1. CaseOpsBefore(k + 1) \in SUBSET (1..k) /\ k \in CaseOpsBefore(k + 1)
    BY <1>6, <2>0 DEF CaseOpsBefore
  <2>2. Max(CaseOpsBefore(k + 1)) = k
    <3>. DEFINE S == CaseOpsBefore(k + 1)
    <3>1. k \in Nat /\ S \in SUBSET (1..k) /\ k \in S
      BY <1>1, <2>1
    <3>. HIDE DEF S
    <3>2. \A y \in S : k >= y
      BY <3>1
    <3>3. Max(S) = k
      BY <3>1, <3>2, LargestNat
    <3>. QED BY <3>3 DEF S
  <2>. QED BY <1>1, <2>1, <2>2 DEF LastCaseOp, Used
<1>7. ASSUME Op(k) \notin CaseOps
      PROVE  Covering(k + 1, ranges)
               = IF Covering(k, ranges) \in NextCharOps /\ PieceOf(k, ranges) # <<>> THEN NoOp
                 ELSE Covering(k, ranges)
  <2>1. CaseOpsBefore(k + 1) = CaseOpsBefore(k)
    BY <1>1, <1>7 DEF CaseOpsBefore
  <2>2. LastCaseOp(k + 1) = LastCaseOp(k)
    BY <2>1 DEF LastCaseOp
  <2>3. CASE CaseOpsBefore(k) = {}
    <3>1. LastCaseOp(k) = 0
      BY <2>3 DEF LastCaseOp
    <3>. QED BY <1>2, <2>2, <3>1, OpsDiffer
  <2>4. CASE CaseOpsBefore(k) # {}
    <3>. DEFINE j == LastCaseOp(k)
    <3>1. j \in 1..(k - 1) /\ Op(j) \in CaseOps /\ j # 0
      BY <1>1, <1>4, <2>4
    <3>. HIDE DEF j
    <3>2. CASE Op(j) \in NextCharOps
      <4>1. (j + 1)..((k + 1) - 1) = ((j + 1)..(k - 1)) \cup {k}
        BY <1>1, <3>1
      <4>2. Used(j, k + 1) <=> Used(j, k) \/ PieceOf(k, ranges) # <<>>
        BY <4>1 DEF Used
      <4>. QED BY <1>2, <2>2, <3>1, <3>2, <4>2, OpsDiffer DEF j
    <3>3. CASE Op(j) \notin NextCharOps
      <4>1. Covering(k, ranges) \notin NextCharOps /\ Covering(k + 1, ranges) = Covering(k, ranges)
        BY <1>2, <2>2, <3>1, <3>3, OpsDiffer DEF j
      <4>. QED BY <4>1
    <3>. QED BY <3>2, <3>3
  <2>. QED BY <2>3, <2>4
<1>. QED BY <1>1, <1>2, <1>3, <1>5, <1>6, <1>7, OpsDiffer

\* The first character of two texts after each other, and the rest.
LEMMA HeadTailJoin ==
  ASSUME NEW first \in Texts, first # <<>>, NEW second \in Texts
  PROVE  /\ first \o second # <<>> /\ Head(first \o second) = Head(first)
         /\ Tail(first \o second) = Tail(first) \o second
<1>1. /\ first \in Seq(Characters) /\ second \in Seq(Characters)
      /\ Len(first) \in Nat \ {0} /\ Len(second) \in Nat
      /\ Tail(first) \in Texts
  BY PartsAreTexts DEF Texts, Characters
<1>. DEFINE whole == first \o second
            rest == Tail(first)
            end == Tail(whole)
            parts == rest \o second
<1>2. /\ whole \in Seq(Characters) /\ Len(whole) = Len(first) + Len(second)
      /\ \A k \in 1..(Len(first) + Len(second)) :
           whole[k] = IF k <= Len(first) THEN first[k] ELSE second[k - Len(first)]
  BY <1>1, ConcatProperties
<1>3. /\ rest \in Seq(Characters) /\ Len(rest) = Len(first) - 1
      /\ \A k \in 1..(Len(first) - 1) : rest[k] = first[k + 1]
  BY <1>1
<1>. HIDE DEF whole, rest
<1>4. whole # <<>> /\ Head(whole) = Head(first)
  <2>1. Len(whole) # 0
    BY <1>1, <1>2
  <2>2. 1 \in 1..(Len(first) + Len(second)) /\ 1 <= Len(first)
    BY <1>1
  <2>3. whole[1] = first[1]
    BY <1>2, <2>2
  <2>. QED BY <2>1, <2>3
<1>5. /\ end \in Seq(Characters) /\ Len(end) = Len(first) + Len(second) - 1
      /\ \A k \in 1..(Len(first) + Len(second) - 1) : end[k] = whole[k + 1]
  BY <1>1, <1>2, <1>4
<1>6. /\ parts \in Seq(Characters) /\ Len(parts) = Len(rest) + Len(second)
      /\ \A k \in 1..(Len(rest) + Len(second)) :
           parts[k] = IF k <= Len(rest) THEN rest[k] ELSE second[k - Len(rest)]
  BY <1>1, <1>3, ConcatProperties
<1>. HIDE DEF end, parts
<1>7. ASSUME NEW k \in 1..(Len(first) + Len(second) - 1)
      PROVE  end[k] = parts[k]
  <2>1. k + 1 \in 1..(Len(first) + Len(second)) /\ k \in 1..(Len(rest) + Len(second))
    BY <1>1, <1>3
  <2>2. CASE k <= Len(rest)
    <3>1. k + 1 <= Len(first) /\ k \in 1..(Len(first) - 1)
      BY <1>1, <1>3, <2>2
    <3>. QED BY <1>2, <1>3, <1>5, <1>6, <2>1, <2>2, <3>1
  <2>3. CASE ~(k <= Len(rest))
    <3>1. ~(k + 1 <= Len(first)) /\ (k + 1) - Len(first) = k - Len(rest)
      BY <1>1, <1>3, <2>3
    <3>. QED BY <1>2, <1>5, <1>6, <2>1, <2>3, <3>1
  <2>. QED BY <2>2, <2>3
<1>8. end = parts
  <2>1. Len(end) = Len(parts) /\ \A k \in 1..Len(end) : end[k] = parts[k]
    BY <1>1, <1>3, <1>5, <1>6, <1>7
  <2>. QED BY <1>5, <1>6, <2>1, SeqEqual
<1>. QED BY <1>4, <1>8 DEF whole, rest, end, parts

\* A conversion of two texts: \u and \l are used up by the first.
LEMMA CasedJoins ==
  ASSUME NEW first \in Texts, NEW second \in Texts, NEW op \in Conversions
  PROVE  Cased(first \o second, op)
           = Cased(first, op)
               \o Cased(second, IF first # <<>> /\ op \in NextCharOps THEN NoOp ELSE op)
<1>. DEFINE then == IF first # <<>> /\ op \in NextCharOps THEN NoOp ELSE op
<1>1. first \o second \in Texts /\ then \in Conversions
  BY TextAlgebra DEF Conversions
<1>2. CASE op = NoOp
  <2>1. then = NoOp
    BY <1>2
  <2>. HIDE DEF then
  <2>2. /\ Cased(first \o second, op) = first \o second /\ Cased(first, op) = first
        /\ Cased(second, then) = second
    BY <1>1, <1>2, <2>1, CasedTexts
  <2>. QED BY <2>2 DEF then
<1>3. CASE op \in BeginOps
  <2>1. then = op
    BY <1>3, OpsDiffer
  <2>. HIDE DEF then
  <2>2. /\ Cased(first \o second, op) = Convert(first \o second, op)
        /\ Cased(first, op) = Convert(first, op) /\ Cased(second, then) = Convert(second, op)
    BY <1>1, <1>3, <2>1, CasedTexts
  <2>3. Convert(first \o second, op) = Convert(first, op) \o Convert(second, op)
    BY ConvertJoins
  <2>4. Cased(first \o second, op) = Cased(first, op) \o Cased(second, then)
    BY <2>2, <2>3
  <2>. QED BY <2>4 DEF then
<1>4. CASE op \in NextCharOps /\ first = <<>>
  <2>1. then = op /\ Cased(first, op) = <<>>
    BY <1>4, CasedTexts
  <2>2. first \o second = second /\ Cased(second, op) \in Texts
    BY <1>4, TextAlgebra, CasedTexts
  <2>. DEFINE c == Cased(second, op)
  <2>3. <<>> \o c = c
    BY <2>2, TextAlgebra
  <2>. HIDE DEF then
  <2>4. Cased(first \o second, op) = c /\ Cased(first, op) \o Cased(second, then) = <<>> \o c
    BY <2>1, <2>2
  <2>. QED BY <2>3, <2>4 DEF then
<1>5. CASE op \in NextCharOps /\ first # <<>>
  <2>1. then = NoOp
    BY <1>5
  <2>. HIDE DEF then
  <2>. DEFINE c == Convert(<<Head(first)>>, op)
              rest == Tail(first)
  <2>2. Cased(first, op) = c \o rest /\ Cased(second, then) = second
    BY <1>1, <1>5, <2>1, CasedTexts
  <2>3. /\ first \o second # <<>> /\ Head(first \o second) = Head(first)
        /\ Tail(first \o second) = rest \o second
    BY <1>5, HeadTailJoin
  <2>4. Cased(first \o second, op) = c \o (rest \o second)
    BY <1>1, <1>5, <2>3, CasedTexts
  <2>5. c \in Texts /\ rest \in Texts
    BY <1>5, PartsAreTexts, ConvertIsText
  <2>. HIDE DEF c, rest
  <2>6. (c \o rest) \o second = c \o (rest \o second)
    BY <2>5, TextAlgebra
  <2>. QED BY <2>2, <2>4, <2>6 DEF then
<1>. QED BY <1>2, <1>3, <1>4, <1>5 DEF Conversions

\* The text that takes the place of a match grows token by token, and is all of
\* it after the last one.
LEMMA ShownMore ==
  ASSUME call \in Calls, CapturesKnown, NEW ranges \in Answers
  PROVE  /\ Shown(0, ranges) = <<>>
         /\ \A n \in 0..Len(call.reference) : Shown(n, ranges) \in Texts
         /\ \A n \in Tokens : Said(n, ranges) \in Texts
         /\ \A n \in 0..(Len(call.reference) - 1) :
              Shown(n + 1, ranges) = Shown(n, ranges) \o Said(n + 1, ranges)
         /\ Expansion(ranges) = Shown(Len(call.reference), ranges)
<1>. DEFINE N == Len(call.reference)
            said(n) == [k \in 1..n |-> Said(k, ranges)]
<1>1. N \in Nat /\ Tokens = 1..N
  BY CallTyped DEF Tokens
<1>2. ASSUME NEW n \in Tokens PROVE Said(n, ranges) \in Texts
  <2>1. PieceOf(n, ranges) \in Texts
    BY Pieces
  <2>2. Covering(n, ranges) \in Conversions
    BY CoveringNext
  <2>. QED BY <2>1, <2>2, CasedTexts DEF Said
<1>. HIDE DEF N
<1>3. ASSUME NEW n \in 0..N
      PROVE  /\ said(n) \in Seq(Texts) /\ Len(said(n)) = n
             /\ \A k \in 1..n : said(n)[k] = Said(k, ranges)
  <2>1. said(n) \in [1..n -> Texts] /\ n \in Nat
    BY <1>1, <1>2
  <2>. QED BY <2>1, FunctionIsSeq
<1>4. \A n : Shown(n, ranges) = Joined(said(n))
  BY DEF Shown
<1>. HIDE DEF said
<1>5. Shown(0, ranges) = <<>>
  <2>1. 0 \in 0..N
    BY <1>1
  <2>. QED BY <1>3, <1>4, <2>1, JoinedMore
<1>6. \A n \in 0..N : Shown(n, ranges) \in Texts
  BY <1>3, <1>4, JoinedMore
<1>7. ASSUME NEW n \in 0..(N - 1)
      PROVE  Shown(n + 1, ranges) = Shown(n, ranges) \o Said(n + 1, ranges)
  <2>1. n \in 0..N /\ n + 1 \in 0..N /\ n + 1 \in 1..(n + 1) /\ \A k \in 1..n : k \in 1..(n + 1)
    BY <1>1
  <2>. DEFINE more == said(n + 1)
              fewer == said(n)
  <2>2. /\ more \in Seq(Texts) /\ fewer \in Seq(Texts) /\ Len(more) = Len(fewer) + 1
        /\ Len(more) = n + 1 /\ more[n + 1] = Said(n + 1, ranges)
        /\ \A k \in 1..Len(fewer) : more[k] = fewer[k]
    BY <1>3, <2>1
  <2>. HIDE DEF more, fewer
  <2>3. Joined(more) = Joined(fewer) \o more[Len(more)]
    BY <2>2, JoinedMore
  <2>. QED BY <1>4, <2>2, <2>3 DEF more, fewer
<1>8. Expansion(ranges) = Shown(N, ranges)
  <2>1. said(N) = [k \in Tokens |-> Cased(PieceOf(k, ranges), Covering(k, ranges))]
    BY <1>1 DEF said, Said
  <2>2. said(N) \in Seq(Texts)
    BY <1>1, <1>3
  <2>3. Expansion(ranges) = FlattenSeq(said(N))
    BY <2>1 DEF Expansion
  <2>. QED BY <1>4, <2>2, <2>3, FlattenJoins
<1>. QED BY <1>2, <1>5, <1>6, <1>7, <1>8 DEF N

\* Tokens that stand for themselves, one behind the other, are a slice of the
\* reference string.
LEMMA PlainShown ==
  ASSUME call \in Calls, CapturesKnown, NEW ranges \in Answers,
         NEW from \in Nat, NEW n \in Nat, from + n <= Len(call.reference),
         from + 1 <= Len(call.reference),
         \A k \in (from + 1)..(from + n) : Plain(k)
  PROVE  LET text == Slice("reference", MakeRange(from, n))
             op == Covering(from + 1, ranges) IN
         /\ text \in Texts /\ Len(text) = n
         /\ op \in Conversions
         /\ Shown(from + n, ranges) = Shown(from, ranges) \o Cased(text, op)
         /\ Covering(from + n + 1, ranges) = IF n > 0 /\ op \in NextCharOps THEN NoOp ELSE op
<1>. DEFINE N == Len(call.reference)
            text(m) == Slice("reference", MakeRange(from, m))
            op == Covering(from + 1, ranges)
            left(m) == IF m > 0 /\ op \in NextCharOps THEN NoOp ELSE op
            S == {m \in Nat : m <= n =>
                    /\ Shown(from + m, ranges) = Shown(from, ranges) \o Cased(text(m), op)
                    /\ Covering(from + m + 1, ranges) = left(m)}
<1>1. N \in Nat /\ Tokens = 1..N /\ from + 1 \in Tokens /\ from \in 0..N
  BY CallTyped DEF Tokens
<1>2. op \in Conversions
  BY <1>1, CoveringNext
<1>3. \A m \in Nat : text(m) \in Texts /\ Len(text(m)) = m
  BY SliceJoins
<1>4. text(0) = <<>> /\ \A m \in Nat : text(m + 1) = text(m) \o <<Character("reference", from + m)>>
  <2>1. text(0) = <<>>
    BY SliceJoins
  <2>2. ASSUME NEW m \in Nat PROVE text(m + 1) = text(m) \o <<Character("reference", from + m)>>
    <3>1. 1 \in Nat /\ from + m \in Nat
      OBVIOUS
    <3>2. text(m + 1) = text(m) \o Slice("reference", MakeRange(from + m, 1))
      BY <3>1, SliceJoins
    <3>3. Slice("reference", MakeRange(from + m, 1)) = <<Character("reference", from + m)>>
      BY <3>1, SliceJoins
    <3>. QED BY <3>2, <3>3
  <2>. QED BY <2>1, <2>2
<1>. HIDE DEF N, text, op
<1>5. Shown(from, ranges) \in Texts
  BY <1>1, ShownMore DEF N
<1>6. 0 \in S
  <2>1. Cased(text(0), op) = <<>>
    BY <1>2, <1>4, TextAlgebra, CasedTexts
  <2>2. from + 0 = from /\ from + 0 + 1 = from + 1
    OBVIOUS
  <2>3. left(0) = op
    OBVIOUS
  <2>4. Shown(from, ranges) = Shown(from, ranges) \o <<>>
    BY <1>5, TextAlgebra
  <2>5. Shown(from + 0, ranges) = Shown(from, ranges) \o Cased(text(0), op)
    BY <2>1, <2>2, <2>4
  <2>6. Covering(from + 0 + 1, ranges) = left(0)
    <3>. HIDE DEF left
    <3>. QED BY <2>2, <2>3 DEF op
  <2>. HIDE DEF left
  <2>. QED BY <2>5, <2>6
<1>7. ASSUME NEW m \in Nat, m \in S PROVE m + 1 \in S
  <2>. SUFFICES ASSUME m + 1 <= n
                PROVE  /\ Shown(from + (m + 1), ranges) = Shown(from, ranges) \o Cased(text(m + 1), op)
                       /\ Covering(from + (m + 1) + 1, ranges) = left(m + 1)
    OBVIOUS
  <2>. DEFINE k == from + m + 1
              c == <<Character("reference", k - 1)>>
  <2>1. /\ k \in Tokens /\ k \in (from + 1)..(from + n) /\ from + m \in 0..(N - 1)
        /\ k - 1 = from + m /\ from + (m + 1) = k /\ (from + m) + 1 = k /\ m <= n
    BY <1>1 DEF N
  <2>2. /\ Shown(from + m, ranges) = Shown(from, ranges) \o Cased(text(m), op)
        /\ Covering(k, ranges) = left(m)
    BY <1>7, <2>1
  <2>. HIDE DEF k
  <2>3. Plain(k)
    BY <2>1
  <2>4. PieceOf(k, ranges) = c /\ PieceOf(k, ranges) \in Texts /\ Op(k) \notin CaseOps
    BY <2>1, <2>3, Pieces
  <2>5. Shown(k, ranges) = Shown(from + m, ranges) \o Said(k, ranges)
    BY <2>1, ShownMore DEF N
  <2>6. Said(k, ranges) = Cased(c, left(m)) /\ c # <<>> /\ c \in Texts
    BY <2>2, <2>4 DEF Said
  <2>7. left(m) = (IF text(m) # <<>> /\ op \in NextCharOps THEN NoOp ELSE op)
    <3>1. text(m) # <<>> <=> m > 0
      <4>1. Len(text(m)) = m /\ text(m) \in Seq(Characters)
        BY <1>3 DEF Texts, Characters
      <4>. QED BY <4>1
    <3>. QED BY <3>1
  <2>8. text(m + 1) = text(m) \o c
    BY <1>4, <2>1
  <2>9. Covering(k + 1, ranges)
          = IF Covering(k, ranges) \in NextCharOps /\ PieceOf(k, ranges) # <<>> THEN NoOp
            ELSE Covering(k, ranges)
    BY <2>1, <2>4, CoveringNext
  <2>. HIDE DEF c
  <2>10. Cased(text(m + 1), op) = Cased(text(m), op) \o Cased(c, left(m))
    <3>. DEFINE t == text(m)
                l == left(m)
    <3>1. t \in Texts /\ c \in Texts /\ l = (IF t # <<>> /\ op \in NextCharOps THEN NoOp ELSE op)
      BY <1>3, <2>6, <2>7
    <3>. HIDE DEF t, l
    <3>2. Cased(t \o c, op) = Cased(t, op) \o Cased(c, l)
      BY <1>2, <3>1, CasedJoins
    <3>. QED BY <2>8, <3>2 DEF t, l
  <2>11. Cased(text(m), op) \in Texts /\ Cased(c, left(m)) \in Texts
    <3>1. left(m) \in Conversions
      BY <1>2 DEF Conversions
    <3>. HIDE DEF left
    <3>. QED BY <1>2, <1>3, <2>6, <3>1, CasedTexts
  <2>12. Shown(k, ranges) = Shown(from, ranges) \o Cased(text(m + 1), op)
    <3>. HIDE DEF left
    <3>1. (Shown(from, ranges) \o Cased(text(m), op)) \o Cased(c, left(m))
            = Shown(from, ranges) \o (Cased(text(m), op) \o Cased(c, left(m)))
      BY <1>5, <2>11, TextAlgebra
    <3>. QED BY <2>2, <2>5, <2>6, <2>10, <3>1
  <2>13. Covering(k + 1, ranges) = left(m + 1)
    <3>1. Covering(k + 1, ranges) = IF left(m) \in NextCharOps THEN NoOp ELSE left(m)
      BY <2>2, <2>4, <2>6, <2>9
    <3>2. left(m + 1) = IF op \in NextCharOps THEN NoOp ELSE op
      OBVIOUS
    <3>3. NoOp \notin NextCharOps
      BY OpsDiffer
    <3>. QED BY <3>1, <3>2, <3>3
  <2>. HIDE DEF left
  <2>. QED BY <2>1, <2>12, <2>13
<1>8. Nat \subseteq S
  <2>. HIDE DEF S
  <2>. QED BY <1>6, <1>7, NatInduct
<1>9. /\ Shown(from + n, ranges) = Shown(from, ranges) \o Cased(text(n), op)
      /\ Covering(from + n + 1, ranges) = left(n)
  BY <1>8
<1>. QED BY <1>2, <1>3, <1>9 DEF text, op

\* Instruction i stands for the tokens behind token from up to token to.
Stands(i, from, to) ==
  \/ /\ i.op = CopyRange /\ i.range.location = from /\ i.range.length > 0
     /\ from + i.range.length <= Len(call.reference)
     /\ \A k \in (from + 1)..(from + i.range.length) : Plain(k)
     /\ \/ to = from + i.range.length
        \/ /\ to = from + i.range.length + 1 /\ to <= Len(call.reference)
           /\ Silent(to)
  \/ /\ i.op \in CaseOps \cup {CopyCaptureIndex} /\ to = from + 1 /\ to <= Len(call.reference)
     /\ Op(to) = i.op
     /\ i.op = CopyCaptureIndex => i.range.location = call.reference[to].capture
  \/ i.op = Stop /\ from = Len(call.reference) /\ to = from

\* The text instruction i stands for.
Gives(i, ranges) ==
  CASE i.op = CopyRange -> Slice("reference", i.range)
    [] i.op = CopyCaptureIndex -> Slice("subject", ranges[i.range.location])
    [] OTHER -> <<>>

\* An instruction adds to what a match is replaced by what it stands for, in the
\* case in force, and leaves a case in force (NSString.m:900-990).
LEMMA InstructionShown ==
  ASSUME call \in Calls, CapturesKnown, NEW ranges \in Answers,
         NEW i \in Instructions, NEW from \in Nat, NEW to, Stands(i, from, to)
  PROVE  LET text == Gives(i, ranges)
             op == Covering(from + 1, ranges) IN
         /\ from \in 0..Len(call.reference) /\ to \in 0..Len(call.reference)
         /\ i.op = Stop => to = Len(call.reference)
         /\ i.op # Stop => op \in Conversions
         /\ i.op \in CaseOps =>
              /\ Shown(to, ranges) = Shown(from, ranges)
              /\ Covering(to + 1, ranges) = IF i.op = ChangeCaseEnd THEN NoOp ELSE i.op
         /\ i.op \in {CopyRange, CopyCaptureIndex} =>
              /\ text \in Texts
              /\ Shown(to, ranges) = Shown(from, ranges) \o Cased(text, op)
              /\ Covering(to + 1, ranges) = IF text # <<>> /\ op \in NextCharOps THEN NoOp ELSE op
         /\ i.op = CopyRange => text # <<>>
         /\ i.op = CopyCaptureIndex /\ text = <<>> /\ ~EmptyUnderCase(ranges) => op = NoOp
<1>. DEFINE N == Len(call.reference)
            text == Gives(i, ranges)
            op == Covering(from + 1, ranges)
            after == Covering(to + 1, ranges)
            end == Shown(to, ranges)
            before == Shown(from, ranges)
<1>0. N \in Nat /\ Tokens = 1..N
  BY CallTyped DEF Tokens
<1>1. CASE i.op = CopyRange
  <2>. DEFINE n == i.range.length
              slice == Slice("reference", MakeRange(from, n))
  <2>1. /\ i.range = MakeRange(from, n) /\ n \in Nat /\ n > 0 /\ from + n <= N
        /\ \A k \in (from + 1)..(from + n) : Plain(k)
        /\ \/ to = from + n
           \/ to = from + n + 1 /\ to <= N /\ Silent(to)
    <3>1. i.range \in Ranges
      BY DEF Instructions
    <3>2. /\ i.range.location = from /\ n > 0 /\ from + n <= N
          /\ \A k \in (from + 1)..(from + n) : Plain(k)
          /\ \/ to = from + n
             \/ to = from + n + 1 /\ to <= N /\ Silent(to)
      BY <1>1, OpsDiffer DEF Stands
    <3>. QED BY <3>1, <3>2 DEF Ranges, MakeRange
  <2>2. text = slice
    BY <1>1, <2>1, OpsDiffer DEF Gives
  <2>. HIDE DEF n
  <2>3. from + 1 <= N /\ from + 1 \in Tokens
    BY <1>0, <2>1
  <2>4. /\ slice \in Texts /\ Len(slice) = n /\ op \in Conversions
        /\ Shown(from + n, ranges) = before \o Cased(slice, op)
        /\ Covering(from + n + 1, ranges) = IF n > 0 /\ op \in NextCharOps THEN NoOp ELSE op
    BY <2>1, <2>3, PlainShown
  <2>5. slice # <<>>
    <3>1. Len(slice) # 0
      BY <2>1, <2>4
    <3>. QED BY <3>1, TextAlgebra
  <2>6. Shown(to, ranges) = Shown(from + n, ranges) /\ after = Covering(from + n + 1, ranges)
    <3>1. CASE to = from + n
      BY <3>1
    <3>2. CASE to = from + n + 1 /\ to <= N /\ Silent(to)
      <4>. DEFINE t == from + n
      <4>1. to \in Tokens /\ t \in 0..(N - 1) /\ to = t + 1
        BY <1>0, <2>1, <3>2
      <4>2. PieceOf(to, ranges) = <<>> /\ Op(to) \notin CaseOps
        BY <3>2, <4>1, Pieces
      <4>3. Covering(to, ranges) \in Conversions /\ after = Covering(to, ranges)
        BY <4>1, <4>2, CoveringNext
      <4>4. Said(to, ranges) = <<>>
        BY <4>2, <4>3, TextAlgebra, CasedTexts DEF Said
      <4>5. Shown(t + 1, ranges) = Shown(t, ranges) \o Said(t + 1, ranges) /\ Shown(t, ranges) \in Texts
        <5>1. t \in 0..N
          BY <1>0, <4>1
        <5>. QED BY <4>1, <5>1, ShownMore
      <4>6. Shown(to, ranges) = Shown(t, ranges)
        BY <4>1, <4>4, <4>5, TextAlgebra
      <4>. QED BY <4>1, <4>3, <4>6
    <3>. QED BY <2>1, <3>1, <3>2
  <2>7. to \in 0..N /\ from \in 0..N
    BY <1>0, <2>1
  <2>. HIDE DEF slice, N, text, op, after, end, before
  <2>8. end = before \o Cased(text, op) /\ after = IF text # <<>> /\ op \in NextCharOps THEN NoOp ELSE op
    BY <2>1, <2>2, <2>4, <2>5, <2>6 DEF end
  <2>. QED BY <1>1, <2>2, <2>4, <2>5, <2>7, <2>8, OpsDiffer
       DEF N, text, op, after, end, before
<1>2. CASE i.op \in CaseOps \cup {CopyCaptureIndex}
  <2>1. /\ to = from + 1 /\ to <= N /\ Op(to) = i.op
        /\ i.op = CopyCaptureIndex => i.range.location = call.reference[to].capture
    BY <1>2, OpsDiffer DEF Stands
  <2>2. to \in Tokens /\ from \in 0..(N - 1) /\ from \in 0..N /\ to \in 0..N
    BY <1>0, <2>1
  <2>3. end = before \o Said(to, ranges) /\ before \in Texts
    BY <2>1, <2>2, ShownMore
  <2>4. Said(to, ranges) = Cased(PieceOf(to, ranges), op) /\ op \in Conversions
    BY <2>1, <2>2, CoveringNext DEF Said
  <2>5. ASSUME i.op \in CaseOps
        PROVE  end = before /\ after = IF i.op = ChangeCaseEnd THEN NoOp ELSE i.op
    <3>1. PieceOf(to, ranges) = <<>>
      BY <2>1, <2>2, <2>5, Pieces
    <3>2. Said(to, ranges) = <<>>
      BY <2>4, <3>1, TextAlgebra, CasedTexts
    <3>3. after = IF i.op = ChangeCaseEnd THEN NoOp ELSE i.op
      BY <2>1, <2>2, <2>5, CoveringNext, OpsDiffer
    <3>. QED BY <2>3, <3>2, <3>3, TextAlgebra
  <2>6. ASSUME i.op = CopyCaptureIndex
        PROVE  /\ text \in Texts /\ end = before \o Cased(text, op)
               /\ after = IF text # <<>> /\ op \in NextCharOps THEN NoOp ELSE op
               /\ text = <<>> /\ ~EmptyUnderCase(ranges) => op = NoOp
    <3>1. text = Slice("subject", ranges[call.reference[to].capture])
      BY <2>1, <2>6, OpsDiffer DEF Gives
    <3>2. PieceOf(to, ranges) = text /\ text \in Texts
      BY <2>1, <2>2, <2>6, <3>1, Pieces
    <3>3. after = IF text # <<>> /\ op \in NextCharOps THEN NoOp ELSE op
      <4>1. Op(to) \notin CaseOps
        BY <2>1, <2>6, OpsDiffer
      <4>2. after = IF Covering(to, ranges) \in NextCharOps /\ PieceOf(to, ranges) # <<>> THEN NoOp
                    ELSE Covering(to, ranges)
        BY <2>2, <4>1, CoveringNext
      <4>. QED BY <2>1, <3>2, <4>2
    <3>4. text = <<>> /\ ~EmptyUnderCase(ranges) => op = NoOp
      BY <2>1, <2>2, <2>6, <3>2 DEF EmptyUnderCase
    <3>. HIDE DEF text, op, after, end, before
    <3>. QED BY <2>3, <2>4, <3>2, <3>3, <3>4
  <2>. HIDE DEF N, text, op, after, end, before
  <2>. QED BY <1>2, <2>2, <2>4, <2>5, <2>6, OpsDiffer DEF N, text, op, after, end, before
<1>3. CASE i.op = Stop
  <2>1. from = N /\ to = N
    BY <1>3, OpsDiffer DEF Stands
  <2>2. Stop \notin CaseOps /\ Stop # CopyRange /\ Stop # CopyCaptureIndex
    BY OpsDiffer
  <2>. QED BY <1>0, <1>3, <2>1, <2>2
<1>4. i.op \in CaseOps \cup {CopyCaptureIndex} \/ i.op = CopyRange \/ i.op = Stop
  BY DEF Stands
<1>. QED BY <1>1, <1>2, <1>3, <1>4

-------------------------------------------------------------------------------
(* Compiling.                                                              *)

\* The instructions stand for the tokens up to the given one, one behind the other.
Laid(instructions, ends) ==
  /\ ends \in [0..Len(instructions) -> 0..Len(call.reference)] /\ ends[0] = 0
  /\ \A j \in 1..Len(instructions) : Stands(instructions[j], ends[j - 1], ends[j])
Reaches(instructions, to) == \E ends : Laid(instructions, ends) /\ ends[Len(instructions)] = to

\* No dollar of the first n tokens is without its second one, and no capture of
\* them is one the regex does not have.
Even(n) == Cardinality(Dollars(n)) % 2 = 0
Known(n) == \A k \in 1..n : Op(k) = CopyCaptureIndex => call.reference[k].capture \in Captures

\* What is compiled stands for the tokens read, and the pending ones for themselves.
Parsed ==
  /\ pc = "compile" =>
       /\ Even(referenceIndex) /\ Known(referenceIndex)
       /\ \A k \in (currentRange.location + 1)..referenceIndex : Op(k) = Text
       /\ OnStack(references) => Reaches(references.instructions, currentRange.location)
  /\ pc \in {"search", "apply", "finish"} =>
       /\ CapturesKnown
       /\ OnStack(references) =>
            /\ Reaches(references.instructions, Len(call.reference))
            /\ references.instructions[Len(references.instructions)].op = Stop

\* The call is the same in every state of its run, and so is what it says.
LEMMA Unmoved ==
  ASSUME call' = call
  PROVE  /\ \A k : Op(k)' = Op(k) /\ Even(k)' = Even(k) /\ Known(k)' = Known(k)
         /\ CapturesKnown' = CapturesKnown
         /\ \A instructions, to : Reaches(instructions, to)' = Reaches(instructions, to)
         /\ \A instructions, ends : Laid(instructions, ends)' = Laid(instructions, ends)
         /\ \A k, ranges : /\ PieceOf(k, ranges)' = PieceOf(k, ranges)
                           /\ Covering(k, ranges)' = Covering(k, ranges)
                           /\ Shown(k, ranges)' = Shown(k, ranges)
         /\ \A ranges : /\ Expansion(ranges)' = Expansion(ranges)
                        /\ EmptyUnderCase(ranges)' = EmptyUnderCase(ranges)
<1>1. \A k : Op(k)' = Op(k)
  BY DEF Op
<1>2. \A k : Even(k)' = Even(k) /\ Known(k)' = Known(k)
  BY <1>1 DEF Even, Known, Dollars
<1>3. CapturesKnown' = CapturesKnown
  BY <1>1 DEF CapturesKnown, Tokens
<1>4. \A instructions, ends : Laid(instructions, ends)' = Laid(instructions, ends)
  <2>1. \A i, from, to : Stands(i, from, to)' = Stands(i, from, to)
    BY DEF Stands, Plain, Silent, Dollars, Op
  <2>. QED BY <2>1 DEF Laid
<1>5. \A instructions, to : Reaches(instructions, to)' = Reaches(instructions, to)
  BY <1>4 DEF Reaches
<1>6. \A k, ranges : PieceOf(k, ranges)' = PieceOf(k, ranges)
  BY DEF PieceOf, Op
<1>7. \A k, ranges : Covering(k, ranges)' = Covering(k, ranges)
  <2>1. \A k : CaseOpsBefore(k)' = CaseOpsBefore(k)
    BY <1>1 DEF CaseOpsBefore
  <2>2. \A k : LastCaseOp(k)' = LastCaseOp(k)
    BY <2>1 DEF LastCaseOp
  <2>. QED BY <1>1, <1>6, <2>2 DEF Covering
<1>8. \A k, ranges : Shown(k, ranges)' = Shown(k, ranges)
  BY <1>6, <1>7 DEF Shown, Said
<1>9. \A ranges : Expansion(ranges)' = Expansion(ranges)
  BY <1>6, <1>7 DEF Expansion, Tokens
<1>10. \A ranges : EmptyUnderCase(ranges)' = EmptyUnderCase(ranges)
  BY <1>1, <1>6, <1>7 DEF EmptyUnderCase, Tokens
<1>. QED BY <1>1, <1>2, <1>3, <1>4, <1>5, <1>6, <1>7, <1>8, <1>9, <1>10

\* A token more is a dollar more, or none.
LEMMA EvenMore ==
  ASSUME NEW n \in Nat
  PROVE  /\ Op(n + 1) # Dollar => (Even(n + 1) <=> Even(n))
         /\ Op(n + 1) = Dollar => (Even(n + 1) <=> ~Even(n))
         /\ Even(0)
<1>1. IsFiniteSet(Dollars(n)) /\ Cardinality(Dollars(n)) \in Nat
  <2>1. IsFiniteSet(1..n)
    BY FS_Interval
  <2>2. Dollars(n) \subseteq 1..n
    BY DEF Dollars
  <2>3. IsFiniteSet(Dollars(n))
    BY <2>1, <2>2, FS_Subset
  <2>. QED BY <2>3, FS_CardinalityType
<1>2. ASSUME Op(n + 1) # Dollar PROVE Even(n + 1) <=> Even(n)
  <2>1. Dollars(n + 1) = Dollars(n)
    BY <1>2 DEF Dollars
  <2>. QED BY <2>1 DEF Even
<1>3. ASSUME Op(n + 1) = Dollar PROVE Even(n + 1) <=> ~Even(n)
  <2>1. Dollars(n + 1) = Dollars(n) \cup {n + 1} /\ n + 1 \notin Dollars(n)
    BY <1>3 DEF Dollars
  <2>2. Cardinality(Dollars(n + 1)) = Cardinality(Dollars(n)) + 1
    BY <1>1, <2>1, FS_AddElement
  <2>. QED BY <1>1, <2>2 DEF Even
<1>4. Even(0)
  <2>1. Dollars(0) = {}
    BY DEF Dollars
  <2>. QED BY <2>1, FS_EmptySet DEF Even
<1>. QED BY <1>2, <1>3, <1>4

\* An instruction that stands for what comes next.
LEMMA LaidAppend ==
  ASSUME call \in Calls, NEW instructions \in Seq(Instructions), NEW from,
         Reaches(instructions, from),
         NEW i \in Instructions, NEW to \in 0..Len(call.reference), Stands(i, from, to)
  PROVE  Reaches(Append(instructions, i), to)
<1>. DEFINE n == Len(instructions)
            N == Len(call.reference)
            more == Append(instructions, i)
<1>1. n \in Nat /\ N \in Nat
  BY CallTyped
<1>2. PICK ends : Laid(instructions, ends) /\ ends[n] = from
  BY DEF Reaches
<1>3. /\ ends \in [0..n -> 0..N] /\ ends[0] = 0
      /\ \A j \in 1..n : Stands(instructions[j], ends[j - 1], ends[j])
  BY <1>2 DEF Laid
<1>4. Len(more) = n + 1 /\ more[n + 1] = i /\ \A j \in 1..n : more[j] = instructions[j]
  OBVIOUS
<1>. HIDE DEF n, N, more
<1>. DEFINE longer == [j \in 0..(n + 1) |-> IF j <= n THEN ends[j] ELSE to]
<1>5. /\ longer \in [0..(n + 1) -> 0..N] /\ longer[0] = 0 /\ longer[n + 1] = to
      /\ \A j \in 0..n : longer[j] = ends[j]
  BY <1>1, <1>3 DEF N
<1>. HIDE DEF longer
<1>6. ASSUME NEW j \in 1..(n + 1) PROVE Stands(more[j], longer[j - 1], longer[j])
  <2>1. CASE j = n + 1
    <3>1. j - 1 = n /\ n \in 0..n
      BY <1>1, <2>1
    <3>2. longer[j - 1] = from /\ longer[j] = to /\ more[j] = i
      BY <1>2, <1>4, <1>5, <2>1, <3>1
    <3>. QED BY <3>2
  <2>2. CASE j # n + 1
    <3>1. j \in 1..n /\ j \in 0..n /\ j - 1 \in 0..n
      BY <1>1, <2>2
    <3>2. longer[j - 1] = ends[j - 1] /\ longer[j] = ends[j] /\ more[j] = instructions[j]
      BY <1>4, <1>5, <3>1
    <3>. QED BY <1>3, <3>1, <3>2
  <2>. QED BY <2>1, <2>2
<1>7. Laid(more, longer)
  BY <1>4, <1>5, <1>6 DEF Laid, N
<1>. QED BY <1>4, <1>5, <1>7 DEF Reaches, more

\* A buffer that is on the stack after an instruction was appended was there
\* before, and has kept its instructions (NSString.m:1087-1102).
LEMMA AppendOnStack ==
  ASSUME NEW buffer \in ReferenceBuffers, buffer.capacity >= StackInstructions, NEW op, NEW range
  PROVE  LET after == AppendInstruction(buffer, op, range) IN
         /\ after.capacity >= StackInstructions
         /\ OnStack(after) =>
              /\ OnStack(buffer)
              /\ after.instructions = IF range.length = 0 /\ op = CopyRange THEN buffer.instructions
                                      ELSE Append(buffer.instructions, Instruction(op, range))
<1>0. buffer.capacity \in Nat /\ StackInstructions \in Nat \ {0}
  BY StackAssumption DEF ReferenceBuffers
<1>1. CASE range.length = 0 /\ op = CopyRange
  BY <1>1 DEF AppendInstruction
<1>2. CASE ~(range.length = 0 /\ op = CopyRange)
  <2>. DEFINE grown == Grow(buffer, ZeroInstruction)
  <2>1. AppendInstruction(buffer, op, range)
          = [grown EXCEPT !.instructions = Append(@, Instruction(op, range))]
    BY <1>2 DEF AppendInstruction
  <2>2. CASE Len(buffer.instructions) < buffer.capacity
    <3>1. grown = buffer
      BY <2>2 DEF Grow
    <3>. QED BY <1>2, <2>1, <3>1 DEF ReferenceBuffers, OnStack
  <2>3. CASE ~(Len(buffer.instructions) < buffer.capacity)
    <3>. DEFINE kept == IF OnStack(buffer) THEN [k \in DOMAIN buffer.instructions |-> ZeroInstruction]
                        ELSE buffer.instructions
    <3>1. grown = [buffer EXCEPT !.instructions = kept, !.capacity = @ + StackInstructions]
      BY <2>3 DEF Grow
    <3>. HIDE DEF kept
    <3>2. AppendInstruction(buffer, op, range).capacity = buffer.capacity + StackInstructions
      BY <2>1, <3>1 DEF ReferenceBuffers
    <3>. QED BY <1>0, <3>2 DEF OnStack
  <2>. QED BY <2>2, <2>3
<1>. QED BY <1>1, <1>2

\* The pending tokens become an instruction that stands for them.
LEMMA FlushedStands ==
  ASSUME IInv, LosesFirst, Parsed, pc = "compile"
  PROVE  /\ Flushed \in ReferenceBuffers /\ Flushed.capacity >= StackInstructions
         /\ OnStack(Flushed) => Reaches(Flushed.instructions, referenceIndex)
<1>. DEFINE i == Instruction(CopyRange, currentRange)
            N == Len(call.reference)
<1>1. /\ references \in ReferenceBuffers /\ references.capacity >= StackInstructions
      /\ Flushed \in ReferenceBuffers /\ call \in Calls
  BY FlushFits DEF IInv, TypeOK, ReferenceBuffers, LosesFirst, Loses
<1>2. /\ referenceIndex \in Nat /\ N \in Nat
      /\ currentRange.location \in Nat /\ currentRange.length \in Nat
      /\ currentRange.location + currentRange.length = referenceIndex /\ referenceIndex <= N
      /\ currentRange \in Ranges
  BY <1>1, CallTyped DEF IInv, TypeOK, InBounds, Ranges
<1>3. /\ Flushed.capacity >= StackInstructions
      /\ OnStack(Flushed) =>
           /\ OnStack(references)
           /\ Flushed.instructions = IF currentRange.length = 0 THEN references.instructions
                                     ELSE Append(references.instructions, i)
  BY <1>1, AppendOnStack DEF Flushed
<1>4. ASSUME OnStack(Flushed) PROVE Reaches(Flushed.instructions, referenceIndex)
  <2>1. Reaches(references.instructions, currentRange.location)
    BY <1>3, <1>4 DEF Parsed
  <2>2. CASE currentRange.length = 0
    BY <1>2, <1>3, <1>4, <2>1, <2>2
  <2>3. CASE currentRange.length # 0
    <3>1. i \in Instructions
      BY <1>2 DEF Instructions, Instruction, Ops, CopyRange, CopyCaptureIndex
    <3>2. \A k \in (currentRange.location + 1)..referenceIndex : Plain(k)
      BY DEF Parsed, Plain
    <3>3. Stands(i, currentRange.location, referenceIndex)
      BY <1>2, <2>3, <3>2 DEF Stands, Instruction
    <3>4. references.instructions \in Seq(Instructions) /\ referenceIndex \in 0..N
      BY <1>1, <1>2 DEF ReferenceBuffers
    <3>. HIDE DEF i
    <3>5. Reaches(Append(references.instructions, i), referenceIndex)
      BY <1>1, <2>1, <3>1, <3>3, <3>4, LaidAppend
    <3>. QED BY <1>3, <1>4, <2>3, <3>5
  <2>. QED BY <2>2, <2>3
<1>. QED BY <1>1, <1>3, <1>4

\* A token that is an instruction of its own stands for itself.
LEMMA EmitParses ==
  ASSUME IInv, LosesFirst, Parsed, pc = "compile", InReference(referenceIndex),
         NEW op, NEW capture, Emit(op, capture),
         Instruction(op, MakeRange(capture, 0)) \in Instructions,
         op \in CaseOps \cup {CopyCaptureIndex}, Op(referenceIndex + 1) = op,
         op = CopyCaptureIndex => /\ capture = call.reference[referenceIndex + 1].capture
                                  /\ capture \in Captures,
         UNCHANGED <<pc, call>>
  PROVE  Parsed'
<1>. DEFINE i == Instruction(op, MakeRange(capture, 0))
            k == referenceIndex + 1
            N == Len(call.reference)
<1>1. referenceIndex \in Nat /\ N \in Nat /\ call \in Calls /\ k <= N /\ k \in 0..N
  BY CallTyped DEF IInv, TypeOK, InReference
<1>2. /\ references' = AppendInstruction(Flushed, op, MakeRange(capture, 0))
      /\ referenceIndex' = k /\ currentRange' = MakeRange(k, 0)
  BY DEF Emit
<1>3. Op(k) # Dollar /\ op # CopyRange
  BY OpsDiffer
<1>4. Even(k) /\ Known(k)
  <2>1. Even(k)
    BY <1>1, <1>3, EvenMore DEF Parsed
  <2>2. \A j \in 1..k : j \in 1..referenceIndex \/ j = k
    BY <1>1
  <2>3. Known(referenceIndex)
    BY DEF Parsed
  <2>. HIDE DEF k
  <2>4. Op(k) = CopyCaptureIndex => call.reference[k].capture \in Captures
    BY DEF k
  <2>. QED BY <2>1, <2>2, <2>3, <2>4 DEF Known
<1>5. ASSUME OnStack(references') PROVE Reaches(references'.instructions, k)
  <2>1. /\ Flushed \in ReferenceBuffers /\ Flushed.capacity >= StackInstructions
        /\ OnStack(Flushed) => Reaches(Flushed.instructions, referenceIndex)
    BY FlushedStands
  <2>2. OnStack(Flushed) /\ references'.instructions = Append(Flushed.instructions, i)
    BY <1>2, <1>3, <1>5, <2>1, AppendOnStack
  <2>3. Stands(i, referenceIndex, k)
    BY <1>1 DEF Stands, Instruction, MakeRange
  <2>4. Flushed.instructions \in Seq(Instructions)
    BY <2>1 DEF ReferenceBuffers
  <2>. HIDE DEF i, k
  <2>5. Reaches(Append(Flushed.instructions, i), k)
    BY <1>1, <2>1, <2>2, <2>3, <2>4, LaidAppend DEF i
  <2>. QED BY <2>2, <2>5
<1>6. (OnStack(references) => Reaches(references.instructions, currentRange.location))'
  <2>1. currentRange'.location = k
    BY <1>2 DEF MakeRange
  <2>2. OnStack(references)' <=> OnStack(references')
    BY DEF OnStack
  <2>. HIDE DEF k
  <2>. QED BY <1>5, <2>1, <2>2, Unmoved
<1>7. (Even(referenceIndex) /\ Known(referenceIndex))'
  BY <1>2, <1>4, Unmoved
<1>8. (\A j \in (currentRange.location + 1)..referenceIndex : Op(j) = Text)'
  <2>1. currentRange'.location + 1 = k + 1 /\ referenceIndex' = k
    BY <1>2 DEF MakeRange
  <2>2. \A j \in (k + 1)..k : FALSE
    BY <1>1
  <2>. QED BY <2>1, <2>2
<1>9. pc' = "compile"
  OBVIOUS
<1>. QED BY <1>6, <1>7, <1>8, <1>9 DEF Parsed

\* Each step of RKCompileReferenceString compiles what the tokens say
\* (NSString.m:1012-1078).
LEMMA ParsedKeeps ==
  ASSUME IInv, LosesFirst, Parsed, [Next]_vars
  PROVE  Parsed'
<1>. DEFINE N == Len(call.reference)
<1>1. /\ call \in Calls /\ N \in Nat /\ referenceIndex \in Nat /\ call' = call
      /\ referenceIndex <= N /\ currentRange \in [location : Nat, length : Nat]
      /\ currentRange.location + currentRange.length = referenceIndex
  <2>1. call' = call
    BY DEF Next, Compile, Search, Apply, CompileDollars, CompileCapture,
         CompileCaseOp, CompileText,
           CompileFails, CompileEnds, Match, SearchEnds, SearchFails, EndNothing, CopyPiece,
           GatherPiece, EndConversion, ConvertNextChar, ChangeOp, ApplyEnds, Finish, Done, vars
  <2>. QED BY <2>1, CallTyped DEF IInv, TypeOK, InBounds
<1>2. references \in ReferenceBuffers /\ references.capacity >= StackInstructions
  BY DEF IInv, TypeOK, ReferenceBuffers, LosesFirst, Loses
<1>3. CASE CompileDollars
  <2>. DEFINE range == [currentRange EXCEPT !.length = @ + 1]
              i == Instruction(CopyRange, range)
              k == referenceIndex + 1
              to == referenceIndex + 2
  <2>1. /\ range.location = currentRange.location /\ range.length = currentRange.length + 1
        /\ range \in [location : Nat, length : Nat]
    BY <1>1
  <2>2. /\ pc = "compile" /\ pc' = "compile" /\ to <= N /\ Op(k) = Dollar /\ Op(to) = Dollar
        /\ references' = AppendInstruction(references, CopyRange, range)
        /\ referenceIndex' = to /\ currentRange' = MakeRange(to, 0)
    <3>1. (referenceIndex + 1) + 1 = referenceIndex + 2
      BY <1>1
    <3>. QED BY <1>1, <1>3, <3>1 DEF CompileDollars, Compiling, InReference, TokenAt, Op
  <2>. HIDE DEF range
  <2>3. k \in Nat /\ to = k + 1 /\ to - 1 = k /\ k - 1 = referenceIndex /\ to \in 0..N /\ k <= N
    BY <1>1, <2>2
  <2>4. Even(referenceIndex) /\ ~Even(k) /\ Even(to)
    <3>1. Even(referenceIndex)
      BY <2>2 DEF Parsed
    <3>2. ~Even(k)
      BY <1>1, <2>2, <3>1, EvenMore
    <3>. HIDE DEF k, to
    <3>. QED BY <2>2, <2>3, <3>1, <3>2, EvenMore
  <2>5. Known(to)
    <3>1. \A j \in 1..to : j \in 1..referenceIndex \/ j = k \/ j = to
      BY <1>1
    <3>. HIDE DEF k, to
    <3>. QED BY <2>2, <3>1, OpsDiffer DEF Parsed, Known
  <2>6. (\A j \in (currentRange.location + 1)..referenceIndex : Op(j) = Text)'
    <3>1. currentRange'.location + 1 = to + 1 /\ referenceIndex' = to
      BY <2>2 DEF MakeRange
    <3>2. \A j \in (to + 1)..to : FALSE
      BY <1>1
    <3>. QED BY <3>1, <3>2
  <2>7. ASSUME OnStack(references') PROVE Reaches(references'.instructions, to)
    <3>1. OnStack(references) /\ references'.instructions = Append(references.instructions, i)
      <4>1. range.length # 0
        BY <1>1, <2>1
      <4>. QED BY <1>2, <2>2, <2>7, <4>1, AppendOnStack
    <3>2. Reaches(references.instructions, currentRange.location)
      BY <2>2, <3>1 DEF Parsed
    <3>3. Plain(k) /\ Silent(to)
      <4>. HIDE DEF k, to
      <4>. QED BY <2>2, <2>3, <2>4 DEF Plain, Silent, Even
    <3>4. \A j \in (currentRange.location + 1)..k : Plain(j)
      <4>1. \A j \in (currentRange.location + 1)..k :
              j = k \/ j \in (currentRange.location + 1)..referenceIndex
        BY <1>1
      <4>. HIDE DEF k
      <4>. QED BY <2>2, <3>3, <4>1 DEF Parsed, Plain
    <3>5. currentRange.location + range.length = k /\ range.length > 0
      BY <1>1, <2>1
    <3>6. Stands(i, currentRange.location, to)
      <4>. HIDE DEF k, to
      <4>. QED BY <2>1, <2>2, <2>3, <3>3, <3>4, <3>5 DEF Stands, Instruction
    <3>7. i \in Instructions
      BY <2>1, <2>3, <3>5
           DEF Instructions, Instruction, Ranges, Ops, CopyRange, CopyCaptureIndex
    <3>8. references.instructions \in Seq(Instructions)
      BY <1>2 DEF ReferenceBuffers
    <3>. HIDE DEF i, to
    <3>9. Reaches(Append(references.instructions, i), to)
      BY <1>1, <2>3, <3>2, <3>6, <3>7, <3>8, LaidAppend
    <3>. QED BY <3>1, <3>9
  <2>8. (OnStack(references) => Reaches(references.instructions, currentRange.location))'
    <3>1. currentRange'.location = to
      BY <2>2 DEF MakeRange
    <3>2. OnStack(references)' <=> OnStack(references')
      BY DEF OnStack
    <3>. HIDE DEF to
    <3>. QED BY <1>1, <2>7, <3>1, <3>2, Unmoved
  <2>9. (Even(referenceIndex) /\ Known(referenceIndex))'
    <3>. HIDE DEF to
    <3>. QED BY <1>1, <2>2, <2>4, <2>5, Unmoved
  <2>. QED BY <2>2, <2>6, <2>8, <2>9 DEF Parsed
<1>4. CASE CompileCapture
  <2>. DEFINE capture == TokenAt(referenceIndex).capture
  <2>1. /\ pc = "compile" /\ InReference(referenceIndex) /\ Emit(CopyCaptureIndex, capture)
        /\ Op(referenceIndex + 1) = CopyCaptureIndex /\ capture < CaptureCount
        /\ capture = call.reference[referenceIndex + 1].capture /\ UNCHANGED <<pc, call>>
    BY <1>4 DEF CompileCapture, Compiling, TokenAt, Op
  <2>2. capture \in Captures
    <3>1. TokenAt(referenceIndex) \in Token
      <4>1. call.reference \in Seq(Token) /\ referenceIndex + 1 \in 1..N
        BY <1>1, <2>1, CallTyped DEF InReference
      <4>. QED BY <4>1 DEF TokenAt
    <3>2. capture \in Nat /\ CaptureCount \in Nat
      BY <3>1, CaptureCountAssumption DEF Token
    <3>. QED BY <2>1, <3>2 DEF Captures
  <2>. HIDE DEF capture
  <2>3. Instruction(CopyCaptureIndex, MakeRange(capture, 0)) \in Instructions
    BY <2>2, CaptureCountAssumption
    DEF Instruction, Instructions, MakeRange, Ranges, Ops, CopyCaptureIndex, CopyRange, Captures
  <2>. QED BY <2>1, <2>2, <2>3, EmitParses
<1>5. CASE CompileCaseOp
  <2>. DEFINE op == TokenAt(referenceIndex).op
  <2>1. /\ pc = "compile" /\ InReference(referenceIndex) /\ Emit(op, 0)
        /\ Op(referenceIndex + 1) = op /\ op \in CaseOps /\ UNCHANGED <<pc, call>>
    BY <1>5 DEF CompileCaseOp, Compiling, TokenAt, Op
  <2>. HIDE DEF op
  <2>2. Instruction(op, MakeRange(0, 0)) \in Instructions
    BY <2>1
         DEF Instruction, Instructions, MakeRange, Ranges, Ops, CaseOps, NextCharOps,
         BeginOps,
                UppercaseNextChar, LowercaseNextChar, UppercaseBegin, LowercaseBegin,
                ChangeCaseEnd, CopyCaptureIndex, CopyRange
  <2>3. op # CopyCaptureIndex
    BY <2>1, OpsDiffer
  <2>. QED BY <2>1, <2>2, <2>3, EmitParses
<1>6. CASE CompileText
  <2>. DEFINE k == referenceIndex + 1
  <2>1. /\ pc = "compile" /\ pc' = "compile" /\ Op(k) = Text /\ references' = references
        /\ referenceIndex' = k /\ currentRange'.location = currentRange.location
    BY <1>1, <1>6 DEF CompileText, Compiling, TokenAt, Op
  <2>2. Even(k)
    BY <1>1, <2>1, EvenMore, OpsDiffer DEF Parsed
  <2>3. \A j \in Nat : j <= k => j <= referenceIndex \/ j = k
    BY <1>1
  <2>4. k \in Nat
    BY <1>1
  <2>. HIDE DEF k
  <2>5. Known(k)
    BY <1>1, <2>1, <2>3, <2>4, OpsDiffer DEF Parsed, Known
  <2>6. \A j \in (currentRange.location + 1)..k : Op(j) = Text
    BY <1>1, <2>1, <2>3, <2>4 DEF Parsed
  <2>7. (OnStack(references) => Reaches(references.instructions, currentRange.location))'
    BY <1>1, <2>1, Unmoved DEF Parsed, OnStack
  <2>8. (Even(referenceIndex) /\ Known(referenceIndex))'
    BY <1>1, <2>1, <2>2, <2>5, Unmoved
  <2>9. (\A j \in (currentRange.location + 1)..referenceIndex : Op(j) = Text)'
    BY <1>1, <2>1, <2>6, Unmoved
  <2>. QED BY <2>1, <2>7, <2>8, <2>9 DEF Parsed
<1>7. CASE CompileEnds
  <2>. DEFINE i == Instruction(Stop, NotFound)
  <2>1. /\ pc = "compile" /\ pc' = "search" /\ referenceIndex = N
        /\ references' = AppendInstruction(Flushed, Stop, NotFound)
    BY <1>1, <1>7 DEF CompileEnds, InReference
  <2>2. CapturesKnown
    <3>1. Tokens = 1..N
      BY <1>1, CallTyped DEF Tokens
    <3>. QED BY <2>1, <3>1 DEF Parsed, Known, CapturesKnown
  <2>3. ASSUME OnStack(references')
        PROVE  /\ Reaches(references'.instructions, N)
               /\ references'.instructions[Len(references'.instructions)].op = Stop
    <3>1. /\ Flushed \in ReferenceBuffers /\ Flushed.capacity >= StackInstructions
          /\ OnStack(Flushed) => Reaches(Flushed.instructions, referenceIndex)
      BY <2>1, FlushedStands
    <3>2. OnStack(Flushed) /\ references'.instructions = Append(Flushed.instructions, i)
      BY <2>1, <2>3, <3>1, AppendOnStack, OpsDiffer
    <3>3. Stands(i, N, N) /\ i.op = Stop /\ N \in 0..N
      BY <1>1 DEF Stands, Instruction
    <3>4. i \in Instructions
      BY DEF Instruction, Instructions, NotFound, MakeRange, Ranges, Ops, Stop,
           CopyCaptureIndex,
             CopyRange
    <3>5. Flushed.instructions \in Seq(Instructions)
      BY <3>1 DEF ReferenceBuffers
    <3>. HIDE DEF i
    <3>6. Reaches(Append(Flushed.instructions, i), N)
      BY <1>1, <2>1, <3>1, <3>2, <3>3, <3>4, <3>5, LaidAppend
    <3>. QED BY <3>2, <3>3, <3>4, <3>5, <3>6
  <2>4. (OnStack(references) =>
           /\ Reaches(references.instructions, Len(call.reference))
           /\ references.instructions[Len(references.instructions)].op = Stop)'
    <3>1. OnStack(references)' <=> OnStack(references')
      BY DEF OnStack
    <3>. QED BY <1>1, <2>3, <3>1, Unmoved
  <2>5. CapturesKnown'
    BY <1>1, <2>2, Unmoved
  <2>. QED BY <2>1, <2>4, <2>5 DEF Parsed
<1>8. CASE CompileFails \/ SearchFails \/ Finish
  <2>1. pc' = "done"
    BY <1>8 DEF CompileFails, SearchFails, Fail, Return, Finish
  <2>. QED BY <2>1 DEF Parsed
<1>9. CASE Match \/ SearchEnds \/ Apply
  <2>1. /\ pc \in {"search", "apply"} /\ pc' \in {"search", "apply", "finish"}
        /\ references' = references
    BY <1>9 DEF Match, ApplyFrom, SearchEnds, Apply, EndNothing, CopyPiece, GatherPiece,
                EndConversion, ConvertNextChar, ChangeOp, ApplyEnds, Applying, compileVars
  <2>. QED BY <1>1, <2>1, Unmoved DEF Parsed, OnStack
<1>10. CASE UNCHANGED vars
  <2>1. UNCHANGED <<pc, references, currentRange, referenceIndex>>
    BY <1>10 DEF vars, compileVars
  <2>. QED BY <1>1, <2>1, Unmoved DEF Parsed, OnStack
<1>. QED BY <1>3, <1>4, <1>5, <1>6, <1>7, <1>8, <1>9, <1>10 DEF Next, Compile, Search, Done

-------------------------------------------------------------------------------
(* Searching.                                                              *)

\* Each search begins where the last match ended, what is gathered for a case
\* conversion is gone after the match, and the matches are what was found.
Followed ==
  /\ matches \in Seq(Answers)
  /\ \A i \in DOMAIN matches : Kept(From(i), matches[i][0].location) \in Texts
  /\ pc = "compile" => matches = <<>>
  /\ pc \in {"search", "apply", "finish"} => searchIndex = From(Len(matches) + 1)
  /\ pc = "apply" => Len(matches) # 0 /\ matches[Len(matches)] = matchRanges
  /\ pc # "apply" => conversionString = <<>>

\* Where the searches began does not change with another match.
LEMMA FromUnmoved ==
  ASSUME call' = call, Followed, matches' \in Seq(Answers), Len(matches') >= Len(matches),
         \A i \in 1..Len(matches) : matches'[i] = matches[i]
  PROVE  \A i \in 1..(Len(matches) + 1) : From(i)' = From(i)
<1>. SUFFICES ASSUME NEW i \in 1..(Len(matches) + 1) PROVE From(i)' = From(i)
  OBVIOUS
<1>1. CASE i = 1
  BY <1>1 DEF From
<1>2. CASE i # 1
  <2>1. i - 1 \in 1..Len(matches)
    BY <1>2 DEF Followed
  <2>2. matches'[i - 1] = matches[i - 1]
    BY <2>1
  <2>. QED BY <1>2, <2>2 DEF From
<1>. QED BY <1>1, <1>2

\* A match found is in the range searched (NSString.m:772-784).
LEMMA MatchFollowed ==
  ASSUME IInv, Match
  PROVE  \E ranges \in Answers : ranges[0] \in RangesIn(searchIndex, SearchEnd) /\ ApplyFrom(ranges)
<1>1. CASE SearchRepeated /\ ApplyFrom(matchRanges)
  BY <1>1 DEF SearchRepeated, IInv, TypeOK, InBounds, Answers
<1>2. CASE \E ranges \in Found : ApplyFrom(ranges)
  BY <1>2 DEF Found, Answers, Captures
<1>. QED BY <1>1, <1>2 DEF Match

\* A piece of the subject is a text, and what there is from one place on to
\* another that is not before it.
LEMMA KeptIsText ==
  ASSUME NEW from \in Nat, NEW to \in Nat, from <= to
  PROVE  Kept(from, to) \in Texts
<1>1. to - from \in Nat
  OBVIOUS
<1>2. Slice("subject", MakeRange(from, to - from)) \in Texts
  BY <1>1, SliceJoins
<1>. QED BY <1>2, TextAlgebra DEF Kept

\* Every step follows the matches.
LEMMA FollowedKeeps ==
  ASSUME IInv, Followed, [Next]_vars
  PROVE  Followed'
<1>. DEFINE n == Len(matches)
<1>1. call' = call /\ call \in Calls
  BY DEF IInv, TypeOK, Next, Compile, Search, Apply, CompileDollars, CompileCapture,
       CompileCaseOp,
         CompileText, CompileFails, CompileEnds, Match, SearchEnds, SearchFails, EndNothing,
         CopyPiece, GatherPiece, EndConversion, ConvertNextChar, ChangeOp, ApplyEnds, Finish, Done,
         vars
<1>2. Answers' = Answers /\ n \in Nat
  BY <1>1 DEF Answers, Followed
<1>3. \A from, to : Kept(from, to)' = Kept(from, to)
  BY <1>1 DEF Kept, Replacing
<1>4. ASSUME matches' = matches
      PROVE  /\ (matches \in Seq(Answers))'
             /\ (\A i \in DOMAIN matches : Kept(From(i), matches[i][0].location) \in Texts)'
             /\ From(n + 1)' = From(n + 1)
  <2>1. \A i \in 1..(n + 1) : From(i)' = From(i)
    BY <1>1, <1>2, <1>4, FromUnmoved DEF Followed
  <2>2. DOMAIN matches = 1..n /\ \A i \in 1..n : i \in 1..(n + 1)
    BY <1>2 DEF Followed
  <2>3. \A i \in DOMAIN matches : Kept(From(i), matches[i][0].location)'
                                    = Kept(From(i), matches[i][0].location)
    BY <1>1, <1>3, <1>4, <2>1, <2>2 DEF Kept, Replacing
  <2>. QED BY <1>2, <1>4, <2>1, <2>3 DEF Followed
<1>5. CASE Match
  <2>1. PICK ranges \in Answers : /\ ranges[0] \in RangesIn(searchIndex, SearchEnd)
                                  /\ ApplyFrom(ranges)
    BY <1>5, MatchFollowed
  <2>2. /\ matches' = Append(matches, ranges) /\ matchRanges' = ranges /\ pc' = "apply"
        /\ searchIndex' = ranges[0].location + ranges[0].length /\ searchIndex = From(n + 1)
    BY <1>5, <2>1 DEF ApplyFrom, Followed, Match
  <2>3. /\ matches' \in Seq(Answers) /\ Len(matches') = n + 1 /\ matches'[n + 1] = ranges
        /\ \A i \in 1..n : matches'[i] = matches[i]
    BY <1>2, <2>2 DEF Followed
  <2>4. \A i \in 1..(n + 1) : From(i)' = From(i)
    BY <1>1, <1>2, <2>3, FromUnmoved
  <2>5. \A i \in DOMAIN matches' : Kept(From(i)', matches'[i][0].location) \in Texts
    <3>. SUFFICES ASSUME NEW i \in 1..(n + 1)
                  PROVE  Kept(From(i)', matches'[i][0].location) \in Texts
      BY <2>3
    <3>1. CASE i = n + 1
      <4>1. /\ searchIndex \in Nat /\ ranges[0].location \in Nat
            /\ searchIndex <= ranges[0].location
        <5>1. searchIndex \in Nat /\ SearchEnd \in Nat
          BY <1>1, CallTyped DEF IInv, TypeOK
        <5>2. ranges[0].location \in searchIndex..SearchEnd
          BY <2>1 DEF RangesIn
        <5>. QED BY <5>1, <5>2
      <4>2. From(i)' = searchIndex /\ matches'[i] = ranges
        BY <2>2, <2>3, <2>4, <3>1
      <4>. QED BY <4>1, <4>2, KeptIsText
    <3>2. CASE i # n + 1
      <4>1. i \in DOMAIN matches /\ i \in 1..n
        BY <1>2, <3>2 DEF Followed
      <4>. QED BY <2>3, <2>4, <4>1 DEF Followed
    <3>. QED BY <3>1, <3>2
  <2>6. (\A i \in DOMAIN matches : Kept(From(i), matches[i][0].location) \in Texts)'
    BY <1>3, <2>5
  <2>7. (searchIndex = From(Len(matches) + 1))'
    <3>1. Len(matches') + 1 # 1 /\ (Len(matches') + 1) - 1 = n + 1
      BY <1>2, <2>3
    <3>. QED BY <2>2, <2>3, <3>1 DEF From
  <2>8. (Len(matches) # 0 /\ matches[Len(matches)] = matchRanges)'
    BY <1>2, <2>2, <2>3
  <2>. QED BY <1>2, <2>2, <2>3, <2>6, <2>7, <2>8 DEF Followed
<1>6. CASE CompileEnds
  <2>1. /\ pc = "compile" /\ pc' = "search" /\ searchIndex' = call.range.location
        /\ matches' = matches /\ conversionString' = conversionString
    BY <1>6 DEF CompileEnds, applyVars
  <2>2. matches = <<>> /\ conversionString = <<>>
    BY <2>1 DEF Followed
  <2>3. From(n + 1) = call.range.location
    BY <2>2 DEF From
  <2>4. (searchIndex = From(Len(matches) + 1))'
    BY <1>4, <2>1, <2>3
  <2>. QED BY <1>4, <2>1, <2>2, <2>4 DEF Followed
<1>7. CASE Apply
  <2>1. /\ pc = "apply" /\ UNCHANGED <<matches, matchRanges, searchIndex>>
        /\ pc' = "apply" \/ (pc' = "search" /\ conversionString' = <<>>)
    BY <1>7
         DEF Apply, EndNothing, CopyPiece, GatherPiece, EndConversion,
         ConvertNextChar, ChangeOp,
                ApplyEnds, Applying, searchVars
  <2>. QED BY <1>4, <2>1 DEF Followed
<1>8. CASE CompileDollars \/ CompileCapture \/ CompileCaseOp \/ CompileText \/ CompileFails
           \/ SearchEnds \/ SearchFails \/ Finish
  <2>1. /\ UNCHANGED <<matches, searchIndex, conversionString>>
        /\ pc # "apply" /\ pc' # "apply"
        /\ pc' = "compile" => pc = "compile"
        /\ pc' \in {"search", "finish"} => pc \in {"search", "finish"}
    BY <1>8
         DEF CompileDollars, CompileCapture, CompileCaseOp, CompileText,
         CompileFails, Compiling,
                SearchEnds, SearchFails, Fail, Finish, Return, searchVars, applyVars
  <2>. QED BY <1>4, <2>1 DEF Followed
<1>9. CASE UNCHANGED vars
  <2>1. UNCHANGED <<pc, matches, searchIndex, conversionString, matchRanges>>
    BY <1>9 DEF vars, searchVars, applyVars
  <2>. QED BY <1>4, <2>1 DEF Followed
<1>. QED BY <1>5, <1>6, <1>7, <1>8, <1>9 DEF Next, Compile, Search, Done

-------------------------------------------------------------------------------
(* What should be returned, match by match.                                *)

\* What match i adds, and what there should be after the first n: the text before
\* the range, and what each match adds.  Base is that and the text up to the last
\* match.
Taken(i, expanded) ==
  Kept(From(i), matches[i][0].location) \o (IF expanded THEN Expansion(matches[i]) ELSE <<>>)
Upto(n, expanded) ==
  Kept(0, call.range.location) \o Joined([i \in 1..n |-> Taken(i, expanded)])
Base(expanded) ==
  Upto(Len(matches) - 1, expanded)
    \o Kept(From(Len(matches)), matches[Len(matches)][0].location)

\* A match more is what it adds more.
LEMMA UptoMore ==
  ASSUME call \in Calls, Followed, CapturesKnown, NEW expanded \in BOOLEAN
  PROVE  /\ Upto(0, expanded) = Kept(0, call.range.location)
         /\ \A n \in 0..Len(matches) : Upto(n, expanded) \in Texts
         /\ Expected(expanded)
              = Upto(Len(matches), expanded) \o Kept(From(Len(matches) + 1), call.length)
         /\ Len(matches) # 0 =>
              /\ Base(expanded) \in Texts
              /\ Upto(Len(matches), expanded)
                   = Base(expanded)
                       \o (IF expanded THEN Expansion(matches[Len(matches)]) ELSE <<>>)
<1>. DEFINE m == Len(matches)
            start == Kept(0, call.range.location)
            all(n) == [i \in 1..n |-> Taken(i, expanded)]
            given(i) == IF expanded THEN Expansion(matches[i]) ELSE <<>>
<1>1. matches \in Seq(Answers) /\ m \in Nat /\ DOMAIN matches = 1..m
  BY DEF Followed
<1>2. start \in Texts
  BY CallTyped, KeptIsText
<1>3. ASSUME NEW i \in 1..m
      PROVE  /\ Kept(From(i), matches[i][0].location) \in Texts /\ given(i) \in Texts
             /\ Taken(i, expanded) = Kept(From(i), matches[i][0].location) \o given(i)
             /\ Taken(i, expanded) \in Texts
  <2>1. matches[i] \in Answers
    BY <1>1
  <2>2. Expansion(matches[i]) \in Texts
    <3>1. Len(call.reference) \in 0..Len(call.reference)
      BY CallTyped
    <3>. QED BY <2>1, <3>1, ShownMore
  <2>3. given(i) \in Texts
    BY <2>2, TextAlgebra
  <2>4. Taken(i, expanded) = Kept(From(i), matches[i][0].location) \o given(i)
    BY DEF Taken
  <2>5. Kept(From(i), matches[i][0].location) \in Texts
    BY <1>1 DEF Followed
  <2>. HIDE DEF given
  <2>. QED BY <2>3, <2>4, <2>5, TextAlgebra
<1>4. ASSUME NEW n \in 0..m
      PROVE  /\ all(n) \in Seq(Texts) /\ Len(all(n)) = n
             /\ \A i \in 1..n : all(n)[i] = Taken(i, expanded)
  <2>1. n \in Nat /\ \A i \in 1..n : i \in 1..m
    BY <1>1
  <2>2. \A i \in 1..n : Taken(i, expanded) \in Texts
    BY <1>3, <2>1
  <2>3. all(n) \in [1..n -> Texts]
    BY <2>2
  <2>. QED BY <2>1, <2>3, FunctionIsSeq
<1>5. \A n : Upto(n, expanded) = start \o Joined(all(n))
  BY DEF Upto
<1>6. Upto(0, expanded) = start
  <2>1. 0 \in 0..m
    BY <1>1
  <2>. DEFINE none == all(0)
  <2>2. none \in Seq(Texts) /\ Len(none) = 0
    BY <1>4, <2>1
  <2>. HIDE DEF start, none
  <2>3. Joined(none) = <<>>
    BY <2>2, JoinedMore
  <2>4. Upto(0, expanded) = start \o Joined(none)
    BY <1>5 DEF none
  <2>. QED BY <1>2, <2>3, <2>4, TextAlgebra
<1>7. ASSUME NEW n \in 0..m PROVE Upto(n, expanded) \in Texts
  <2>. DEFINE texts == all(n)
  <2>1. texts \in Seq(Texts)
    BY <1>4
  <2>. HIDE DEF start, texts
  <2>2. Joined(texts) \in Texts
    BY <2>1, JoinedMore
  <2>3. Upto(n, expanded) = start \o Joined(texts)
    BY <1>5 DEF texts
  <2>. QED BY <1>2, <2>2, <2>3, TextAlgebra
<1>8. Expected(expanded) = Upto(m, expanded) \o Kept(From(m + 1), call.length)
  <2>1. all(m) = [i \in DOMAIN matches |->
                    Kept(From(i), matches[i][0].location)
                      \o (IF expanded THEN Expansion(matches[i]) ELSE <<>>)]
    BY <1>1 DEF Taken
  <2>2. m \in 0..m
    BY <1>1
  <2>3. FlattenSeq(all(m)) = Joined(all(m))
    <3>1. all(m) \in Seq(Texts)
      BY <1>4, <2>2
    <3>. HIDE DEF all
    <3>. QED BY <3>1, FlattenJoins
  <2>. QED BY <1>5, <2>1, <2>3 DEF Expected
<1>9. ASSUME m # 0
      PROVE  /\ Base(expanded) \in Texts
             /\ Upto(m, expanded) = Base(expanded) \o given(m)
  <2>. DEFINE k == m - 1
              fewer == all(k)
              more == all(m)
              kept == Kept(From(m), matches[m][0].location)
  <2>1. k \in 0..m /\ m \in 0..m /\ m = k + 1 /\ m \in 1..m /\ \A i \in 1..k : i \in 1..m
    BY <1>1, <1>9
  <2>2. /\ more \in Seq(Texts) /\ fewer \in Seq(Texts) /\ Len(more) = Len(fewer) + 1
        /\ Len(more) = m /\ more[m] = Taken(m, expanded)
        /\ \A i \in 1..Len(fewer) : more[i] = fewer[i]
    BY <1>4, <2>1
  <2>3. Base(expanded) = Upto(k, expanded) \o kept
    BY DEF Base
  <2>4. kept \in Texts /\ given(m) \in Texts /\ Taken(m, expanded) = kept \o given(m)
    BY <1>3, <2>1
  <2>5. /\ Upto(k, expanded) = start \o Joined(fewer) /\ Upto(m, expanded) = start \o Joined(more)
        /\ Upto(k, expanded) \in Texts
    BY <1>5, <1>7, <2>1
  <2>. HIDE DEF m, start, all, given, fewer, more, kept, k
  <2>6. Joined(more) = Joined(fewer) \o Taken(m, expanded) /\ Joined(fewer) \in Texts
    BY <2>2, JoinedMore
  <2>. DEFINE f == Joined(fewer)
              g == given(m)
              u == Upto(k, expanded)
  <2>7. f \in Texts /\ g \in Texts /\ u \in Texts /\ u = start \o f
    BY <2>4, <2>5, <2>6
  <2>8. Upto(m, expanded) = start \o (f \o (kept \o g))
    BY <2>4, <2>5, <2>6
  <2>. HIDE DEF f, g, u
  <2>9. start \o (f \o (kept \o g)) = ((start \o f) \o kept) \o g
    <3>1. kept \o g \in Texts
      BY <2>4, <2>7, TextAlgebra
    <3>2. start \o (f \o (kept \o g)) = (start \o f) \o (kept \o g)
      BY <1>2, <2>7, <3>1, TextAlgebra
    <3>3. u \o (kept \o g) = (u \o kept) \o g
      BY <2>4, <2>7, TextAlgebra
    <3>. QED BY <2>7, <3>2, <3>3
  <2>10. u \o kept \in Texts
    BY <2>4, <2>7, TextAlgebra
  <2>. QED BY <2>3, <2>7, <2>8, <2>9, <2>10 DEF g, u
<1>. QED BY <1>6, <1>7, <1>8, <1>9

\* What there should be after the matches so far does not change with another one.
LEMMA UptoUnmoved ==
  ASSUME call' = call, Followed, matches' \in Seq(Answers), Len(matches') >= Len(matches),
         \A i \in 1..Len(matches) : matches'[i] = matches[i]
  PROVE  \A expanded, n : n \in 0..Len(matches) => Upto(n, expanded)' = Upto(n, expanded)
<1>. SUFFICES ASSUME NEW expanded, NEW n \in 0..Len(matches)
              PROVE  Upto(n, expanded)' = Upto(n, expanded)
  OBVIOUS
<1>1. \A i \in 1..(Len(matches) + 1) : From(i)' = From(i)
  BY FromUnmoved
<1>2. \A from, to : Kept(from, to)' = Kept(from, to)
  BY DEF Kept, Replacing
<1>3. \A ranges : Expansion(ranges)' = Expansion(ranges)
  BY Unmoved
<1>4. ASSUME NEW i \in 1..n PROVE Taken(i, expanded)' = Taken(i, expanded)
  <2>1. i \in 1..Len(matches) /\ i \in 1..(Len(matches) + 1)
    BY DEF Followed
  <2>2. From(i)' = From(i) /\ matches'[i] = matches[i]
    BY <1>1, <2>1
  <2>. QED BY <1>2, <1>3, <2>2 DEF Taken
<1>5. [i \in 1..n |-> Taken(i, expanded)]' = [i \in 1..n |-> Taken(i, expanded)]
  BY <1>4
<1>6. Kept(0, call.range.location)' = Kept(0, call.range.location)
  BY <1>2
<1>. QED BY <1>5, <1>6 DEF Upto

-------------------------------------------------------------------------------
(* Applying the instructions to a match.                                   *)

\* The instructions applied stand for the tokens they end with, what these show
\* has been given to the copy buffer or gathered for \U or \L, and the
\* conversion in force is the one that covers the next token.
Advanced(ends, given) ==
  /\ Laid(references.instructions, ends)
  /\ instructionIndex \in 0..Len(references.instructions)
  /\ lastOp = references.instructions[IF instructionIndex = 0 THEN 1 ELSE instructionIndex].op
  /\ given \in Texts /\ currentOp \in Conversions
  /\ Shown(ends[instructionIndex], matchRanges) = given \o Convert(conversionString, currentOp)
  /\ conversionString # <<>> => currentOp \in BeginOps
  /\ lastOp = Stop => conversionString = <<>>
  /\ lastOp # Stop => currentOp = Covering(ends[instructionIndex] + 1, matchRanges)

\* An instruction that leaves the text and the conversion it should leave.
LEMMA AdvancedNext ==
  ASSUME TypeOK, Applying, NextInstruction, UNCHANGED <<call, references, matchRanges>>,
         NEW ends, NEW given, Advanced(ends, given),
         NEW given2 \in Texts, currentOp' \in Conversions,
         Shown(ends[instructionIndex + 1], matchRanges)
           = given2 \o Convert(conversionString', currentOp'),
         conversionString' # <<>> => currentOp' \in BeginOps,
         AtInstruction.op = Stop => conversionString' = <<>>,
         AtInstruction.op # Stop =>
           currentOp' = Covering(ends[instructionIndex + 1] + 1, matchRanges)
  PROVE  Advanced(ends, given2)'
<1>0. PICK n : n = instructionIndex + 1
  OBVIOUS
<1>1. /\ n \in 1..Len(references.instructions) /\ n \in 0..Len(references.instructions)
      /\ n # 0 /\ instructionIndex' = n /\ lastOp' = AtInstruction.op
      /\ AtInstruction = references.instructions[n]
  BY <1>0 DEF TypeOK, Applying, NextInstruction, AtInstruction
<1>2. Laid(references.instructions, ends)'
  BY Unmoved DEF Advanced
<1>3. Shown(ends[n], matchRanges)' = Shown(ends[n], matchRanges)
  BY Unmoved
<1>4. Covering(ends[n] + 1, matchRanges)' = Covering(ends[n] + 1, matchRanges)
  BY Unmoved
<1>5. (Shown(ends[instructionIndex], matchRanges) = given2 \o Convert(conversionString, currentOp))'
  <2>1. Shown(ends[instructionIndex], matchRanges)' = Shown(ends[n], matchRanges)'
    BY <1>1
  <2>2. Shown(ends[n], matchRanges) = given2 \o Convert(conversionString', currentOp')
    BY <1>0
  <2>. QED BY <1>3, <2>1, <2>2
<1>6. (lastOp # Stop => currentOp = Covering(ends[instructionIndex] + 1, matchRanges))'
  <2>1. Covering(ends[instructionIndex] + 1, matchRanges)' = Covering(ends[n] + 1, matchRanges)'
    BY <1>1
  <2>. QED BY <1>0, <1>1, <1>4, <2>1
<1>7. (lastOp = references.instructions[IF instructionIndex = 0 THEN 1 ELSE instructionIndex].op)'
  BY <1>1
<1>8. (lastOp = Stop => conversionString = <<>>)'
  BY <1>1
<1>9. (given2 \in Texts)'
  BY DEF Texts
<1>. QED BY <1>1, <1>2, <1>5, <1>6, <1>7, <1>8, <1>9 DEF Advanced

\* What the next instruction stands for.
LEMMA NextShown ==
  ASSUME TypeOK, Applying, CapturesKnown, ~EmptyUnderCase(matchRanges),
         NEW ends, NEW given, Advanced(ends, given)
  PROVE  LET after == Shown(ends[instructionIndex + 1], matchRanges)
             covering == Covering(ends[instructionIndex + 1] + 1, matchRanges)
             converted == Convert(conversionString, currentOp) IN
         /\ given \in Texts /\ converted \in Texts /\ conversionString \in Texts
         /\ currentOp \in Conversions
         /\ conversionString # <<>> => currentOp \in BeginOps
         /\ AtInstruction.op \in CaseOps \cup {CopyRange, CopyCaptureIndex, Stop}
         /\ AtInstruction.op \in CaseOps =>
              /\ after = given \o converted
              /\ covering = IF AtInstruction.op = ChangeCaseEnd THEN NoOp ELSE AtInstruction.op
         /\ AtInstruction.op \in {CopyRange, CopyCaptureIndex} =>
              /\ Piece \in Texts
              /\ after = (given \o converted) \o Cased(Piece, currentOp)
              /\ covering = IF Piece # <<>> /\ currentOp \in NextCharOps THEN NoOp ELSE currentOp
              /\ Piece = <<>> => currentOp = NoOp
         /\ AtInstruction.op = Stop => after = given \o converted /\ Piece = <<>>
<1>. DEFINE i == AtInstruction
            n == instructionIndex + 1
            from == ends[instructionIndex]
            to == ends[n]
<1>1. /\ n \in 1..Len(references.instructions) /\ n - 1 = instructionIndex
      /\ instructionIndex \in 0..Len(references.instructions)
      /\ i = references.instructions[n] /\ i \in Instructions /\ lastOp # Stop
      /\ call \in Calls /\ matchRanges \in Answers /\ conversionString \in Texts
  BY DEF TypeOK, Applying, AtInstruction, Answers
<1>2. Stands(i, from, to) /\ from \in 0..Len(call.reference)
  BY <1>1 DEF Advanced, Laid
<1>3. /\ Shown(from, matchRanges) = given \o Convert(conversionString, currentOp)
      /\ currentOp = Covering(from + 1, matchRanges) /\ currentOp \in Conversions
      /\ given \in Texts
      /\ conversionString # <<>> => currentOp \in BeginOps
  BY <1>1 DEF Advanced
<1>4. Convert(conversionString, currentOp) \in Texts
  BY <1>1, ConvertIsText
<1>5. Piece = Gives(i, matchRanges)
  BY DEF Piece, Gives
<1>6. i.op = Stop => Piece = <<>> /\ to = from
  BY <1>2, OpsDiffer DEF Piece, Stands
<1>7. i.op \in CaseOps \cup {CopyRange, CopyCaptureIndex, Stop}
  BY <1>2 DEF Stands
<1>8. i.op = CopyRange => Piece # <<>>
  BY <1>1, <1>2, <1>5, InstructionShown
<1>. HIDE DEF i, n, from, to
<1>9. from \in Nat
  BY <1>2, CallTyped, <1>1
<1>10. i.op \in CaseOps =>
         /\ Shown(to, matchRanges) = Shown(from, matchRanges)
         /\ Covering(to + 1, matchRanges) = IF i.op = ChangeCaseEnd THEN NoOp ELSE i.op
  BY <1>1, <1>2, <1>9, InstructionShown
<1>11. i.op \in {CopyRange, CopyCaptureIndex} =>
         /\ Piece \in Texts
         /\ Shown(to, matchRanges) = Shown(from, matchRanges) \o Cased(Piece, currentOp)
         /\ Covering(to + 1, matchRanges)
              = IF Piece # <<>> /\ currentOp \in NextCharOps THEN NoOp ELSE currentOp
         /\ Piece = <<>> => currentOp = NoOp
  <2>. SUFFICES ASSUME i.op \in {CopyRange, CopyCaptureIndex}
                PROVE  /\ Piece \in Texts
                       /\ Shown(to, matchRanges) = Shown(from, matchRanges) \o Cased(Piece, currentOp)
                       /\ Covering(to + 1, matchRanges)
                            = IF Piece # <<>> /\ currentOp \in NextCharOps THEN NoOp ELSE currentOp
                       /\ Piece = <<>> => currentOp = NoOp
    OBVIOUS
  <2>. DEFINE text == Gives(i, matchRanges)
              op == Covering(from + 1, matchRanges)
  <2>1. /\ text \in Texts
        /\ Shown(to, matchRanges) = Shown(from, matchRanges) \o Cased(text, op)
        /\ Covering(to + 1, matchRanges) = IF text # <<>> /\ op \in NextCharOps THEN NoOp ELSE op
    BY <1>1, <1>2, <1>9, InstructionShown
  <2>2. i.op = CopyCaptureIndex /\ text = <<>> => op = NoOp
    BY <1>1, <1>2, <1>9, InstructionShown
  <2>. HIDE DEF text, op
  <2>3. Piece = text /\ currentOp = op
    BY <1>3, <1>5 DEF text, op
  <2>. QED BY <1>8, <2>1, <2>2, <2>3
<1>. DEFINE after == Shown(to, matchRanges)
            before == Shown(from, matchRanges)
            covering == Covering(to + 1, matchRanges)
            converted == Convert(conversionString, currentOp)
<1>12. before = given \o converted /\ (i.op = Stop => after = before)
  BY <1>3, <1>6
<1>. HIDE DEF after, before, covering, converted
<1>13. /\ i.op \in CaseOps => /\ after = given \o converted
                              /\ covering = IF i.op = ChangeCaseEnd THEN NoOp ELSE i.op
       /\ i.op \in {CopyRange, CopyCaptureIndex} =>
            /\ Piece \in Texts
            /\ after = (given \o converted) \o Cased(Piece, currentOp)
            /\ covering = IF Piece # <<>> /\ currentOp \in NextCharOps THEN NoOp ELSE currentOp
            /\ Piece = <<>> => currentOp = NoOp
       /\ i.op = Stop => after = given \o converted /\ Piece = <<>>
  BY <1>6, <1>10, <1>11, <1>12 DEF after, before, covering
<1>14. /\ given \in Texts /\ converted \in Texts /\ conversionString \in Texts
       /\ currentOp \in Conversions
       /\ conversionString # <<>> => currentOp \in BeginOps
       /\ i.op \in CaseOps \cup {CopyRange, CopyCaptureIndex, Stop}
  BY <1>1, <1>3, <1>4, <1>7 DEF converted
<1>15. /\ after = Shown(ends[instructionIndex + 1], matchRanges)
       /\ covering = Covering(ends[instructionIndex + 1] + 1, matchRanges)
       /\ converted = Convert(conversionString, currentOp) /\ i = AtInstruction
  BY DEF i, n, to, after, covering, converted
<1>. QED BY <1>13, <1>14, <1>15

\* An instruction appends what it completes, and no more, and keeps the rest for
\* the conversion that is gathered (NSString.m:900-990).
LEMMA ApplyAdvances ==
  ASSUME IInv, Copied(copies), CapturesKnown, ~EmptyUnderCase(matchRanges),
         NEW base \in Texts, NEW ends, NEW given, Advanced(ends, given),
         Keeps(copies, base \o given),
         Apply, ~ApplyEnds
  PROVE  \E more \in Texts : Advanced(ends, more)' /\ Keeps(copies', base \o more)
<1>1. /\ TypeOK /\ Applying /\ NextInstruction
      /\ call' = call /\ references' = references /\ matchRanges' = matchRanges
  BY DEF IInv, Apply, EndNothing, CopyPiece, GatherPiece, EndConversion,
       ConvertNextChar, ChangeOp,
         searchVars, compileVars
<1>2. /\ copies \in CopyBuffers /\ ~Full(copies)
  BY DEF IInv, TypeOK, InBounds, CopyBuffers, Full
<1>3. PICK after, covering, converted, piece, gathered, op, this :
        /\ after = Shown(ends[instructionIndex + 1], matchRanges)
        /\ covering = Covering(ends[instructionIndex + 1] + 1, matchRanges)
        /\ converted = Convert(conversionString, currentOp)
        /\ piece = Piece /\ gathered = conversionString /\ op = currentOp /\ this = AtInstruction.op
  OBVIOUS
<1>4. /\ given \in Texts /\ converted \in Texts /\ gathered \in Texts /\ op \in Conversions
      /\ gathered # <<>> => op \in BeginOps
      /\ this \in CaseOps \cup {CopyRange, CopyCaptureIndex, Stop}
      /\ this \in CaseOps => /\ after = given \o converted
                             /\ covering = IF this = ChangeCaseEnd THEN NoOp ELSE this
      /\ this \in {CopyRange, CopyCaptureIndex} =>
           /\ piece \in Texts
           /\ after = (given \o converted) \o Cased(piece, op)
           /\ covering = IF piece # <<>> /\ op \in NextCharOps THEN NoOp ELSE op
           /\ piece = <<>> => op = NoOp
      /\ this = Stop => after = given \o converted /\ piece = <<>>
  BY <1>1, <1>3, NextShown
<1>5. /\ this \in CaseOps => ThisOp = this
      /\ this \notin CaseOps => ThisOp = NoOp
  BY <1>3 DEF ThisOp
<1>. DEFINE gatheredConverted == Convert(gathered, op)
<1>3a. converted = gatheredConverted
  BY <1>3
<1>6. ASSUME gathered = <<>> PROVE converted = <<>> /\ given \o converted = given
  <2>1. Convert(<<>>, op) = <<>>
    BY ConvertJoins, TextAlgebra
  <2>2. converted = <<>>
    BY <1>3a, <1>6, <2>1
  <2>. QED BY <1>4, <2>2, TextAlgebra
<1>7. ASSUME NEW more \in Texts, Keeps(copies', base \o more),
             currentOp' \in Conversions,
             after = more \o Convert(conversionString', currentOp'),
             conversionString' # <<>> => currentOp' \in BeginOps,
             this = Stop => conversionString' = <<>>,
             this # Stop => currentOp' = covering
      PROVE  \E more2 \in Texts : Advanced(ends, more2)' /\ Keeps(copies', base \o more2)
  <2>1. Advanced(ends, more)'
    BY <1>1, <1>3, <1>7, AdvancedNext
  <2>. QED BY <1>7, <2>1
<1>8. ASSUME NEW text \in Texts, NEW o PROVE text \o Convert(<<>>, o) = text
  <2>1. Convert(<<>>, o) = <<>>
    BY ConvertJoins, TextAlgebra
  <2>. QED BY <2>1, TextAlgebra
<1>9. NoOp \in Conversions /\ BeginOps \subseteq Conversions /\ NoOp \notin BeginOps
  BY OpsDiffer DEF Conversions
<1>10. CASE EndNothing
  <2>1. this = ChangeCaseEnd /\ (op = NoOp \/ gathered = <<>>)
    BY <1>3, <1>5, <1>10, OpsDiffer DEF EndNothing, EndsNothing
  <2>2. this \in CaseOps /\ this # Stop /\ gathered = <<>>
    BY <1>4, <1>9, <2>1, OpsDiffer
  <2>3. currentOp' = NoOp /\ conversionString' = <<>> /\ copies' = copies
    BY <1>3, <1>10, <2>2 DEF EndNothing
  <2>4. covering = NoOp /\ after = given
    BY <1>4, <1>6, <2>1, <2>2
  <2>5. after = given \o Convert(conversionString', currentOp')
    BY <1>4, <1>8, <2>3, <2>4
  <2>. QED BY <1>4, <1>7, <1>9, <2>2, <2>3, <2>4, <2>5
<1>11. CASE CopyPiece
  <2>1. ThisOp = NoOp /\ piece # <<>> /\ op = NoOp
    BY <1>3, <1>11 DEF CopyPiece, HasPiece
  <2>2. this \in {CopyRange, CopyCaptureIndex} /\ this # Stop /\ gathered = <<>>
    BY <1>4, <1>5, <1>9, <2>1, OpsDiffer
  <2>3. /\ currentOp' = NoOp /\ conversionString' = <<>>
        /\ copies' = AppendCopyInstruction(copies, piece)
    BY <1>3, <1>11, <2>1, <2>2 DEF CopyPiece
  <2>4. piece \in Texts /\ given \o piece \in Texts
    BY <1>4, <2>2, TextAlgebra
  <2>5. covering = NoOp /\ after = given \o piece
    BY <1>4, <1>6, <2>1, <2>2, CasedTexts
  <2>6. after = (given \o piece) \o Convert(conversionString', currentOp')
    BY <1>8, <2>3, <2>4, <2>5
  <2>7. Keeps(copies', base \o (given \o piece))
    <3>1. Keeps(copies', (base \o given) \o piece)
      BY <1>2, <2>3, <2>4, AppendCopyKeeps
    <3>. QED BY <1>4, <2>4, <3>1, TextAlgebra
  <2>. QED BY <1>7, <1>9, <2>2, <2>3, <2>4, <2>5, <2>6, <2>7
<1>12. CASE GatherPiece
  <2>1. ThisOp = NoOp /\ piece # <<>> /\ op \in BeginOps
    BY <1>3, <1>12 DEF GatherPiece, HasPiece
  <2>2. this \in {CopyRange, CopyCaptureIndex} /\ this # Stop
    BY <1>4, <1>5, <1>9, <2>1, OpsDiffer
  <2>3. currentOp' = op /\ conversionString' = gathered \o piece /\ copies' = copies
    BY <1>3, <1>12 DEF GatherPiece
  <2>4. piece \in Texts
    BY <1>4, <2>2
  <2>5. covering = op
    BY <1>4, <2>1, <2>2, OpsDiffer
  <2>6. after = given \o Convert(conversionString', currentOp')
    <3>1. Cased(piece, op) = Convert(piece, op) /\ Convert(piece, op) \in Texts
      BY <1>4, <2>1, <2>4, CasedTexts, ConvertJoins
    <3>2. Convert(gathered \o piece, op) = converted \o Convert(piece, op)
      <4>1. gathered \in Texts /\ piece \in Texts
        BY <1>4, <2>4
      <4>2. Convert(gathered \o piece, op) = gatheredConverted \o Convert(piece, op)
        BY <4>1, ConvertJoins
      <4>. HIDE DEF gatheredConverted
      <4>. QED BY <1>3a, <4>2
    <3>3. after = (given \o converted) \o Convert(piece, op)
      BY <1>4, <2>2, <3>1
    <3>4. Convert(conversionString', currentOp') = converted \o Convert(piece, op)
      BY <2>3, <3>2
    <3>. DEFINE c == Convert(piece, op)
    <3>. HIDE DEF c
    <3>5. (given \o converted) \o c = given \o (converted \o c)
      BY <1>4, <3>1, TextAlgebra DEF c
    <3>. QED BY <3>3, <3>4, <3>5 DEF c
  <2>. QED BY <1>4, <1>7, <2>1, <2>2, <2>3, <2>5, <2>6
<1>13. CASE EndConversion
  <2>1. /\ op \in BeginOps /\ ThisOp # op /\ (ThisOp # NoOp \/ this = Stop)
        /\ currentOp' = (IF ThisOp = ChangeCaseEnd THEN NoOp ELSE ThisOp)
        /\ conversionString' = <<>> /\ copies' = AppendCopyInstruction(copies, converted)
    BY <1>3, <1>13 DEF EndConversion, EndsConversion
  <2>2. this \in CaseOps \/ this = Stop
    BY <1>5, <2>1
  <2>3. after = given \o converted /\ given \o converted \in Texts
    BY <1>4, <2>2, TextAlgebra
  <2>4. currentOp' \in Conversions /\ (this # Stop => currentOp' = covering)
    <3>1. CASE this = Stop
      <4>1. ThisOp = NoOp
        BY <1>5, <3>1, OpsDiffer
      <4>2. currentOp' = NoOp
        BY <2>1, <4>1
      <4>. QED BY <1>9, <3>1, <4>2
    <3>2. CASE this \in CaseOps
      <4>1. ThisOp = this
        BY <1>5, <3>2
      <4>2. currentOp' = covering
        BY <1>4, <2>1, <3>2, <4>1
      <4>3. currentOp' \in Conversions
        BY <1>9, <2>1, <3>2, <4>1, OpsDiffer DEF Conversions
      <4>. QED BY <4>2, <4>3
    <3>. QED BY <2>2, <3>1, <3>2
  <2>5. after = (given \o converted) \o Convert(conversionString', currentOp')
    BY <1>8, <2>1, <2>3
  <2>6. Keeps(copies', base \o (given \o converted))
    <3>1. Keeps(copies', (base \o given) \o converted)
      BY <1>2, <1>4, <2>1, AppendCopyKeeps
    <3>. QED BY <1>4, <3>1, TextAlgebra
  <2>. QED BY <1>7, <2>1, <2>3, <2>4, <2>5, <2>6
<1>14. CASE ConvertNextChar
  <2>. DEFINE first == Convert(<<Head(piece)>>, op)
              rest == Tail(piece)
  <2>1. ThisOp = NoOp /\ piece # <<>> /\ op \in NextCharOps
    BY <1>3, <1>14 DEF ConvertNextChar, HasPiece
  <2>2. this \in {CopyRange, CopyCaptureIndex} /\ this # Stop /\ gathered = <<>>
    BY <1>4, <1>5, <1>9, <2>1, OpsDiffer
  <2>3. /\ currentOp' = NoOp /\ conversionString' = <<>>
        /\ copies' = AppendCopyInstruction(AppendCopyInstruction(copies, first), rest)
    BY <1>3, <1>14, <2>2 DEF ConvertNextChar
  <2>4. piece \in Texts /\ first \in Texts /\ rest \in Texts
    BY <1>4, <2>1, <2>2, PartsAreTexts, ConvertIsText
  <2>5. covering = NoOp /\ Cased(piece, op) = first \o rest
    BY <1>4, <2>1, <2>2, <2>4, CasedTexts
  <2>6. after = given \o (first \o rest)
    BY <1>4, <1>6, <2>2, <2>5
  <2>. HIDE DEF first, rest
  <2>7. first \o rest \in Texts /\ given \o (first \o rest) \in Texts
    BY <1>4, <2>4, TextAlgebra
  <2>8. after = (given \o (first \o rest)) \o Convert(conversionString', currentOp')
    BY <1>8, <2>3, <2>6, <2>7
  <2>9. Keeps(copies', base \o (given \o (first \o rest)))
    <3>. DEFINE once == AppendCopyInstruction(copies, first)
    <3>1. Keeps(once, (base \o given) \o first)
      BY <1>2, <2>4, AppendCopyKeeps
    <3>2. once \in CopyBuffers /\ Copied(once)
      BY <1>2, <2>4, AppendCopyFits, AppendCopyCounts
    <3>3. copies' = AppendCopyInstruction(once, rest)
      BY <2>3
    <3>. HIDE DEF once
    <3>4. Keeps(copies', ((base \o given) \o first) \o rest)
      BY <2>4, <3>1, <3>2, <3>3, AppendCopyKeeps
    <3>5. base \o given \in Texts
      BY <1>4, TextAlgebra
    <3>6. ((base \o given) \o first) \o rest = (base \o given) \o (first \o rest)
      BY <2>4, <3>5, TextAlgebra
    <3>7. (base \o given) \o (first \o rest) = base \o (given \o (first \o rest))
      BY <1>4, <2>7, TextAlgebra
    <3>. QED BY <3>4, <3>6, <3>7
  <2>. QED BY <1>7, <1>9, <2>2, <2>3, <2>5, <2>7, <2>8, <2>9
<1>15. CASE ChangeOp
  <2>1. /\ ~EndsNothing /\ ~EndsConversion /\ currentOp' = ThisOp
        /\ conversionString' = gathered /\ copies' = copies
        /\ ~HasPiece \/ op = ChangeCaseEnd
    BY <1>3, <1>15 DEF ChangeOp
  <2>2. op # ChangeCaseEnd
    BY <1>4, OpsDiffer DEF Conversions
  <2>3. CASE this \in CaseOps
    <3>1. this # ChangeCaseEnd
      <4>. SUFFICES ASSUME this = ChangeCaseEnd PROVE FALSE
        OBVIOUS
      <4>1. ThisOp = ChangeCaseEnd /\ op # NoOp /\ gathered # <<>>
        BY <1>3, <1>5, <2>1, <2>2, <2>3 DEF EndsNothing
      <4>2. op \in BeginOps /\ ThisOp # op /\ ThisOp # NoOp
        BY <1>4, <2>2, <4>1, OpsDiffer
      <4>. QED BY <1>3, <2>1, <4>2 DEF EndsConversion
    <3>2. currentOp' = this /\ this \in Conversions /\ this # Stop /\ covering = this
      BY <1>4, <1>5, <2>1, <2>3, <3>1, OpsDiffer DEF Conversions
    <3>3. gathered # <<>> => this = op
      <4>. SUFFICES ASSUME gathered # <<>>, this # op PROVE FALSE
        OBVIOUS
      <4>1. ThisOp = this /\ this # NoOp
        BY <1>5, <2>3, OpsDiffer
      <4>. QED BY <1>3, <1>4, <2>1, <4>1 DEF EndsConversion
    <3>4. after = given \o Convert(conversionString', currentOp')
      <4>1. CASE gathered = <<>>
        BY <1>4, <1>6, <1>8, <2>1, <2>3, <4>1
      <4>2. CASE gathered # <<>>
        <5>1. converted = Convert(conversionString', currentOp')
          BY <1>3, <2>1, <3>2, <3>3, <4>2
        <5>. QED BY <1>4, <2>3, <5>1
      <4>. QED BY <4>1, <4>2
    <3>5. conversionString' # <<>> => currentOp' \in BeginOps
      BY <1>4, <2>1, <3>2, <3>3
    <3>. QED BY <1>4, <1>7, <2>1, <3>2, <3>4, <3>5
  <2>4. CASE this \notin CaseOps
    <3>1. ThisOp = NoOp /\ currentOp' = NoOp /\ piece = <<>>
      BY <1>3, <1>5, <2>1, <2>2, <2>4 DEF HasPiece
    <3>2. gathered = <<>>
      <4>1. CASE this = Stop
        <5>1. op \notin BeginOps
          BY <1>3, <1>9, <2>1, <3>1, <4>1 DEF EndsConversion
        <5>. QED BY <1>4, <5>1
      <4>2. CASE this # Stop
        <5>1. op = NoOp
          BY <1>4, <2>4, <3>1, <4>2
        <5>. QED BY <1>4, <1>9, <5>1
      <4>. QED BY <4>1, <4>2
    <3>3. after = given
      <4>1. CASE this = Stop
        BY <1>4, <1>6, <3>2, <4>1
      <4>2. CASE this # Stop
        <5>1. this \in {CopyRange, CopyCaptureIndex}
          BY <1>4, <2>4, <4>2
        <5>2. Cased(piece, op) = <<>>
          BY <1>4, <3>1, TextAlgebra, CasedTexts
        <5>. QED BY <1>4, <1>6, <3>2, <5>1, <5>2, TextAlgebra
      <4>. QED BY <4>1, <4>2
    <3>4. this # Stop => covering = NoOp
      BY <1>4, <2>4, <3>1
    <3>5. after = given \o Convert(conversionString', currentOp')
      BY <1>4, <1>8, <2>1, <3>2, <3>3
    <3>. QED BY <1>4, <1>7, <1>9, <2>1, <3>1, <3>2, <3>4, <3>5
  <2>. QED BY <2>3, <2>4
<1>. QED BY <1>10, <1>11, <1>12, <1>13, <1>14, <1>15 DEF Apply

-------------------------------------------------------------------------------
(* The new string.                                                         *)

\* What the copy buffer keeps is, after the given matches, what should be returned
\* up to there; while one is applied, the text up to it and what its instructions
\* have given so far; and in the end all of it.  Without the first reference
\* instructions nothing is given for a match.
SoFar ==
  Converts =>
    /\ pc = "compile" => Keeps(copies, <<>>)
    /\ pc \in {"search", "finish"} => Keeps(copies, Upto(Len(matches), OnStack(references)))
    /\ pc = "apply" /\ OnStack(references) =>
         \E ends : \E given \in Texts :
            Advanced(ends, given) /\ Keeps(copies, Base(TRUE) \o given)
    /\ pc = "apply" /\ ~OnStack(references) => Keeps(copies, Base(FALSE))
    /\ Returned => /\ result = Joined(copies.instructions)
                   /\ Keeps(copies, Expected(OnStack(references)))

\* Where neither the call nor its matches change, nothing changes that is said of
\* what should be returned.
LEMMA ExpectedUnmoved ==
  ASSUME UNCHANGED <<call, matches>>
  PROVE  /\ \A expanded : /\ Expected(expanded)' = Expected(expanded)
                          /\ Base(expanded)' = Base(expanded)
                          /\ \A n : Upto(n, expanded)' = Upto(n, expanded)
         /\ Converts' = Converts
<1>1. \A i : From(i)' = From(i)
  BY DEF From
<1>2. \A from, to : Kept(from, to)' = Kept(from, to)
  BY DEF Kept, Replacing
<1>3. \A ranges : /\ Expansion(ranges)' = Expansion(ranges)
                  /\ EmptyUnderCase(ranges)' = EmptyUnderCase(ranges)
  BY Unmoved
<1>4. \A i, expanded : Taken(i, expanded)' = Taken(i, expanded)
  BY <1>1, <1>2, <1>3 DEF Taken
<1>5. \A n, expanded : Upto(n, expanded)' = Upto(n, expanded)
  BY <1>2, <1>4 DEF Upto
<1>6. \A expanded : Base(expanded)' = Base(expanded)
  BY <1>1, <1>2, <1>5 DEF Base
<1>7. \A expanded : Expected(expanded)' = Expected(expanded)
  BY <1>1, <1>2, <1>3 DEF Expected
<1>8. Converts' = Converts
  BY <1>3 DEF Converts
<1>. QED BY <1>5, <1>6, <1>7, <1>8

\* And nothing of the instructions applied.
LEMMA AdvancedUnmoved ==
  ASSUME NEW ends, NEW given, Advanced(ends, given),
         UNCHANGED <<call, references, instructionIndex, lastOp, currentOp, conversionString,
                     matchRanges>>
  PROVE  Advanced(ends, given)'
<1>1. Laid(references.instructions, ends)'
  BY Unmoved DEF Advanced
<1>2. Shown(ends[instructionIndex], matchRanges)' = Shown(ends[instructionIndex], matchRanges)
  BY Unmoved
<1>3. Covering(ends[instructionIndex] + 1, matchRanges)'
        = Covering(ends[instructionIndex] + 1, matchRanges)
  BY Unmoved
<1>. QED BY <1>1, <1>2, <1>3 DEF Advanced

\* A piece of the subject is copied only to replace, and so it is kept.
LEMMA KeptIsKept ==
  ASSUME copies \in CopyBuffers, Copied(copies), NEW all, Keeps(copies, all),
         NEW from \in Nat, NEW to \in Nat, from <= to,
         copies' = IF Replacing
                   THEN AppendCopyInstruction(copies, Slice("subject", MakeRange(from, to - from)))
                   ELSE copies
  PROVE  Keeps(copies', all \o Kept(from, to))
<1>. DEFINE text == Slice("subject", MakeRange(from, to - from))
<1>1. text \in Texts
  <2>1. to - from \in Nat
    OBVIOUS
  <2>. QED BY <2>1, SliceJoins
<1>. HIDE DEF text
<1>2. CASE Replacing
  <2>1. copies' = AppendCopyInstruction(copies, text) /\ Kept(from, to) = text
    BY <1>2 DEF Kept, text
  <2>. QED BY <1>1, <2>1, AppendCopyKeeps
<1>3. CASE ~Replacing
  <2>1. Kept(from, to) = <<>> /\ copies' = copies /\ all \in Texts
    BY <1>3 DEF Kept, Keeps
  <2>2. all \o Kept(from, to) = all
    BY <2>1, TextAlgebra
  <2>. QED BY <2>1, <2>2
<1>. QED BY <1>2, <1>3

\* A match found: the text up to it is kept, and none of its instructions is
\* applied (NSString.m:772-784).
LEMMA MatchSoFar ==
  ASSUME IInv, Copied(copies), Parsed, Followed, SoFar, Match, Converts'
  PROVE  SoFar'
<1>. DEFINE n == Len(matches)
            e == OnStack(references)
<1>1. PICK ranges \in Answers : /\ ranges[0] \in RangesIn(searchIndex, SearchEnd)
                                /\ ApplyFrom(ranges)
  BY MatchFollowed
<1>2. /\ matches' = Append(matches, ranges) /\ matchRanges' = ranges /\ searchIndex = From(n + 1)
      /\ pc = "search" /\ pc' = "apply" /\ call' = call /\ references' = references
      /\ instructionIndex' = 0 /\ currentOp' = NoOp /\ conversionString' = <<>>
      /\ lastOp' = references.instructions[1].op
      /\ matches \in Seq(Answers) /\ n \in Nat /\ CapturesKnown /\ call \in Calls
      /\ e => Reaches(references.instructions, Len(call.reference))
  BY <1>1 DEF ApplyFrom, Followed, Parsed, Match, compileVars, IInv, TypeOK
<1>3. /\ matches' \in Seq(Answers) /\ Len(matches') = n + 1 /\ matches'[n + 1] = ranges
      /\ \A i \in 1..n : matches'[i] = matches[i]
  BY <1>2
<1>4. Converts
  <2>1. \A i \in 1..n : i \in 1..(n + 1)
    BY <1>2
  <2>2. DOMAIN matches = 1..n /\ DOMAIN matches' = 1..(n + 1)
    BY <1>2, <1>3
  <2>3. \A r : EmptyUnderCase(r)' = EmptyUnderCase(r)
    BY <1>2, Unmoved
  <2>4. (\A i \in DOMAIN matches : ~EmptyUnderCase(matches[i]))'
    BY DEF Converts
  <2>. QED BY <1>3, <2>1, <2>2, <2>3, <2>4 DEF Converts
<1>5. Keeps(copies, Upto(n, e))
  BY <1>2, <1>4 DEF SoFar
<1>6. /\ searchIndex \in Nat /\ ranges[0].location \in Nat /\ searchIndex <= ranges[0].location
  <2>1. searchIndex \in Nat /\ SearchEnd \in Nat
    BY <1>2, CallTyped DEF IInv, TypeOK
  <2>2. ranges[0].location \in searchIndex..SearchEnd
    BY <1>1 DEF RangesIn
  <2>. QED BY <2>1, <2>2
<1>. DEFINE kept == Kept(searchIndex, ranges[0].location)
<1>7. Keeps(copies', Upto(n, e) \o kept)
  <2>1. copies \in CopyBuffers
    BY DEF IInv, TypeOK, CopyBuffers
  <2>2. copies' = IF Replacing
                  THEN AppendCopyInstruction(copies, Slice("subject",
                         MakeRange(searchIndex, ranges[0].location - searchIndex)))
                  ELSE copies
    BY <1>1 DEF ApplyFrom
  <2>. DEFINE all == Upto(n, e)
  <2>. HIDE DEF all
  <2>3. Keeps(copies, all)
    BY <1>5 DEF all
  <2>4. Keeps(copies', all \o kept)
    BY <1>6, <2>1, <2>2, <2>3, KeptIsKept
  <2>. QED BY <2>4 DEF all
<1>8. ASSUME NEW expanded PROVE Base(expanded)' = Upto(n, expanded) \o kept
  <2>0. PICK m : m = n
    OBVIOUS
  <2>1. Len(matches') >= n /\ Len(matches') - 1 = m /\ m \in 0..n /\ m + 1 \in 1..(n + 1)
    BY <1>2, <1>3, <2>0
  <2>2. Upto(m, expanded)' = Upto(m, expanded)
    BY <1>2, <1>3, <2>1, UptoUnmoved
  <2>3. From(m + 1)' = From(m + 1)
    BY <1>2, <1>3, <2>1, FromUnmoved
  <2>4. From(m + 1)' = searchIndex /\ Len(matches') = m + 1 /\ matches'[m + 1] = ranges
    BY <1>2, <1>3, <2>0, <2>3
  <2>6. Base(expanded)' = Upto(m, expanded)' \o Kept(From(m + 1), matches[m + 1][0].location)'
    BY <2>1, <2>4 DEF Base
  <2>7. Kept(From(m + 1), matches[m + 1][0].location)' = kept
    <3>1. \A from, to : Kept(from, to)' = Kept(from, to)
      BY <1>2 DEF Kept, Replacing
    <3>. QED BY <2>4, <3>1
  <2>8. Upto(m, expanded) = Upto(n, expanded)
    BY <2>0
  <2>. HIDE DEF kept, n
  <2>. QED BY <2>2, <2>6, <2>7, <2>8
<1>9. OnStack(references') = e /\ OnStack(references)' = e
  BY <1>2 DEF OnStack
<1>10. (~OnStack(references) => Keeps(copies, Base(FALSE)))'
  <2>. SUFFICES ASSUME ~e PROVE Keeps(copies', Base(FALSE)')
    BY <1>9
  <2>1. e = FALSE
    OBVIOUS
  <2>2. Keeps(copies', Upto(n, FALSE) \o kept)
    BY <1>7, <2>1
  <2>3. Base(FALSE)' = Upto(n, FALSE) \o kept
    BY <1>8
  <2>. QED BY <2>2, <2>3
<1>11. ASSUME e PROVE (\E ends : \E given \in Texts :
                          Advanced(ends, given) /\ Keeps(copies, Base(TRUE) \o given))'
  <2>1. PICK ends : Laid(references.instructions, ends)
    BY <1>2, <1>11 DEF Reaches
  <2>2. ends[0] = 0
    BY <2>1 DEF Laid
  <2>3. Shown(0, ranges) = <<>>
    BY <1>2, ShownMore
  <2>4. Covering(0 + 1, ranges) = NoOp
    <3>1. CaseOpsBefore(1) = {}
      BY DEF CaseOpsBefore
    <3>. QED BY <3>1 DEF LastCaseOp, Covering
  <2>5. Shown(0, ranges)' = <<>> /\ Covering(0 + 1, ranges)' = NoOp
    BY <1>2, <2>3, <2>4, Unmoved
  <2>6. Laid(references.instructions, ends)'
    BY <1>2, <2>1, Unmoved
  <2>7. Shown(ends[instructionIndex], matchRanges)' = Shown(0, ranges)'
        /\ Covering(ends[instructionIndex] + 1, matchRanges)' = Covering(0 + 1, ranges)'
    BY <1>2, <2>2
  <2>8. Convert(conversionString', currentOp') = <<>> /\ <<>> \o <<>> = <<>> /\ <<>> \in Texts
    BY <1>2, ConvertJoins, TextAlgebra
  <2>9. Len(references.instructions) \in Nat
    BY DEF IInv, TypeOK
  <2>10. Advanced(ends, <<>>)'
    <3>1. instructionIndex' \in 0..Len(references'.instructions)
      BY <1>2, <2>9
    <3>2. lastOp' = references'.instructions[IF instructionIndex' = 0 THEN 1 ELSE instructionIndex'].op
      BY <1>2
    <3>3. Shown(ends[instructionIndex], matchRanges)' = <<>> \o Convert(conversionString', currentOp')
      BY <2>5, <2>7, <2>8
    <3>4. currentOp' = Covering(ends[instructionIndex] + 1, matchRanges)'
      BY <1>2, <2>5, <2>7
    <3>5. currentOp' \in Conversions
      BY <1>2 DEF Conversions
    <3>. QED BY <1>2, <2>6, <2>8, <3>1, <3>2, <3>3, <3>4, <3>5 DEF Advanced, Texts
  <2>11. Keeps(copies', Base(TRUE)' \o <<>>)
    <3>1. Keeps(copies', Base(TRUE)') /\ Base(TRUE)' \in Texts
      <4>1. Keeps(copies', Base(TRUE)')
        BY <1>7, <1>8, <1>11
      <4>. QED BY <4>1 DEF Keeps
    <3>. QED BY <3>1, TextAlgebra
  <2>. QED BY <2>8, <2>10, <2>11 DEF Texts
<1>. QED BY <1>2, <1>9, <1>10, <1>11 DEF SoFar, Returned

\* After the last instruction of a match all of its tokens are replaced; without
\* the first ones it is replaced by nothing (NSString.m:900-925).
LEMMA ApplyEndsSoFar ==
  ASSUME IInv, StopsAtOnce, Parsed, Followed, SoFar, Converts, ApplyEnds
  PROVE  Keeps(copies, Upto(Len(matches), OnStack(references)))
<1>1. /\ pc = "apply" /\ ~Applying /\ CapturesKnown /\ call \in Calls /\ Len(matches) # 0
      /\ matches[Len(matches)] = matchRanges /\ matchRanges \in Answers
  BY DEF ApplyEnds, Parsed, Followed, IInv, TypeOK, Answers
<1>. DEFINE e == OnStack(references)
<1>2. e \in BOOLEAN
  BY DEF OnStack
<1>3. Upto(Len(matches), e) = Base(e) \o (IF e THEN Expansion(matchRanges) ELSE <<>>)
      /\ Base(e) \in Texts
  BY <1>1, <1>2, UptoMore
<1>4. CASE ~e
  <2>0. e = FALSE
    BY <1>4
  <2>1. Keeps(copies, Base(FALSE))
    BY <1>1, <1>4 DEF SoFar
  <2>2. Upto(Len(matches), FALSE) = Base(FALSE) \o <<>> /\ Base(FALSE) \in Texts
    BY <1>1, UptoMore
  <2>3. Keeps(copies, Upto(Len(matches), FALSE))
    BY <2>1, <2>2, TextAlgebra
  <2>. QED BY <2>0, <2>3
<1>5. CASE e
  <2>1. PICK ends, given : Advanced(ends, given) /\ Keeps(copies, Base(TRUE) \o given)
    BY <1>1, <1>5 DEF SoFar
  <2>. DEFINE instructions == references.instructions
              N == Len(call.reference)
              m == Len(instructions)
  <2>2. /\ m \in Nat \ {0} /\ instructions[m].op = Stop
        /\ Laid(instructions, ends) /\ instructionIndex \in 0..m
        /\ lastOp = instructions[IF instructionIndex = 0 THEN 1 ELSE instructionIndex].op
    BY <1>1, <1>5, <2>1 DEF Parsed, Advanced, IInv, TypeOK, Compiled
  <2>3. lastOp = Stop
    <3>1. CASE instructionIndex < m
      BY <1>1, <3>1 DEF Applying
    <3>2. CASE ~(instructionIndex < m)
      <4>1. instructionIndex = m /\ instructionIndex # 0
        BY <2>2, <3>2
      <4>. QED BY <2>2, <4>1
    <3>. QED BY <3>1, <3>2
  <2>4. ends[instructionIndex] = N
    <3>1. CASE instructionIndex = 0
      <4>1. 1 \in 1..m /\ 1 - 1 = 0
        BY <2>2
      <4>2. Stands(instructions[1], ends[0], ends[1]) /\ instructions[1].op = Stop
        BY <2>2, <2>3, <3>1, <4>1 DEF Laid
      <4>. QED BY <3>1, <4>2, OpsDiffer DEF Stands
    <3>2. CASE instructionIndex # 0
      <4>1. instructionIndex \in 1..m
        BY <2>2, <3>2
      <4>2. /\ Stands(instructions[instructionIndex], ends[instructionIndex - 1],
                      ends[instructionIndex])
            /\ instructions[instructionIndex].op = Stop
        BY <2>2, <2>3, <3>2, <4>1 DEF Laid
      <4>. QED BY <4>2, OpsDiffer DEF Stands
    <3>. QED BY <3>1, <3>2
  <2>5. given = Expansion(matchRanges)
    <3>1. Shown(N, matchRanges) = given \o Convert(<<>>, currentOp) /\ given \in Texts
      BY <2>1, <2>3, <2>4 DEF Advanced
    <3>2. Convert(<<>>, currentOp) = <<>>
      BY TextAlgebra, ConvertJoins
    <3>3. Expansion(matchRanges) = Shown(N, matchRanges)
      BY <1>1, ShownMore
    <3>. HIDE DEF N
    <3>. QED BY <3>1, <3>2, <3>3, TextAlgebra
  <2>6. e = TRUE
    BY <1>5
  <2>. HIDE DEF e
  <2>7. Upto(Len(matches), TRUE) = Base(TRUE) \o given
    BY <1>3, <2>5, <2>6
  <2>. QED BY <2>1, <2>6, <2>7 DEF e
<1>. QED BY <1>4, <1>5

\* Every step keeps what should be returned so far.
LEMMA SoFarKeeps ==
  ASSUME IInv, LosesFirst, StopsAtOnce, Copied(copies), Parsed, Followed, SoFar, [Next]_vars
  PROVE  SoFar'
<1>. SUFFICES ASSUME Converts' PROVE SoFar'
  BY DEF SoFar
<1>1. call' = call /\ call \in Calls
  BY DEF IInv, TypeOK, Next, Compile, Search, Apply, CompileDollars, CompileCapture,
       CompileCaseOp,
         CompileText, CompileFails, CompileEnds, Match, SearchEnds, SearchFails, EndNothing,
         CopyPiece, GatherPiece, EndConversion, ConvertNextChar, ChangeOp, ApplyEnds, Finish, Done,
         vars
<1>2. copies \in CopyBuffers
  BY DEF IInv, TypeOK, CopyBuffers
<1>. DEFINE e == OnStack(references)
<1>3. ASSUME matches' = matches, references' = references
      PROVE  /\ Converts /\ OnStack(references)' = e
             /\ Upto(Len(matches), OnStack(references))' = Upto(Len(matches), e)
             /\ Expected(OnStack(references))' = Expected(e)
             /\ Base(TRUE)' = Base(TRUE) /\ Base(FALSE)' = Base(FALSE)
  <2>1. PICK n, f : n = Len(matches) /\ f = e
    OBVIOUS
  <2>2. Len(matches') = n /\ OnStack(references)' = f
    BY <1>3, <2>1 DEF OnStack
  <2>3. Upto(n, f)' = Upto(n, f) /\ Expected(f)' = Expected(f)
    BY <1>1, <1>3, ExpectedUnmoved
  <2>4. Upto(Len(matches), OnStack(references))' = Upto(n, f)' /\ Expected(OnStack(references))' = Expected(f)'
    BY <2>2
  <2>5. Converts /\ Base(TRUE)' = Base(TRUE) /\ Base(FALSE)' = Base(FALSE)
    BY <1>1, <1>3, ExpectedUnmoved
  <2>6. Upto(n, f) = Upto(Len(matches), e) /\ Expected(f) = Expected(e)
    BY <2>1
  <2>. HIDE DEF e
  <2>7. OnStack(references)' = e
    BY <2>1, <2>2
  <2>. QED BY <2>3, <2>4, <2>5, <2>6, <2>7
<1>4. CASE Match
  BY <1>4, MatchSoFar
<1>5. CASE SearchEnds
  <2>1. pc = "search" /\ pc' = "finish" /\ UNCHANGED <<matches, references, copies>>
    BY <1>5 DEF SearchEnds, searchVars, compileVars
  <2>2. Keeps(copies, Upto(Len(matches), e))
    BY <1>3, <2>1 DEF SoFar
  <2>3. Keeps(copies, Upto(Len(matches), OnStack(references)))'
    BY <1>3, <2>1, <2>2 DEF Keeps, Joined, OnStack, Texts
  <2>. QED BY <2>1, <2>3 DEF SoFar, Returned
<1>6. CASE CompileFails \/ SearchFails
  <2>1. pc' = "done" /\ outcome' \in {"raised", "null"}
    BY <1>6 DEF CompileFails, SearchFails, Fail, Return
  <2>. QED BY <2>1 DEF SoFar, Returned
<1>7. CASE CompileDollars \/ CompileCapture \/ CompileCaseOp \/ CompileText
  <2>1. pc = "compile" /\ pc' = "compile" /\ UNCHANGED <<matches, copies>>
    BY <1>7
         DEF CompileDollars, CompileCapture, CompileCaseOp, CompileText, Compiling,
         searchVars
  <2>2. Converts
    BY <1>1, <2>1, ExpectedUnmoved
  <2>3. Keeps(copies, <<>>)
    BY <2>1, <2>2 DEF SoFar
  <2>4. Keeps(copies, <<>>)'
    BY <2>1, <2>3 DEF Keeps, Joined, OnStack, Texts
  <2>. QED BY <2>1, <2>4 DEF SoFar, Returned
<1>8. CASE CompileEnds
  <2>. DEFINE to == call.range.location
  <2>1. /\ pc = "compile" /\ pc' = "search" /\ matches' = matches /\ matches = <<>>
        /\ searchIndex' = to /\ to \in Nat
        /\ copies' = IF Replacing
                     THEN AppendCopyInstruction(copies, Slice("subject", MakeRange(0, searchIndex')))
                     ELSE copies
    BY <1>1, <1>8, CallTyped DEF CompileEnds, Followed
  <2>2. Keeps(copies, <<>>)
    <3>1. Converts
      BY <1>1, <2>1, ExpectedUnmoved
    <3>. QED BY <2>1, <3>1 DEF SoFar
  <2>. HIDE DEF to
  <2>3. Keeps(copies', <<>> \o Kept(0, to))
    <3>1. /\ to - 0 = to /\ 0 \in Nat /\ 0 <= to
      BY <2>1
    <3>. QED BY <1>2, <2>1, <2>2, <3>1, KeptIsKept
  <2>4. <<>> \o Kept(0, to) = Kept(0, to)
    <3>1. Kept(0, to) \in Texts
      BY <2>1, KeptIsText
    <3>. QED BY <3>1, TextAlgebra
  <2>5. CapturesKnown
    <3>1. Parsed' /\ pc' = "search"
      BY <2>1, ParsedKeeps
    <3>. QED BY <1>1, <3>1, Unmoved DEF Parsed
  <2>6. ASSUME NEW f \in BOOLEAN PROVE Upto(0, f)' = Kept(0, to)
    <3>1. Upto(0, f) = Kept(0, to)
      BY <1>1, <2>5, UptoMore DEF to
    <3>. QED BY <1>1, <2>1, <3>1, ExpectedUnmoved
  <2>7. PICK f \in BOOLEAN : f = OnStack(references')
    BY DEF OnStack
  <2>8. Upto(Len(matches), OnStack(references))' = Upto(0, f)'
    <3>1. Len(matches') = 0 /\ OnStack(references)' = f
      BY <2>1, <2>7 DEF OnStack
    <3>. QED BY <3>1
  <2>9. Keeps(copies', Upto(Len(matches), OnStack(references))')
    BY <2>3, <2>4, <2>6, <2>8
  <2>. QED BY <2>1, <2>9 DEF SoFar, Returned
<1>9. CASE Apply /\ ~ApplyEnds
  <2>1. /\ pc = "apply" /\ pc' = "apply" /\ UNCHANGED <<matches, references>> /\ Applying
    BY <1>9
         DEF Apply, EndNothing, CopyPiece, GatherPiece, EndConversion,
         ConvertNextChar, ChangeOp,
                Applying, searchVars, compileVars
  <2>2. e
    BY <2>1 DEF StopsAtOnce, Applying
  <2>3. PICK ends, given : Advanced(ends, given) /\ Keeps(copies, Base(TRUE) \o given)
    BY <1>3, <2>1, <2>2 DEF SoFar
  <2>4. /\ CapturesKnown /\ Len(matches) # 0 /\ matches[Len(matches)] = matchRanges
        /\ Len(matches) \in DOMAIN matches
    BY <2>1 DEF Parsed, Followed
  <2>5. ~EmptyUnderCase(matchRanges)
    BY <1>3, <2>1, <2>4 DEF Converts
  <2>6. PICK base : base = Base(TRUE)
    OBVIOUS
  <2>7. base \in Texts
    BY <1>1, <2>4, <2>6, UptoMore
  <2>8. PICK more \in Texts : Advanced(ends, more)' /\ Keeps(copies', base \o more)
    BY <1>9, <2>3, <2>4, <2>5, <2>6, <2>7, ApplyAdvances
  <2>9. (\E ends2 : \E given2 \in Texts :
            Advanced(ends2, given2) /\ Keeps(copies, Base(TRUE) \o given2))'
    <3>1. Base(TRUE)' = base
      BY <1>3, <2>1, <2>6
    <3>2. Keeps(copies', Base(TRUE)' \o more)
      BY <2>8, <3>1
    <3>. QED BY <2>8, <3>2 DEF Texts
  <2>10. OnStack(references)'
    BY <2>1, <2>2 DEF OnStack
  <2>. QED BY <2>1, <2>9, <2>10 DEF SoFar, Returned
<1>10. CASE ApplyEnds
  <2>1. pc' = "search" /\ UNCHANGED <<matches, references, copies>>
    BY <1>10 DEF ApplyEnds, compileVars
  <2>2. Keeps(copies, Upto(Len(matches), e))
    BY <1>3, <1>10, <2>1, ApplyEndsSoFar
  <2>3. Keeps(copies, Upto(Len(matches), OnStack(references)))'
    BY <1>3, <2>1, <2>2 DEF Keeps, Joined, OnStack, Texts
  <2>. QED BY <2>1, <2>3 DEF SoFar, Returned
<1>11. CASE Finish
  <2>1. /\ pc = "finish" /\ pc' = "done" /\ UNCHANGED <<matches, references>>
        /\ copies' = IF Replacing
                     THEN AppendCopyInstruction(copies, Slice("subject",
                            MakeRange(searchIndex, call.length - searchIndex)))
                     ELSE copies
        /\ outcome' = "string" => result' = Joined(copies'.instructions)
    BY <1>11 DEF Finish, Return, Joined, searchVars, compileVars
  <2>2. /\ searchIndex \in Nat /\ call.length \in Nat /\ searchIndex <= call.length
    <3>1. searchIndex \in call.range.location..SearchEnd /\ SearchEnd <= call.length
      BY <1>1, <2>1, CallTyped DEF IInv, TypeOK, InBounds
    <3>. QED BY <1>1, <3>1, CallTyped DEF IInv, TypeOK
  <2>. DEFINE all == Upto(Len(matches), e)
  <2>3. Keeps(copies, all)
    BY <1>3, <2>1 DEF SoFar
  <2>. HIDE DEF all
  <2>4. Keeps(copies', all \o Kept(searchIndex, call.length))
    BY <1>2, <2>1, <2>2, <2>3, KeptIsKept
  <2>5. Expected(e) = all \o Kept(searchIndex, call.length)
    <3>1. CapturesKnown /\ searchIndex = From(Len(matches) + 1) /\ e \in BOOLEAN
      BY <2>1 DEF Parsed, Followed, OnStack
    <3>. QED BY <1>1, <3>1, UptoMore DEF all
  <2>6. Keeps(copies', Expected(OnStack(references))')
    BY <1>3, <2>1, <2>4, <2>5
  <2>. QED BY <2>1, <2>6 DEF SoFar, Returned
<1>12. CASE UNCHANGED vars
  <2>1. UNCHANGED <<pc, matches, references, copies, result, outcome, instructionIndex, lastOp,
                    currentOp, conversionString, matchRanges>>
    BY <1>12 DEF vars, searchVars, compileVars, applyVars, returnVars
  <2>2. \A all : Keeps(copies, all) => Keeps(copies', all)
    BY <2>1
  <2>3. /\ pc' = "compile" => Keeps(copies', <<>>)
        /\ pc' \in {"search", "finish"} => Keeps(copies', Upto(Len(matches), e))
        /\ pc' = "apply" /\ ~e => Keeps(copies', Base(FALSE))
        /\ Returned' => /\ result' = Joined(copies'.instructions)
                        /\ Keeps(copies', Expected(e))
    BY <1>3, <2>1 DEF SoFar, Returned
  <2>4. ASSUME pc' = "apply", e
        PROVE  (\E ends2 : \E given2 \in Texts :
                  Advanced(ends2, given2) /\ Keeps(copies, Base(TRUE) \o given2))'
    <3>1. PICK ends : \E given \in Texts :
                        Advanced(ends, given) /\ Keeps(copies, Base(TRUE) \o given)
      BY <1>3, <2>1, <2>4 DEF SoFar
    <3>1a. PICK given \in Texts : Advanced(ends, given) /\ Keeps(copies, Base(TRUE) \o given)
      BY <3>1
    <3>2. Advanced(ends, given)'
      BY <1>1, <2>1, <3>1a, AdvancedUnmoved
    <3>3. Keeps(copies', Base(TRUE)' \o given)
      BY <1>3, <2>1, <2>2, <3>1a
    <3>. QED BY <3>2, <3>3 DEF Texts
  <2>. QED BY <1>3, <2>1, <2>3, <2>4 DEF SoFar
<1>. QED BY <1>4, <1>5, <1>6, <1>7, <1>8, <1>9, <1>10, <1>11, <1>12
         DEF Next, Compile, Search, Done

-------------------------------------------------------------------------------
(* What is returned.                                                       *)

\* The end of a text is a suffix of it.
LEMMA EndIsSuffix ==
  ASSUME NEW lost \in Texts, NEW rest \in Texts
  PROVE  IsSuffix(rest, lost \o rest)
<1>. DEFINE all == lost \o rest
            m == Len(rest)
            n == Len(all)
            r == [i \in 1..m |-> rest[m - i + 1]]
            a == [i \in 1..n |-> all[n - i + 1]]
<1>1. /\ m \in Nat /\ Len(lost) \in Nat /\ n = Len(lost) + m
      /\ rest \in Seq(Characters) /\ all \in Seq(Characters)
      /\ \A k \in 1..n : all[k] = IF k <= Len(lost) THEN lost[k] ELSE rest[k - Len(lost)]
  <2>1. lost \in Seq(Characters) /\ rest \in Seq(Characters)
    BY DEF Texts, Characters
  <2>. QED BY <2>1, ConcatProperties
<1>. HIDE DEF all
<1>2. Reverse(rest) = r /\ Reverse(all) = a
  BY DEF Reverse
<1>. HIDE DEF m, n
<1>3. r \in Seq(Characters) /\ Len(r) = m
  <2>1. r \in [1..m -> Characters]
    BY <1>1 DEF m
  <2>. QED BY <1>1, <2>1, FunctionIsSeq
<1>4. a \in Seq(Characters) /\ Len(a) = n
  <2>1. a \in [1..n -> Characters] /\ n \in Nat
    BY <1>1 DEF n
  <2>. QED BY <2>1, FunctionIsSeq
<1>5. \A i \in 1..m : r[i] = a[i]
  <2>. SUFFICES ASSUME NEW i \in 1..m PROVE r[i] = a[i]
    OBVIOUS
  <2>1. i \in 1..n /\ n - i + 1 \in 1..n /\ ~(n - i + 1 <= Len(lost))
        /\ (n - i + 1) - Len(lost) = m - i + 1
    BY <1>1
  <2>2. all[n - i + 1] = rest[m - i + 1]
    BY <1>1, <2>1
  <2>. QED BY <2>1, <2>2
<1>. HIDE DEF r, a
<1>6. IsPrefix(r, a)
  <2>1. m <= n /\ m \in Nat /\ n \in Nat
    BY <1>1
  <2>2. SubSeq(a, 1, m) = SubSeq(r, 1, m)
    <3>1. /\ SubSeq(a, 1, m) = [i \in 1..m |-> a[i]]
          /\ SubSeq(r, 1, m) = [i \in 1..m |-> r[i]]
      BY <1>3, <1>4, <2>1
    <3>. QED BY <1>5, <3>1
  <2>. QED BY <1>3, <1>4, <2>1, <2>2 DEF IsPrefix
<1>. QED BY <1>2, <1>6 DEF IsSuffix, all

\* What holds before the first step.
LEMMA SoFarInitially ==
  ASSUME Init
  PROVE  Parsed /\ Followed /\ StopsAtOnce /\ Copied(copies) /\ SoFar
<1>1. /\ pc = "compile" /\ call \in Calls /\ matches = <<>> /\ conversionString = <<>>
      /\ referenceIndex = 0 /\ currentRange = MakeRange(0, 0) /\ references.instructions = <<>>
      /\ copies.instructions = <<>> /\ copies.copiedLength = 0
  BY DEF Init
<1>2. Parsed
  <2>1. Even(0)
    BY EvenMore
  <2>2. Known(0)
    BY DEF Known
  <2>3. \A k \in (currentRange.location + 1)..referenceIndex : Op(k) = Text
    <3>1. currentRange.location = 0
      BY <1>1 DEF MakeRange
    <3>. QED BY <1>1, <3>1
  <2>4. Reaches(<<>>, 0)
    <3>. DEFINE ends == [j \in 0..0 |-> 0]
    <3>1. Len(call.reference) \in Nat
      BY <1>1, CallTyped
    <3>2. ends \in [0..Len(<<>>) -> 0..Len(call.reference)] /\ ends[0] = 0 /\ Len(<<>>) = 0
      BY <3>1
    <3>3. Laid(<<>>, ends)
      <4>1. \A j \in 1..Len(<<>>) : FALSE
        OBVIOUS
      <4>. HIDE DEF ends
      <4>. QED BY <3>2, <4>1 DEF Laid
    <3>. HIDE DEF ends
    <3>. QED BY <3>2, <3>3 DEF Reaches
  <2>5. currentRange.location = 0
    BY <1>1 DEF MakeRange
  <2>. QED BY <1>1, <2>1, <2>2, <2>3, <2>4, <2>5 DEF Parsed
<1>3. Followed
  <2>1. <<>> \in Seq(Answers) /\ \A i \in DOMAIN <<>> : FALSE
    OBVIOUS
  <2>. QED BY <1>1, <2>1 DEF Followed
<1>4. StopsAtOnce
  BY <1>1 DEF StopsAtOnce
<1>5. Copied(copies)
  BY NothingCopied
<1>6. SoFar
  <2>1. Joined(<<>>) = <<>>
    <3>1. <<>> \in Seq(Texts) /\ Len(<<>>) = 0
      OBVIOUS
    <3>. QED BY <3>1, JoinedMore
  <2>2. <<>> \o <<>> = <<>> /\ <<>> \in Texts /\ Len(<<>>) = 0
    BY TextAlgebra
  <2>3. Keeps(copies, <<>>)
    BY <1>1, <2>1, <2>2 DEF Keeps
  <2>. QED BY <1>1, <2>3 DEF SoFar, Returned
<1>. QED BY <1>2, <1>3, <1>4, <1>5, <1>6

\* What should be returned so far is kept in every state.
LEMMA AlwaysSoFar == Spec => [](LosesFirst /\ SoFar)
<1>. DEFINE Inv == StopsAtOnce /\ Copied(copies) /\ Parsed /\ Followed /\ SoFar
<1>1. Init => Inv
  BY SoFarInitially
<1>2. IInv /\ LosesFirst /\ Inv /\ [Next]_vars => Inv'
  BY StopsKeeps, CopiedKeeps, ParsedKeeps, FollowedKeeps, SoFarKeeps
<1>3. Inv => SoFar
  OBVIOUS
<1>. HIDE DEF Inv
<1>. QED BY <1>1, <1>2, <1>3, Always, OverflowLosesTheStack, PTL DEF Spec

\* A replacement whose buffers stay on the stack returns the text before, between
\* and behind the matches, and for each match the reference string with the
\* captures and the case it asks for, whatever the reference string, the matches
\* and the size of the buffers (NSString.m:766-800, 855-990).
THEOREM ReplacementCorrect == Spec => []ReplacementExact
<1>1. SoFar => ReplacementExact
  <2>. SUFFICES ASSUME SoFar, Returned, Converts, OnStack(references), OnStack(copies)
                PROVE  result = Expected(TRUE)
    BY DEF ReplacementExact
  <2>1. OnStack(references) = TRUE
    BY DEF OnStack
  <2>2. result = Joined(copies.instructions) /\ Keeps(copies, Expected(OnStack(references)))
    BY DEF SoFar
  <2>3. Joined(copies.instructions) = Expected(OnStack(references))
    BY <2>2 DEF Keeps
  <2>. QED BY <2>1, <2>2, <2>3
<1>. QED BY <1>1, AlwaysSoFar, PTL

\* Whatever outgrows the stack, no more than its first StackInstructions
\* instructions is lost: what is returned is the end of what should be, and the
\* length counted is that of all of it (NSString.m:1087-1102, 1116-1148).
THEOREM OverflowCorrect == Spec => []OverflowLosesFirst
<1>1. IInv /\ LosesFirst /\ SoFar => OverflowLosesFirst
  <2>. DEFINE all == Expected(OnStack(references))
  <2>. SUFFICES ASSUME IInv, LosesFirst, SoFar, Returned, Converts
                PROVE  /\ IsSuffix(result, all) /\ copies.copiedLength = Len(all)
                       /\ \A k \in DOMAIN copies.instructions :
                            copies.instructions[k] = <<>> => k <= StackInstructions /\ ~OnStack(copies)
    BY DEF OverflowLosesFirst
  <2>1. result = Joined(copies.instructions) /\ Keeps(copies, all)
    BY DEF SoFar
  <2>. HIDE DEF all
  <2>2. copies.instructions \in Seq(Texts)
    BY DEF IInv, TypeOK
  <2>3. result \in Texts
    BY <2>1, <2>2, JoinedMore
  <2>4. PICK lost \in Texts : all = lost \o result
    BY <2>1 DEF Keeps
  <2>5. IsSuffix(result, all)
    BY <2>3, <2>4, EndIsSuffix
  <2>6. \A k \in DOMAIN copies.instructions :
          copies.instructions[k] = <<>> => k <= StackInstructions /\ ~OnStack(copies)
    BY <2>2 DEF LosesFirst, Loses, OnStack
  <2>. QED BY <2>1, <2>5, <2>6 DEF Keeps
<1>. QED BY <1>1, Always, AlwaysSoFar, PTL
===============================================================================
