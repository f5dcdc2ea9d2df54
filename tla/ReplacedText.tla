----------------------------- MODULE ReplacedText -----------------------------
(***************************************************************************)
(* What search and replace should return, token by token of the reference  *)
(* string and match by match, and how what RKStringReplace returns relates *)
(* to it.                                                                  *)
(***************************************************************************)
EXTENDS RKStringReplace, SequencesExt

Tokens == DOMAIN call.reference
Op(k) == call.reference[k].op

\* The text token k stands for.  Of two dollar signs the first is copied.
PieceOf(k, ranges) ==
  CASE Op(k) = Text -> <<Character("reference", k - 1)>>
    [] Op(k) = Dollar /\ Cardinality({j \in 1..(k - 1) : Op(j) = Dollar}) % 2 = 0 ->
         <<Character("reference", k - 1)>>
    [] Op(k) = CopyCaptureIndex -> Slice("subject", ranges[call.reference[k].capture])
    [] OTHER -> <<>>

\* The case conversion that covers token k, if it is not used up before k.
CaseOpsBefore(k) == {j \in 1..(k - 1) : Op(j) \in CaseOps}
LastCaseOp(k) == IF CaseOpsBefore(k) = {} THEN 0 ELSE Max(CaseOpsBefore(k))
Covering(k, ranges) ==
  LET j == LastCaseOp(k) IN
  IF j = 0 \/ Op(j) = ChangeCaseEnd THEN NoOp
  ELSE IF Op(j) \in NextCharOps /\ \E i \in (j + 1)..(k - 1) : PieceOf(i, ranges) # <<>> THEN NoOp
  ELSE Op(j)

Cased(text, op) ==
  CASE op = NoOp -> text
    [] op \in BeginOps -> Convert(text, op)
    [] OTHER -> [i \in DOMAIN text |-> IF i = 1 THEN Convert(text, op)[1] ELSE text[i]]

Expansion(ranges) ==
  FlattenSeq([k \in Tokens |-> Cased(PieceOf(k, ranges), Covering(k, ranges))])

\* A conversion meets a capture that is empty or unset.
EmptyUnderCase(ranges) ==
  \E k \in Tokens : /\ Op(k) = CopyCaptureIndex
                    /\ PieceOf(k, ranges) = <<>> /\ Covering(k, ranges) # NoOp

\* The text up to the end of match i, and all of it, with expansions by Expand.
From(i) == IF i = 1 THEN call.range.location
           ELSE matches[i - 1][0].location + matches[i - 1][0].length
Kept(from, to) == IF Replacing THEN Slice("subject", MakeRange(from, to - from)) ELSE <<>>
Expected(expanded) ==
  Kept(0, call.range.location)
    \o FlattenSeq([i \in DOMAIN matches |->
         Kept(From(i), matches[i][0].location) \o (IF expanded THEN Expansion(matches[i]) ELSE <<>>)])
    \o Kept(From(Len(matches) + 1), call.length)

Returned == pc = "done" /\ outcome = "string"
Converts == \A i \in DOMAIN matches : ~EmptyUnderCase(matches[i])

-------------------------------------------------------------------------------
\* While its buffers are on the stack a replacement returns the text before,
\* between and behind the matches and for each of them the reference string with
\* its captures, in the case asked for; unless a case conversion meets an empty
\* capture, which RKApplyReferenceInstructions takes for its end.
ReplacementExact ==
  (Returned /\ Converts /\ OnStack(references) /\ OnStack(copies)) => result = Expected(TRUE)

\* A buffer that leaves the stack loses no more than its first StackInstructions
\* instructions.  The reference instructions then begin with a stop, and nothing
\* takes the place of a match; of the new string the beginning is missing.
OverflowLosesFirst ==
  LET all == Expected(OnStack(references)) IN
  (Returned /\ Converts) =>
     /\ IsSuffix(result, all) /\ copies.copiedLength = Len(all)
     /\ \A k \in DOMAIN copies.instructions :
          copies.instructions[k] = <<>> => k <= StackInstructions /\ ~OnStack(copies)

\* Search and replace comes to its end, unless it is to replace all matches and
\* finds one of no characters where its search began, again and again.
SpinsOnEmptyMatch ==
  Spinning /\ call.count = RKReplaceAll /\ matchRanges[0] = MakeRange(searchIndex, 0)
ReplaceEnds == <>(pc = "done" \/ SpinsOnEmptyMatch)
===============================================================================
