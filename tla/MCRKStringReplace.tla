--------------------------- MODULE MCRKStringReplace ---------------------------
(***************************************************************************)
(* TLC instance of RKStringReplace: reference strings that put text,       *)
(* captures and case conversions next to each other, on short strings.     *)
(***************************************************************************)
EXTENDS ReplacedText

Tok(op) == [op |-> op, capture |-> 0]
Cap(n) == [op |-> CopyCaptureIndex, capture |-> n]
Letter == Tok(Text)

\* Every string of up to two tokens, and longer ones that need the length.
Alphabet == {Tok(op) : op \in CaseOps \cup {Text}} \cup {Cap(0), Cap(1)}
Short == {<<>>} \cup {<<a>> : a \in Alphabet} \cup {<<a, b>> : a, b \in Alphabet}
Long ==
  {<<a, Cap(1), b, Letter>> : a, b \in {Tok(op) : op \in CaseOps}}
  \cup {<<Tok(a), Letter, Cap(1), Tok(b), Cap(0)>> : a, b \in CaseOps}
  \cup {<<Letter, Tok(Dollar), Tok(Dollar), Letter>>, <<Letter, Tok(Dollar)>>,
        <<Tok(Dollar), Tok(Dollar), Cap(1)>>, <<Letter, Cap(2)>>,
        <<Letter, Cap(0), Letter, Cap(1), Letter>>,
        <<Letter, Cap(0), Letter, Cap(1), Letter, Cap(0), Letter, Cap(1), Letter, Cap(0)>>}

CallOf(length, range, count, reference, kind, error) ==
  [length |-> length, range |-> range, count |-> count, reference |-> reference,
   kind |-> kind, error |-> error]

MCCalls ==
  {CallOf(3, MakeRange(0, 3), RKReplaceAll, <<Letter, Cap(0), Letter, Cap(1)>>, "replace", TRUE)}
  \cup {CallOf(2, MakeRange(0, 2), count, reference, "replace", TRUE) :
     count \in {2, RKReplaceAll}, reference \in Short \cup Long}
  \cup {CallOf(3, range, RKReplaceAll, reference, kind, error) :
          range \in {MakeRange(0, 3), MakeRange(1, 1), MakeRange(1, 2)},
          kind \in {"expand", "mutable"}, error \in BOOLEAN,
          reference \in {<<Letter, Cap(1)>>, <<Tok(UppercaseBegin), Cap(0), Letter>>}}
  \cup {CallOf(0, MakeRange(0, 0), 1, <<Letter>>, kind, TRUE) : kind \in {"replace", "expand"}}
===============================================================================
