----------------------------- MODULE RegexAnswers -----------------------------
(***************************************************************************)
(* What one evaluation of a collection of regexes can answer, as the code  *)
(* of threadMatchEntryFunction has it (RKSortedRegexCollection.m).         *)
(* SortedRegexMatch checks that the parallel evaluation gives no other     *)
(* answer; RKSortedRegexCollection evaluates by choosing one of these.     *)
(***************************************************************************)
EXTENDS Integers, FiniteSets

\* The matching regexes that make the function store an answer: with the
\* lowest index of an array asked for, only the one at index 0.
Stored(matches, lowestOfArray) ==
  IF lowestOfArray THEN matches \cap {0} ELSE matches

\* The answers of an evaluation by that many threads.  NULL is possible with
\* nothing to store, and when each regex that would be stored can be lost in
\* the hands of a thread other than the one that finds the list exhausted.
Answers(matches, lowestOfArray, threads, None) ==
  LET stored == Stored(matches, lowestOfArray) IN
  stored \cup (IF Cardinality(stored) < threads THEN {None} ELSE {})
===============================================================================
