---------------------------- MODULE MCRKEnumerator ----------------------------
\* The TLC instance of RKEnumerator: strings with characters of every length,
\* ranges that are legal, too long, that split a surrogate pair or whose end
\* wraps around, and capture names of which some are prefixes of others.
EXTENDS RKEnumerator

MCStrings == {[characters |-> <<1, 1>>, encoding |-> "ASCII"],
              [characters |-> <<4, 1>>, encoding |-> "UTF8"],
              [characters |-> <<3, 2>>, encoding |-> "UTF8"],
              [characters |-> <<2, 4>>, encoding |-> "UTF8"]}

MCInitRanges == [location : 0..2, length : {1, 2, 3, Word - 1}]

Name(n) == CASE n = "a" -> <<1>> [] n = "ab" -> <<1, 2>> [] n = "b" -> <<2>> [] n = "c" -> <<3>>
MCNames == {Name(n) : n \in {"a", "ab", "b", "c"}}

Entry(n, capture) == [name |-> Name(n), capture |-> capture]
Regex(table, dupNames) == [captureNameTable |-> table, dupNames |-> dupNames]

MCRegexes == {
  Regex(<<Entry("a", 2), Entry("ab", 1), Entry("b", 3)>>, FALSE),
  Regex(<<Entry("a", 1), Entry("a", 2), Entry("ab", 3)>>, TRUE),
  Regex(<<Entry("ab", 1), Entry("b", 2), Entry("b", 3)>>, TRUE)}
===============================================================================
