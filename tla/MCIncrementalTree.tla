------------------------- MODULE MCIncrementalTree -------------------------
(***************************************************************************)
(* IncrementalTree over every document of at most MaxLength symbols of one *)
(* of a few alphabets, raw strings that are not closed, and a document     *)
(* whose last comment CommentTrivia::of does not list last.  What the      *)
(* lexer reads of a document, or of a view, is computed once.              *)
(***************************************************************************)
EXTENDS IncrementalTree, TLC

CONSTANTS Alphabets, MaxLength

Symbols == UNION Alphabets

MCEncoding ==
  [symbol \in Symbols \cup {"SP", "NL", ")", "]", "QT", "/", "BO", "BC", "LC", "("} |->
     CASE symbol = "eacute" -> <<"C3", "A9">>
       [] symbol = "egrave" -> <<"C3", "A8">>
       [] symbol = "itilde" -> <<"C4", "A9">>
       [] symbol = "Core$"  -> <<"C", "$">>
       [] symbol = "LC"     -> <<"-", "-">>
       [] symbol = "BO"     -> <<"-", "*">>
       [] symbol = "BC"     -> <<"*", "-">>
       [] OTHER             -> <<symbol>>]

RawStrings == { <<"/", "/", "/">> \o tail : tail \in UNION { [1 .. n -> {"/", "("}] : n \in 0 .. 2 } }

RemarkedTwice ==
  { SubSeq(<<"(", "NL", "LC", "NL", "BO", "BC", "LC">>, 1, length) : length \in {6, 7} }

TextSet ==
  UNION { [1 .. n -> alphabet] : n \in 0 .. MaxLength, alphabet \in Alphabets }
    \cup RawStrings \cup RemarkedTwice

\* The same function; TLC keeps its values instead of its body.
Tabulated(f) == f @@ <<>>

Entry(lexer, view) ==
  [lexer |-> lexer, view |-> view, bytes |-> Bytes(view), viewed |-> LexRecovering(view)]

Recovery(text, lexer) ==
  Entry(lexer, IF lexer.error = "none" THEN View(text, lexer) ELSE <<>>)

Recoveries == Tabulated([text \in TextSet |-> Recovery(text, LexRecovering(text))])

\* Definitions given to constants: each names a value that TLC keeps evaluated.
MCDocuments == TextSet
MCRecovered == Recoveries

MCSnippets == { <<symbol>> : symbol \in Symbols }

=============================================================================
