---------------------------- MODULE MCCellParser ----------------------------
(***************************************************************************)
(* CellParser over every sequence of lines of at most MaxLine symbols, for *)
(* one alphabet of a few symbols per run.                                  *)
(***************************************************************************)
EXTENDS CellFraming, TextTables

CONSTANT MaxLine

FirstOutcomeTable == [home \in Homes |->
  [number \in Numbers |->
     IF FrameTable[home][number].fatal = "none"
     THEN Parser!FirstCellOutcome(TextOf[home, number]) ELSE "malformed"]]

MCFrame(text) == TableFrame(text)
MCFirstOutcome(text) ==
  LET home == HomeOf(text) IN FirstOutcomeTable[home][NumberOf(home, text)]

LineSet == UNION { [1 .. n -> SymbolsOf[home] \ {"NL"}] : n \in 0 .. MaxLine, home \in Homes }

\* Not enumerated: that a text is one of them is seen from its length and symbols.
TextSet == UNION { [1 .. n -> SymbolsOf[home]] : n \in 0 .. MaxLength, home \in Homes }

\* Definitions given to constants: each names a set that TLC keeps evaluated.
AllTexts == TextSet
MCLines == LineSet

Statements == <<"x", "NL", ";", "+">>
Groups     == <<"x", "NL", "(", ")">>
Clauses    == <<"if", "NL", "then", "x">>
Strings    == <<"x", "NL", "QT", ";">>
Remarks    == <<"x", "NL", ";", "LC">>
Blocks     == <<"x", "NL", "BO", "BC">>
Typed == <<Statements, Groups, Clauses, Strings, Remarks, Blocks>>
=============================================================================
