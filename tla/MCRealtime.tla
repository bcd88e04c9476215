----------------------------- MODULE MCRealtime -----------------------------
(***************************************************************************)
(* Realtime over every document of at most MaxLength symbols of a run's    *)
(* alphabet, lexed, framed and parsed by NativeParser.                     *)
(***************************************************************************)
EXTENDS Realtime, TextTables

OutcomeTable == [home \in Homes |->
  [number \in Numbers |->
     IF FrameTable[home][number].fatal = "none"
     THEN Parser!ParseOutcome(TextOf[home, number]) ELSE "malformed"]]

TextSet == { TextOf[home, number] : home \in Homes, number \in Numbers }

\* Definitions given to constants: each names a set that TLC keeps evaluated.
AllTexts == TextSet
MCFrame(text) == TableFrame(text)
MCOutcome(text) == LET home == HomeOf(text) IN OutcomeTable[home][NumberOf(home, text)]

\* str::trim: a form feed is white space to it, though not to the lexer.
MCBlank(text) == \A i \in DOMAIN text : text[i] \in {"NL", "SP", "FF"}

AllSymbols == UNION { SymbolsOf[home] : home \in Homes }
OneSymbol == { <<symbol>> : symbol \in AllSymbols }

Statements == <<"x", "NL", ";", "+">>

Edited == << <<"x", "NL", ";", "(", ")">>,
             <<"x", "NL", ";", "symbol", "QT">>,
             <<"x", "NL", "LC", "if", "then">> >>
OnlyStatements == <<Statements>>

=============================================================================
