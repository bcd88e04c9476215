--------------------------- MODULE MCRealtimeGrown ---------------------------
(***************************************************************************)
(* MCRealtime for documents that grow, with block comments among the texts *)
(* they grow by.                                                           *)
(***************************************************************************)
EXTENDS MCRealtime, SequencesExt

CONSTANTS
  MaxPieces,       \* of a text with block comments
  MaxPieced        \* its length

\* Texts put together from a few pieces, and every part of one.
Pieces == { <<"x">>, <<"NL">>, <<";">>, <<"BO", "BC">>, <<"BO", "NL", "BC">> }

Wholes == { FlattenSeq(parts) : parts \in UNION { [1 .. n -> Pieces] : n \in 0 .. MaxPieces } }

PieceSet ==
  { Slice(whole, from, Cut(to, Len(whole))) : whole \in Wholes, from, to \in 0 .. MaxPieced }

PieceFrames   == [text \in PieceSet |-> Parser!FrameOf(text)]
PieceOutcomes == [text \in PieceSet |->
  IF PieceFrames[text].fatal = "none" THEN Parser!ParseOutcome(text) ELSE "malformed"]

GrownSet == TextSet \cup PieceSet
ShortSet == { text \in GrownSet : Len(text) \in 1 .. 3 }

\* Definitions given to constants: each names a set that TLC keeps evaluated.
GrownTexts == GrownSet
ShortTexts == ShortSet

\* A text of the run's alphabets.
Tabled(text) ==
  /\ Len(text) <= MaxLength
  /\ \E home \in Homes : \A i \in DOMAIN text : text[i] \in SymbolsOf[home]

GrownFrame(text)   == IF Tabled(text) THEN MCFrame(text) ELSE PieceFrames[text]
GrownOutcome(text) == IF Tabled(text) THEN MCOutcome(text) ELSE PieceOutcomes[text]

Groups   == <<"x", "NL", "(", ")">>
Literals == <<"x", "NL", "symbol", "QT">>
Remarks  == <<"x", "NL", "LC", ";">>
Blanks   == <<"x", "NL", "FF", ";">>
Grown == <<Statements, Groups, Literals, Remarks, Blanks>>

=============================================================================
