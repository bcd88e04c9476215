----------------------------- MODULE TextTables -----------------------------
(***************************************************************************)
(* Every text over each of a few alphabets up to a length, numbered, with  *)
(* what lexing and framing report of each computed once.  Used by the      *)
(* model-checking modules only, to give Frame, Outcome and FirstOutcome    *)
(* their values.                                                           *)
(***************************************************************************)
EXTENDS Integers, Sequences

CONSTANTS
  Alphabets,       \* a tuple of alphabets, tuples of symbols, all of one length
  MaxLength,       \* of a text
  MaxGroupDepth

Parser == INSTANCE NativeParser

Homes == DOMAIN Alphabets
Base == Len(Alphabets[1])
SymbolsOf == [home \in Homes |-> { Alphabets[home][i] : i \in 1 .. Base }]
Digit == [home \in Homes |->
  [symbol \in SymbolsOf[home] |->
     CHOOSE i \in 1 .. Base : Alphabets[home][i] = symbol]]

\* The first alphabet that spells a text.
HomeOf(text) ==
  CHOOSE home \in Homes :
    /\ \A i \in DOMAIN text : text[i] \in SymbolsOf[home]
    /\ \A other \in 1 .. home - 1 : \E i \in DOMAIN text : text[i] \notin SymbolsOf[other]

\* A text read as a numeral without a zero digit (bijective numeration).
NumberOf(home, text) ==
  LET prefix[i \in 0 .. Len(text)] ==
        IF i = 0 THEN 0 ELSE prefix[i - 1] * Base + Digit[home][text[i]]
  IN  prefix[Len(text)]

Numbers == 0 .. NumberOf(1, [i \in 1 .. MaxLength |-> Alphabets[1][Base]])

TextOf[home \in Homes, number \in Numbers] ==
  IF number = 0 THEN <<>>
  ELSE Append(TextOf[home, (number - 1) \div Base], Alphabets[home][((number - 1) % Base) + 1])

FrameTable == [home \in Homes |->
  [number \in Numbers |-> Parser!FrameOf(TextOf[home, number])]]

TableFrame(text) ==
  LET home == HomeOf(text) IN FrameTable[home][NumberOf(home, text)]

=============================================================================
