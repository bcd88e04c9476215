--------------------------- MODULE MCNativeLexer ---------------------------
(***************************************************************************)
(* NativeLexer over every text of at most MaxLength symbols of an alphabet *)
(* of the run's.                                                           *)
(***************************************************************************)
EXTENDS NativeLexer

CONSTANTS Alphabets, MaxLength

TextSet == UNION { [1 .. n -> alphabet] : n \in 0 .. MaxLength, alphabet \in Alphabets }

\* Names a set that TLC keeps evaluated.
MCTexts == TextSet

=============================================================================
