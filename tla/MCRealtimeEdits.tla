--------------------------- MODULE MCRealtimeEdits ---------------------------
(***************************************************************************)
(* MCRealtime, with what RealtimeFraming assumes of the lexer and framer   *)
(* evaluated for every document of the run, and for the texts with block   *)
(* comments that documents of MCRealtimeGrown are made of.                 *)
(***************************************************************************)
EXTENDS MCRealtimeGrown, RealtimeFraming

PieceFrame(text)   == PieceFrames[text]
PieceOutcome(text) == PieceOutcomes[text]

Pieced == INSTANCE RealtimeFraming
            WITH Documents <- PieceSet, Frame <- PieceFrame, Outcome <- PieceOutcome

ASSUME BlocksAssumption ==
  \A text \in PieceSet :
    /\ Pieced!BlankHasNoCell(text)
    /\ Pieced!EndedAlone(text)
    /\ Pieced!LastCellHeld(text)
    /\ Pieced!EndsInOrder(text)

=============================================================================
