--------------------------- MODULE RealtimeFraming ---------------------------
(***************************************************************************)
(* What the editor front end relies on when it decides from a region alone *)
(* whether the cells behind it may be kept: how framing a text             *)
(* (frame_recovering) agrees with framing its cells one by one, and with   *)
(* str::trim, which ends_at_confirmed_boundary asks instead of the lexer.  *)
(***************************************************************************)
EXTENDS Realtime

\* A form feed is white space to str::trim and an error to the lexer; a block
\* comment that leads a line belongs to the cell in front of it, and so does
\* the end of that cell (end_span).
Plain(text) == (\A p \in DOMAIN text : text[p] # "FF") /\ ~ BlockLeadsLine(text)

\* A text that trim leaves nothing of holds no cell.
BlankHasNoCell(text) == Plain(text) /\ Blank(text) => CellCount(Frame(text), text) = 0

\* A cell that is ended where it stands is lexed without complaint alone.
EndedAlone(text) ==
  Plain(text) /\ Frame(text).fatal = "none" =>
    \A i \in 1 .. CellCount(Frame(text), text) :
      CellBoundary(Frame(text), text, i) = "EOC" =>
        /\ Frame(CellText(Frame(text), text, i)).fatal = "none"
        /\ ~ Frame(CellText(Frame(text), text, i)).diagnosed

\* The last cell is not empty, so that it ends in the newline its text ends in.
LastCellHeld(text) ==
  Plain(text) /\ Frame(text).fatal = "none" /\ CellCount(Frame(text), text) > 0 =>
    CellStartAt(Frame(text), text, CellCount(Frame(text), text)) < Len(text)

\* No cell ends before the one in front of it.
EndsInOrder(text) == ~ BlockLeadsLine(text) => ~ AnalyzeRegionPanics(text)

ASSUME BlankAssumption    == \A d \in Documents : BlankHasNoCell(d)
ASSUME EndedAssumption    == \A d \in Documents : EndedAlone(d)
ASSUME LastCellAssumption == \A d \in Documents : LastCellHeld(d)
ASSUME EndsAssumption     == \A d \in Documents : EndsInOrder(d)

=============================================================================
