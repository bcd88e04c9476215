------------------------------ MODULE Realtime ------------------------------
(***************************************************************************)
(* NativeRealtimeParser (parser/realtime.rs): a document, the cells it was *)
(* framed into, and the edits that rebuild only a region of it.            *)
(*                                                                         *)
(* Lexing, framing and parsing are parameters: Frame(text) is what         *)
(* frame_recovering reports of a text and Outcome(text) how parse_raw_cell *)
(* ends on it.  Cells are kept as a sequence, so the code's cell i is      *)
(* cell i + 1 here; offsets are the code's.                                *)
(***************************************************************************)
EXTENDS TextEdit, TextShape

CONSTANTS
  Documents,     \* the texts explored: the bound on the size of the document
  Snippets,      \* the texts that are inserted
  Frame(_),      \* lex_str_recovering, then frame_recovering and end_span
  Outcome(_),    \* parse_raw_cell
  Blank(_)       \* str::trim leaves nothing

ASSUME DocumentsAssumption ==
  /\ Documents \subseteq Seq(STRING)
  /\ \A d \in Documents : \A from, to \in 0 .. Len(d) : Slice(d, from, to) \in Documents

ASSUME SnippetsAssumption == Snippets \subseteq Seq(STRING)

ASSUME FrameAssumption ==
  \A d \in Documents :
    Frame(d) \in [fatal : STRING, diagnosed : BOOLEAN, incomplete : BOOLEAN,
                 cells : Seq([end : Nat, semi : BOOLEAN])]

VARIABLES
  source,      \* the current snapshot
  cells,       \* [start, end, text, boundary, state] of each retained cell
  reparsed,    \* the cells the last operation rebuilt: [first, count]
  result       \* of the last operation: "ok", "rejected" or "panicked"

vars == <<source, cells, reparsed, result>>

EndsWithNewline(text) == text # <<>> /\ text[Len(text)] = "NL"

(***************************************************************************)
(* analyze_cell, cell_from_lex_error: one cell, lexed and parsed alone.    *)
(***************************************************************************)
IncompleteLexErrors == {"UnterminatedGroup", "UnterminatedString",
                        "UnterminatedRawString", "UnterminatedBlockComment"}

CellState(outcome, diagnosed, boundary) ==
  CASE outcome \in {"syntax", "empty"} ->
         IF boundary = "Unbounded" \/ diagnosed THEN "Incomplete" ELSE "Complete"
    [] outcome = "unfinished" /\ boundary # "EOC" -> "Incomplete"
    [] OTHER -> "Invalid"

AnalyzedAs(frame, outcome, text, start, boundary) ==
  [start    |-> start,
   end      |-> start + Len(text),
   text     |-> text,
   boundary |-> IF frame.fatal = "none" THEN boundary ELSE "Unbounded",
   state    |-> CASE frame.fatal = "none" -> CellState(outcome, frame.diagnosed, boundary)
                  [] frame.fatal \in IncompleteLexErrors -> "Incomplete"
                  [] OTHER                               -> "Invalid"]

AnalyzeCell(text, start, boundary) ==
  AnalyzedAs(Frame(text), Outcome(text), text, start, boundary)

(***************************************************************************)
(* analyze_region: cell i of a region covers it from where cell i - 1 ends *)
(* to where its own end_span lies, cut to the region; the last one takes   *)
(* the rest of the region.                                                 *)
(***************************************************************************)
CellCount(frame, region) ==
  IF frame.fatal # "none" THEN (IF region = <<>> THEN 0 ELSE 1)
  ELSE Len(frame.cells) + (IF frame.incomplete THEN 1 ELSE 0)

Cut(end, length) == IF end < length THEN end ELSE length

CellEndAt(frame, region, i) ==
  IF i = CellCount(frame, region) THEN Len(region) ELSE Cut(frame.cells[i].end, Len(region))

\* Mutant of CellStartAt: the first symbol of every later cell is skipped.
SkippingStartMutant(frame, region, i) ==
  IF i = 1 THEN 0 ELSE CellEndAt(frame, region, i - 1) + 1

CellStartAt(frame, region, i) == IF i = 1 THEN 0 ELSE CellEndAt(frame, region, i - 1)

CellText(frame, region, i) ==
  Slice(region, CellStartAt(frame, region, i), CellEndAt(frame, region, i))

CellBoundary(frame, region, i) ==
  LET last == i = CellCount(frame, region)
  IN  CASE last /\ (frame.incomplete \/ frame.diagnosed) -> "Unbounded"
        [] ~ last                                        -> "EOC"
        [] OTHER -> IF frame.cells[i].semi \/ EndsWithNewline(CellText(frame, region, i))
                    THEN "EOC" ELSE "EOF"

RegionCells(frame, region, at) ==
  [i \in 1 .. CellCount(frame, region) |->
     IF frame.fatal # "none" THEN AnalyzeCell(region, at, "Unbounded")
     ELSE AnalyzeCell(CellText(frame, region, i), at + CellStartAt(frame, region, i),
                      CellBoundary(frame, region, i))]

AnalyzeRegion(region, at) == RegionCells(Frame(region), region, at)

\* Slicing the region panics when a cell would end before the cell in front of it.
Overlapping(frame, region) ==
  /\ frame.fatal = "none"
  /\ \E i, j \in 1 .. CellCount(frame, region) :
       i < j /\ CellEndAt(frame, region, j) < CellEndAt(frame, region, i)

AnalyzeRegionPanics(region) == Overlapping(Frame(region), region)

(***************************************************************************)
(* first_affected_cell and reusable_suffix.                                *)
(***************************************************************************)
SmallestOf(S, otherwise) ==
  IF S = {} THEN otherwise ELSE CHOOSE i \in S : \A j \in S : i <= j

\* Mutants of FirstAffectedCell: an edit right after an open cell leaves it
\* alone; an edit right after a confirmed one reparses it.
OpenCellIgnoredMutant(edit) ==
  SmallestOf({ i \in 1 .. Len(cells) : edit.start < cells[i].end }, Len(cells) + 1)
ConfirmedCellReparsedMutant(edit) ==
  SmallestOf({ i \in 1 .. Len(cells) : edit.start <= cells[i].end }, Len(cells) + 1)

FirstAffectedCell(edit) ==
  SmallestOf({ i \in 1 .. Len(cells) :
                 \/ edit.start < cells[i].end
                 \/ edit.start = cells[i].end /\ cells[i].boundary # "EOC" },
             Len(cells) + 1)

RegionStart(first) == IF first <= Len(cells) THEN cells[first].start ELSE Len(source)

AllConfirmed(frame, text) ==
  /\ frame.fatal = "none"
  /\ ~ frame.diagnosed
  /\ ~ frame.incomplete
  /\ \/ frame.cells = <<>>
     \/ frame.cells # <<>> /\ frame.cells[Len(frame.cells)].semi
     \/ EndsWithNewline(text)

EndsAtConfirmedBoundary(text) == Blank(text) \/ AllConfirmed(Frame(text), text)

\* Mutant of Reusable: the text in front need not end at a boundary.
AnyBoundaryMutant(edit, new, first, index) ==
  LET new_start == Shift(edit, cells[index].start)
  IN  /\ new_start >= RegionStart(first)
      /\ Slice(source, cells[index].start, Len(source)) = Slice(new, new_start, Len(new))

Reusable(edit, new, first, index) ==
  LET old_start == cells[index].start
      new_start == Shift(edit, old_start)
  IN  /\ new_start >= RegionStart(first)
      /\ Slice(source, old_start, Len(source)) = Slice(new, new_start, Len(new))
      /\ EndsAtConfirmedBoundary(Slice(new, RegionStart(first), new_start))

\* The first cell of the suffix that is kept, or one past the last cell.
ReusableSuffix(edit, new, first) ==
  SmallestOf({ i \in first + 1 .. Len(cells) : Reusable(edit, new, first, i) }, Len(cells) + 1)

RebuildEnd(edit, new, suffix) ==
  IF suffix <= Len(cells) THEN Shift(edit, cells[suffix].start) ELSE Len(new)

\* Mutants of Shifted: a reused cell keeps its old span, or only its start moves.
UnshiftedMutant(edit, cell) == cell
StartShiftedMutant(edit, cell) == [cell EXCEPT !.start = Shift(edit, @)]

Shifted(edit, cell) ==
  [cell EXCEPT !.start = Shift(edit, @), !.end = Shift(edit, @)]

\* Mutant of Reparsed: the count is taken for the index after the range.
EndForCountMutant(first, region) ==
  [first |-> first, count |-> first + CellCount(Frame(region), region)]

\* The cells that the operation rebuilt, as a range of the new ones.
Reparsed(first, region) == [first |-> first, count |-> CellCount(Frame(region), region)]

(***************************************************************************)
(* new: the whole text is one region.                                      *)
(***************************************************************************)
Init ==
  /\ source \in Documents
  /\ ~ AnalyzeRegionPanics(source)
  /\ cells = AnalyzeRegion(source, 0)
  /\ reparsed = Reparsed(1, source)
  /\ result = "ok"

\* A panic unwinds out of the call before anything is stored; the program is
\* over unless its caller catches it, so nothing happens after one.
Alive == result # "panicked"

Rejected(edit) ==
  /\ ~ Applicable(edit, source)
  /\ result' = "rejected"
  /\ UNCHANGED <<source, cells, reparsed>>

(***************************************************************************)
(* apply_edit on an edit that fits the buffer.                             *)
(***************************************************************************)
Rebuilt(edit) ==
  LET new    == Apply(edit, source)
      first  == FirstAffectedCell(edit)
      suffix == ReusableSuffix(edit, new, first)
      from   == RegionStart(first)
      to     == RebuildEnd(edit, new, suffix)
      region == Slice(new, from, to)
  IN  /\ Applicable(edit, source)
      /\ new \in Documents
      /\ IF from > to \/ AnalyzeRegionPanics(region)
         THEN /\ result' = "panicked"
              /\ UNCHANGED <<source, cells, reparsed>>
         ELSE /\ source' = new
              /\ cells' = SubSeq(cells, 1, first - 1)
                            \o AnalyzeRegion(region, from)
                            \o [i \in 1 .. Len(cells) + 1 - suffix |->
                                  Shifted(edit, cells[suffix + i - 1])]
              /\ reparsed' = Reparsed(first, region)
              /\ result' = "ok"

ApplyEdit(edit) == Alive /\ (Rejected(edit) \/ Rebuilt(edit))

Insert == \E at \in 0 .. Len(source) + 1, text \in Snippets : ApplyEdit(Insertion(at, text))

Delete == \E start, end \in 0 .. Len(source) + 1 :
            start <= end /\ ApplyEdit(Deletion(start, end))

\* append: an insertion at the end of the buffer, which always applies.
AppendOf(text) == ApplyEdit(Insertion(Len(source), text))

AppendText == \E text \in Snippets : AppendOf(text)

Next == Insert \/ Delete \/ AppendText

Spec == Init /\ [][Next]_vars

\* The buffer of a program that only ever appends.
AppendSpec == Init /\ [][AppendText]_vars

\* state(): the aggregate of the snapshot.
AggregateState ==
  CASE \E i \in 1 .. Len(cells) : cells[i].state = "Invalid" -> "Invalid"
    [] \A i \in 1 .. Len(cells) : cells[i].state # "Invalid" ->
         IF cells = <<>> THEN "Empty"
         ELSE IF cells[Len(cells)].state = "Incomplete" THEN "Incomplete" ELSE "Complete"

-----------------------------------------------------------------------------
(***************************************************************************)
(* Correctness.                                                            *)
(***************************************************************************)
Boundaries == {"EOC", "EOF", "Unbounded"}
CellStates == {"Complete", "Incomplete", "Invalid"}

Cell == [start : Nat, end : Nat, text : Documents, boundary : Boundaries, state : CellStates]

\* Type invariant; the range reported as reparsed is one of the cells'.
TypeOK ==
  /\ source \in Documents
  /\ cells \in Seq(Cell)
  /\ reparsed \in [first : Nat \ {0}, count : Nat]
  /\ reparsed.first + reparsed.count <= Len(cells) + 1
  /\ result \in {"ok", "rejected", "panicked"}

\* Every retained cell, reused and shifted ones included, still holds the
\* text of the snapshot that its span names.
RetainedText ==
  \A i \in 1 .. Len(cells) : cells[i].text = Slice(source, cells[i].start, cells[i].end)

\* The cells lie in the snapshot, in its order, and do not overlap.
Ordered ==
  /\ \A i \in 1 .. Len(cells) :
       /\ cells[i].start <= cells[i].end
       /\ cells[i].end <= Len(source)
  /\ \A i, j \in 1 .. Len(cells) : i < j => cells[i].end <= cells[j].start

\* Only the last cell may still be open: text after a cell that is not
\* confirmed would have to be parsed with it.
OnlyLastUnconfirmed ==
  \A i \in 1 .. Len(cells) - 1 : cells[i].boundary = "EOC"

\* "Independently framed cells covering the current source" (the field cells):
\* whatever is not layout lies in a cell.
EverythingCovered ==
  \A p \in 1 .. Len(source) : source[p] \notin Layout =>
    \E i \in 1 .. Len(cells) : cells[i].start < p /\ p <= cells[i].end

\* What a reader of the cells is told: their text up to surrounding layout,
\* and how each ends.
Trim(text) ==
  LET ink == { i \in 1 .. Len(text) : text[i] \notin Layout }
  IN  IF ink = {} THEN <<>>
      ELSE SubSeq(text, CHOOSE i \in ink : \A j \in ink : i <= j,
                        CHOOSE i \in ink : \A j \in ink : j <= i)

Units(parsed) ==
  [i \in DOMAIN parsed |-> <<Trim(parsed[i].text), parsed[i].boundary, parsed[i].state>>]

\* Rebuilding only a region of the document gives the cells that parsing all
\* of it again would give: nothing reused is stale.  Asked of documents that
\* can be lexed, do not end in a blank, where layout after the last cell
\* decides whether it counts as ended, and hold no comment, which joins
\* the cell before it or makes one of its own by the edit that brought it.
MatchesFresh ==
  /\ Frame(source).fatal = "none"
  /\ \A p \in 1 .. Len(source) : source[p] \notin {"LC", "BO"}
  /\ source # <<>> => source[Len(source)] # "SP"
  => Units(cells) = Units(AnalyzeRegion(source, 0))

\* The same under arbitrary edits, which can leave text in no cell at all
\* (EverythingCovered fails then).
CoveredMatchesFresh == EverythingCovered => MatchesFresh

\* append never reparses what is confirmed: as long as all the cells up to
\* the k-th are confirmed, they are the same records afterwards.
ConfirmedSurviveAppend ==
  [][AppendText =>
       \A k \in 1 .. Len(cells) :
         (\A i \in 1 .. k : cells[i].boundary = "EOC") =>
            k <= Len(cells') /\ cells'[k] = cells[k]]_vars

\* state() looks at the last cell only for Incomplete: no earlier cell is left
\* incomplete, so that Complete speaks for all of them.
CompleteSpeaksForAll ==
  AggregateState = "Complete" => \A i \in 1 .. Len(cells) : cells[i].state = "Complete"

\* Cells behind one another are ended, and the summary of them is true.  Asked
\* of documents without block comments: behind one that leads a line, framing
\* leaves the cell in front unfinished, and others after it.
OnlyLastOpen == OnlyLastUnconfirmed /\ CompleteSpeaksForAll

\* A document that only grew has all its text in cells, those of a fresh parse.
GrownLikeFresh == EverythingCovered /\ MatchesFresh

\* append stops the program only when what it makes has a block comment at the
\* start of a line that goes on behind it: cells may then end in front of one
\* another, and analyze_region slices backwards.  Everything else an appended
\* text can do is retained in the cells.
PanicsOnlyBehindBlocks ==
  [][result' = "panicked" =>
       \A text \in Snippets : AppendOf(text) => BlockLeadsLine(source \o text)]_vars

\* "Returns an error if the edit cannot be applied"; invalid syntax "is
\* retained in the affected cells rather than failing the edit operation":
\* no edit stops the program.
EditsNeverPanic == result # "panicked"

=============================================================================
