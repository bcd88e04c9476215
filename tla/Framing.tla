------------------------------ MODULE Framing ------------------------------
(***************************************************************************)
(* frame_recovering and end_span (lex/cell_stream.rs) with the boundary    *)
(* rule newline_ends_cell (lex/lexer.rs): how one lexed text is cut into   *)
(* evaluation units ("cells"), and where in the text each cell ends.       *)
(*                                                                         *)
(* A cell is the sequence of its top-level trees, as nodes of the stream.  *)
(***************************************************************************)
EXTENDS LexicalScan
LOCAL INSTANCE SequencesExt

\* The word or punctuation a tree spells; groups and literals spell none that
\* any rule below looks for.
Spells(node, spellings) == node.kind \in {"ident", "punct"} /\ node.spelling \in spellings

IsQuoteSpecifier(node) == node.kind = "ident" /\ node.spelling \in QuoteSpecifiers

\* keyword_requires_value, and the declared operators that are not postfix.
RequiresValue == QuoteSpecifiers \cup
  {"if", "then", "else", "for", "while", "list", "do", "except", "try"}
OpenOperators == {"+", "/", "BC", "BS"}

\* tokens_cross_line_break, between two trees of one source.
CrossesLineBreak(stream, text, left, right) ==
  \E p \in stream[left].to + 1 .. stream[right].from : text[p] = "NL"

(***************************************************************************)
(* newline_ends_cell.  Clauses of one kind are interchangeable, so the     *)
(* vector of required clauses is kept as a count of each kind.             *)
(***************************************************************************)
ClausesStart == [then |-> 0, body |-> 0, exc |-> 0, last |-> "none", quote_next |-> FALSE]

Less(n) == IF n = 0 THEN 0 ELSE n - 1

AfterClauseWord(c, word) ==
  CASE word = "if"                -> [c EXCEPT !.then = @ + 1]
    [] word \in {"for", "while"}  -> [c EXCEPT !.body = @ + 1]
    [] word = "except"            -> [c EXCEPT !.exc = @ + 1]
    [] word = "then"              -> [c EXCEPT !.then = Less(@)]
    [] word = "list"              -> [c EXCEPT !.body = Less(@)]
    [] word = "do" /\ c.exc > 0   -> [c EXCEPT !.exc = @ - 1]
    [] word = "do" /\ c.exc = 0   -> [c EXCEPT !.body = Less(@)]
    [] OTHER                      -> c

AfterTree(c, node) ==
  CASE node.kind \in {"group", "literal"} -> [c EXCEPT !.quote_next = FALSE, !.last = "none"]
    [] c.quote_next                       -> [c EXCEPT !.quote_next = FALSE, !.last = "none"]
    [] OTHER -> [AfterClauseWord(c, node.spelling) EXCEPT
                   !.last = node.spelling, !.quote_next = IsQuoteSpecifier(node)]

Settled(c) ==
  /\ c.then = 0 /\ c.body = 0 /\ c.exc = 0
  /\ c.last \notin RequiresValue \cup OpenOperators

NewlineEndsCell(stream, trees) ==
  Settled(FoldLeft(LAMBDA acc, i : AfterTree(acc, stream[i]), ClausesStart, trees))

(***************************************************************************)
(* The loop of frame_recovering over the top-level trees.  A semicolon     *)
(* boundary is taken at the next tree, so that trailing comments stay with *)
(* the cell the semicolon ends.                                            *)
(***************************************************************************)
FrameStart == [cells |-> <<>>, current |-> <<>>, pending |-> FALSE, quote_next |-> FALSE]

Placed(stream, f, i, cut) ==
  LET quoted == ~ cut /\ f.quote_next
  IN  [cells      |-> IF cut THEN Append(f.cells, f.current) ELSE f.cells,
       current    |-> IF cut THEN <<i>> ELSE Append(f.current, i),
       pending    |-> ~ quoted /\ Spells(stream[i], {";"}),
       quote_next |-> ~ quoted /\ IsQuoteSpecifier(stream[i])]

FrameTree(stream, text, f, i) ==
  Placed(stream, f, i, \/ f.pending
                       \/ /\ f.current # <<>>
                          /\ CrossesLineBreak(stream, text, Last(f.current), i)
                          /\ NewlineEndsCell(stream, f.current))

\* The comments of the stream itself follow the first and the last cell: its
\* suffix trails the last tree, or joins the prefix when there is no tree.
Distribute(stream) ==
  LET last == LastTree(stream, 1)
  IN  IF last = 0 THEN [stream EXCEPT ![1].prefix = @ \o stream[1].suffix, ![1].suffix = <<>>]
      ELSE [stream EXCEPT ![last].trail = @ \o stream[1].suffix, ![1].suffix = <<>>]

EndsInIncompleteGroup(stream, trees) == stream[Last(trees)].open

\* What is left when the trees are used up: a last cell, or a tail that is
\* incomplete (an empty sequence stands for None).
Framed(stream, cells, current, last_is_cell) ==
  [stream |-> stream,
   cells |-> IF last_is_cell THEN Append(cells, current) ELSE cells,
   incomplete |-> IF last_is_cell THEN <<>> ELSE current]

FrameEnd(stream, owned, f) ==
  Framed(owned, f.cells, f.current,
    \/ f.pending
    \/ f.current = <<>> /\ owned[1].prefix # <<>>
    \/ /\ f.current # <<>>
       /\ ~ EndsInIncompleteGroup(stream, f.current)
       /\ NewlineEndsCell(stream, f.current))

(***************************************************************************)
(* frame_recovering: the complete cells, the incomplete tail if any, and   *)
(* the stream they are cut from.                                           *)
(***************************************************************************)
FrameRecovering(stream, text) ==
  FrameEnd(stream, Distribute(stream),
           FoldLeft(LAMBDA acc, i : FrameTree(stream, text, acc, i),
                    FrameStart, TreesOf(stream, 1)))

(***************************************************************************)
(* ends_with_cell_semicolon.                                               *)
(***************************************************************************)
EndsWithCellSemicolon(stream, trees) ==
  FoldLeft(LAMBDA c, i : [semicolon  |-> ~ c.quote_next /\ Spells(stream[i], {";"}),
                          quote_next |-> ~ c.quote_next /\ IsQuoteSpecifier(stream[i])],
           [semicolon |-> FALSE, quote_next |-> FALSE], trees).semicolon

(***************************************************************************)
(* token_end_span: the last comment that trails the tree, or else the last *)
(* thing inside a group that is still open, or else the tree's own end.    *)
(* insert_adjacency has settled the contents of groups, so what waits in   *)
(* the suffix of the innermost stream trails its last tree.                *)
(***************************************************************************)
EndOf(comments, otherwise) == IF comments = <<>> THEN otherwise ELSE Last(comments).to

TokenEnd(stream, i) ==
  LET g == Innermost(stream)
      last == LastTree(stream, g)
      inner == IF last # 0 THEN EndOf(stream[last].trail \o stream[g].suffix, stream[last].to)
                           ELSE EndOf(stream[g].prefix \o stream[g].suffix, stream[g].to)
  IN  EndOf(stream[i].trail, IF stream[i].open THEN inner ELSE stream[i].to)

(***************************************************************************)
(* end_span: a cell that no semicolon ends reaches past the next newline   *)
(* of the source, wherever that newline is.                                *)
(***************************************************************************)
\* Mutant of PastNewline: the last newline of the source is taken.
LastNewlineMutant(text, end) ==
  LET newlines == { p \in end + 1 .. Len(text) : text[p] = "NL" }
  IN  IF newlines = {} THEN end ELSE CHOOSE p \in newlines : \A q \in newlines : q <= p

PastNewline(text, end) ==
  LET newlines == { p \in end + 1 .. Len(text) : text[p] = "NL" }
  IN  IF newlines = {} THEN end ELSE CHOOSE p \in newlines : \A q \in newlines : p <= q

LastEnd(stream, trees) ==
  IF trees = <<>> THEN EndOf(stream[1].prefix, 0) ELSE TokenEnd(stream, Last(trees))

CellEnd(stream, text, trees) ==
  IF EndsWithCellSemicolon(stream, trees) THEN LastEnd(stream, trees)
  ELSE PastNewline(text, LastEnd(stream, trees))

(***************************************************************************)
(* What the retained parsers read off one lexed and framed text: whether   *)
(* lexing failed, whether it was diagnosed, each complete cell's end and   *)
(* whether a semicolon ends it, and whether a tail is left incomplete.     *)
(***************************************************************************)
Report(lexer, framed, text) ==
  IF lexer.error # "none"
  THEN [fatal |-> lexer.error, diagnosed |-> FALSE, cells |-> <<>>, incomplete |-> FALSE]
  ELSE [fatal |-> "none",
        diagnosed |-> lexer.diagnostics # <<>>,
        cells |-> [k \in DOMAIN framed.cells |->
          [end  |-> CellEnd(framed.stream, text, framed.cells[k]),
           semi |-> EndsWithCellSemicolon(framed.stream, framed.cells[k])]],
        incomplete |-> framed.incomplete # <<>>]

FrameLexed(lexer, text) == Report(lexer, FrameRecovering(lexer.stream, text), text)

FrameOf(text) == FrameLexed(LexRecovering(text), text)

=============================================================================
