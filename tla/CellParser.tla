----------------------------- MODULE CellParser -----------------------------
(***************************************************************************)
(* NativeCellParser (parser/native.rs): the line-oriented shell parser.    *)
(* Lines are appended to an active buffer; every refresh takes the cells   *)
(* that are complete out of its front, and classifies what is left.        *)
(*                                                                         *)
(* Lexing, framing and parsing are parameters, as in Realtime;             *)
(* FirstOutcome(text) is how parse_raw_cell ends on the first cell of a    *)
(* text, or on its incomplete tail when that is all there is.              *)
(***************************************************************************)
EXTENDS TextShape, FiniteSets
LOCAL INSTANCE SequencesExt

CONSTANTS
  Texts,             \* the texts explored: the bound on the buffer and on the
                     \* length of the history
  Lines,             \* the lines that are submitted
  Frame(_),
  FirstOutcome(_)

ASSUME TextsAssumption ==
  /\ Texts \subseteq Seq(STRING)
  /\ <<>> \in Texts
  /\ \A t \in Texts : \A from, to \in 0 .. Len(t) : SubSeq(t, from + 1, to) \in Texts

ASSUME LinesAssumption == Lines \subseteq Seq(STRING)

ASSUME FrameAssumption ==
  \A t \in Texts :
    /\ Frame(t) \in [fatal : STRING, diagnosed : BOOLEAN, incomplete : BOOLEAN,
                     cells : Seq([end : Nat, semi : BOOLEAN])]
    /\ \A i \in DOMAIN Frame(t).cells : Frame(t).cells[i].end \in 1 .. Len(t)

VARIABLES
  active_source,     \* the text of the unfinished cell
  active_tokens,     \* the text whose tokens are retained, <<>> for none
  active_syntax,     \* whether typed syntax of the unfinished cell is retained
  completed,         \* the queued units, each by its source text
  errors,            \* the lexer diagnostics and parse errors retained, by kind
  state,
  submitted,         \* history: the lines pushed, less what reset_active dropped
  taken,             \* history: the units handed out by take_completed
  refused            \* history: Invalid was reported since the last reset_active

vars == <<active_source, active_tokens, active_syntax, completed, errors, state,
          submitted, taken, refused>>

IncompleteLexErrors == {"UnterminatedGroup", "UnterminatedString",
                        "UnterminatedRawString", "UnterminatedBlockComment"}

\* Mutant of Waiting: the queue is forgotten.
QueueForgottenMutant(queue) == "Empty"

Waiting(queue) == IF queue = <<>> THEN "Empty" ELSE "Complete"

(***************************************************************************)
(* One pass of refresh's loop over the buffer `text`.                      *)
(***************************************************************************)
HasCell(frame) == frame.cells # <<>> \/ frame.incomplete

\* The first cell is a complete one, and something comes after it.
CellComplete(frame) == frame.cells # <<>>
HasFollowing(frame) == Len(frame.cells) + (IF frame.incomplete THEN 1 ELSE 0) > 1

\* Mutant of FirstUnit: the unit takes the whole buffer.
WholeBufferMutant(frame, text) == text

FirstUnit(frame, text) == SubSeq(text, 1, frame.cells[1].end)

\* Mutant of AfterFirst: one symbol too many is removed.
OffByOneMutant(frame, text) == SubSeq(text, frame.cells[1].end + 2, Len(text))

AfterFirst(frame, text) == SubSeq(text, frame.cells[1].end + 1, Len(text))

\* Mutant of TakesFirst: a cell that does not parse is taken too.
UnparsedTakenMutant(frame, outcome) ==
  frame.fatal = "none" /\ HasFollowing(frame) /\ CellComplete(frame)

TakesFirst(frame, outcome) ==
  /\ frame.fatal = "none"
  /\ HasFollowing(frame)
  /\ CellComplete(frame)
  /\ outcome = "syntax"

TakesLast(frame, outcome) ==
  /\ frame.fatal = "none"
  /\ CellComplete(frame)
  /\ ~ HasFollowing(frame)
  /\ ~ frame.diagnosed
  /\ outcome = "syntax"

\* The class of a parse error: a cell that a following cell or a semicolon
\* has ended cannot be completed any more.
ErrorState(frame, outcome) ==
  LET can_append == \/ ~ CellComplete(frame)
                    \/ ~ HasFollowing(frame) /\ ~ frame.cells[1].semi
  IN  IF can_append /\ outcome = "unfinished" THEN "Incomplete" ELSE "Invalid"

\* How the loop ends on a buffer it takes no further unit from in full.
Left(text, tokens, syntax, kind, class) ==
  [units |-> <<>>, active |-> text, tokens |-> tokens, syntax |-> syntax,
   errors |-> kind, state |-> class]

Diagnosed(frame) == IF frame.diagnosed THEN {"lexer"} ELSE {}

Rest(frame, outcome, text) ==
  CASE frame.fatal # "none" ->
         Left(text, <<>>, FALSE, {"lexer"},
              IF frame.fatal \in IncompleteLexErrors THEN "Incomplete" ELSE "Invalid")
    [] frame.fatal = "none" /\ (~ HasCell(frame) \/ outcome = "empty") ->
         Left(text, text, FALSE, Diagnosed(frame), "waiting")
    [] TakesLast(frame, outcome) ->
         [Left(<<>>, <<>>, FALSE, {}, "waiting") EXCEPT !.units = <<FirstUnit(frame, text)>>]
    [] /\ frame.fatal = "none" /\ HasCell(frame) /\ outcome = "syntax"
       /\ ~ TakesLast(frame, outcome) ->
         Left(text, text, TRUE, Diagnosed(frame), "Incomplete")
    [] OTHER ->
         Left(text, text, FALSE, Diagnosed(frame) \cup {"parser"}, ErrorState(frame, outcome))

(***************************************************************************)
(* refresh: complete cells that others follow are taken one after another. *)
(***************************************************************************)
RefreshOf[text \in Texts] ==
  IF ~ TakesFirst(Frame(text), FirstOutcome(text))
  THEN Rest(Frame(text), FirstOutcome(text), text)
  ELSE [RefreshOf[AfterFirst(Frame(text), text)] EXCEPT
          !.units = <<FirstUnit(Frame(text), text)>> \o @]

Settle(after, queue) ==
  /\ active_source' = after.active
  /\ active_tokens' = after.tokens
  /\ active_syntax' = after.syntax
  /\ errors' = after.errors
  /\ completed' = queue
  /\ state' = IF after.state = "waiting" THEN Waiting(queue) ELSE after.state

Refresh(after) == Settle(after, completed \o after.units)

-----------------------------------------------------------------------------
Init ==
  /\ active_source = <<>>
  /\ active_tokens = <<>>
  /\ active_syntax = FALSE
  /\ completed = <<>>
  /\ errors = {}
  /\ state = "Empty"
  /\ submitted = <<>>
  /\ taken = <<>>
  /\ refused = FALSE

EndsWithNewline(text) == text # <<>> /\ text[Len(text)] = "NL"


\* push_line supplies the line feed a submitted line lacks.
Submission(line) == IF EndsWithNewline(line) THEN line ELSE Append(line, "NL")

PushLine == \E line \in Lines :
  /\ active_source \o Submission(line) \in Texts
  /\ submitted \o Submission(line) \in Texts
  /\ Refresh(RefreshOf[active_source \o Submission(line)])
  /\ submitted' = submitted \o Submission(line)
  /\ refused' = (refused \/ state' = "Invalid")
  /\ UNCHANGED taken

\* take_completed hands out the queue and leaves the active cell alone.
TakeCompleted ==
  /\ completed' = <<>>
  /\ state' = IF state = "Complete" THEN "Empty" ELSE state
  /\ taken' = taken \o completed
  /\ UNCHANGED <<active_source, active_tokens, active_syntax, errors, submitted, refused>>

\* Mutant of ResetActive: the tokens of the dropped cell are kept.
TokensKeptMutant ==
  /\ active_source' = <<>>
  /\ active_syntax' = FALSE
  /\ errors' = {}
  /\ state' = Waiting(completed)
  /\ submitted' = SubSeq(submitted, 1, Len(submitted) - Len(active_source))
  /\ refused' = FALSE
  /\ UNCHANGED <<active_tokens, completed, taken>>

\* reset_active drops the unfinished cell, the last text submitted.
ResetActive ==
  /\ active_source' = <<>>
  /\ active_tokens' = <<>>
  /\ active_syntax' = FALSE
  /\ errors' = {}
  /\ state' = Waiting(completed)
  /\ submitted' = SubSeq(submitted, 1, Len(submitted) - Len(active_source))
  /\ refused' = FALSE
  /\ UNCHANGED <<completed, taken>>

Next == PushLine \/ TakeCompleted \/ ResetActive

Spec == Init /\ [][Next]_vars

-----------------------------------------------------------------------------
(***************************************************************************)
(* Correctness.                                                            *)
(***************************************************************************)
\* Texts one after another.
Joined(texts) ==
  LET joined[i \in 0 .. Len(texts)] == IF i = 0 THEN <<>> ELSE joined[i - 1] \o texts[i]
  IN  joined[Len(texts)]

\* What a text holds besides layout.
Ink(text) == Joined([p \in 1 .. Len(text) |-> IF text[p] \in Layout THEN <<>> ELSE <<text[p]>>])

\* Every unit completed so far, handed out or still queued.
Units == taken \o completed

\* Type invariant; the tokens retained are those of the active source.
TypeOK ==
  /\ active_source \in Texts
  /\ active_tokens \in {<<>>, active_source}
  /\ active_syntax \in BOOLEAN
  /\ completed \in Seq(Texts)
  /\ taken \in Seq(Texts)
  /\ errors \subseteq {"lexer", "parser"}
  /\ state \in {"Empty", "Complete", "Incomplete", "Invalid"}
  /\ submitted \in Texts
  /\ refused \in BOOLEAN

\* Cutting complete cells out of the buffer (replace_range) and clearing it
\* with its last cell lose no token and no comment, and keep their order: the
\* units and the active cell spell everything submitted.
NothingLost ==
  ~ MixesComments(submitted) => Ink(submitted) = Ink(Joined(Units) \o active_source)

OneCompleteCell(frame) ==
  /\ frame.fatal = "none"
  /\ ~ frame.diagnosed
  /\ Len(frame.cells) = 1
  /\ ~ frame.incomplete

\* CompletedNativeCell::source is the source of one unit: framed on its own
\* it is exactly one complete cell, with nothing to diagnose.  Asked of units in
\* which no block comment leads a line: behind one, the end of the cell may lie
\* behind the next cell too (end_span).
UnitsStandAlone ==
  \A i \in DOMAIN completed : ~ BlockLeadsLine(completed[i]) => OneCompleteCell(Frame(completed[i]))

\* What a symbol is in: code, a string or a comment.
Enters(within, symbol) ==
  CASE within = "code" /\ symbol = "LC"   -> "line"
    [] within = "code" /\ symbol = "BO"   -> "block"
    [] within = "code" /\ symbol = "QT"   -> "string"
    [] within = "line" /\ symbol = "NL"   -> "code"
    [] within = "block" /\ symbol = "BC"  -> "code"
    [] within = "string" /\ symbol = "QT" -> "code"
    [] within = "string" /\ symbol = "BS" -> "escape"
    [] within = "escape"                  -> "string"
    [] OTHER                              -> within

Within(text) ==
  LET within[i \in 0 .. Len(text)] ==
        IF i = 0 THEN "code" ELSE Enters(within[i - 1], text[i])
  IN  within

\* What a text holds besides layout and comments.
Written(text) ==
  { p \in DOMAIN text :
      \/ Within(text)[p - 1] \in {"string", "escape"}
      \/ Within(text)[p - 1] = "code" /\ text[p] \notin Layout \cup {"LC", "BO"} }

Code(text) ==
  [k \in 1 .. Cardinality(Written(text)) |->
     text[SetToSortSeq(Written(text), LAMBDA p, q : p < q)[k]]]

\* Code, or a comment that does not end.
Unfinished(text) == Written(text) # {} \/ Within(text)[Len(text)] = "block"

\* The state a shell prompts by is the truth about the buffer after any
\* sequence of calls: Empty and Complete leave no code unfinished and differ
\* in the queue, Incomplete and Invalid hold some, and Invalid says why.
StateTruthful ==
  /\ state \in {"Incomplete", "Invalid"} <=> Unfinished(active_source)
  /\ state = "Empty" => completed = <<>>
  /\ state = "Complete" => completed # <<>>
  /\ state = "Invalid" => errors # {}
  /\ active_syntax => state = "Incomplete"

Codes(units) == [i \in DOMAIN units |-> Code(units[i])]

AsBatch(batch) ==
  LET open == {"Incomplete", "Invalid"}
  IN  /\ Codes(Units) = Codes(batch.units)
      /\ state \in open \/ batch.state \in open => state = batch.state


\* Invalid is an error "that appended input cannot repair": no unit completes
\* behind it before reset_active, whatever is pushed.  While a block comment is
\* open behind it the text cannot be lexed, and Incomplete is reported.
Unlexable == state = "Incomplete" /\ active_tokens = <<>> /\ active_source # <<>>

InvalidIsFinal ==
  [][refused =>
       \/ ResetActive
       \/ (state' = "Invalid" \/ Unlexable') /\ Len(completed') <= Len(completed)]_vars

=============================================================================
