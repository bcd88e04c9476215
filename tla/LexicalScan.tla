---------------------------- MODULE LexicalScan ----------------------------
(***************************************************************************)
(* The branches of NativeLexer::lex_recovering (lex/lexer.rs), each as an  *)
(* operator from the lexer's state to its next state, and the whole pass   *)
(* as a function of the source text.                                       *)
(*                                                                         *)
(* Symbols of a text: a word symbol is a run of identifier bytes (adjacent *)
(* ones form one identifier), "NL" and "SP" are layout, "FF" is a byte no  *)
(* M2 token can begin with although char::is_whitespace holds of it, "QT"  *)
(* and "BS" are the string quote and a backslash, "/" one slash, of which  *)
(* several in a row may be one token, "LC", "BO" and "BC" the spellings    *)
(* --, -* and *-; "Core$" is that qualifier, "eacute", "egrave" and        *)
(* "itilde" are letters of two bytes.                                      *)
(***************************************************************************)
EXTENDS TokenStream

CONSTANT MaxGroupDepth    \* MAX_GROUP_DEPTH

ASSUME MaxGroupDepthAssumption == MaxGroupDepth \in Nat \ {0}

QuoteSpecifiers == {"symbol", "local"}
Keywords == QuoteSpecifiers \cup
            {"if", "then", "else", "for", "while", "list", "do", "except", "try"}
Words == Keywords \cup {"x", "Core$", "eacute", "egrave", "itilde"}
Openers == {"(", "["}
Closers == {")", "]"}
Operators == {"+", "!", ";", ",", "BC", "BS"}

Closing(kind) == IF kind = "(" THEN ")" ELSE "]"

\* The byte `distance` after the cursor, or "EOF".
Peek(text, offset, distance) ==
  IF offset + distance < Len(text) THEN text[offset + distance + 1] ELSE "EOF"

(***************************************************************************)
(* Where a token that starts at `from` ends.                               *)
(***************************************************************************)
FirstEnd(text, from, Stops(_)) ==
  CHOOSE e \in from .. Len(text) :
    /\ e = Len(text) \/ Stops(e)
    /\ \A d \in from .. e - 1 : ~ Stops(d)

WordEnd(text, from) == FirstEnd(text, from, LAMBDA e : text[e + 1] \notin Words)
LayoutEnd(text, from) == FirstEnd(text, from, LAMBDA e : text[e + 1] # "SP")
LineCommentEnd(text, from) == FirstEnd(text, from, LAMBDA e : text[e + 1] = "NL")
BlockCommentEnd(text, from) == FirstEnd(text, from + 1, LAMBDA e : text[e + 1] = "BC")

\* slash_run_len, which never counts beyond four.
SlashRun(text, offset) ==
  LET end == FirstEnd(text, offset, LAMBDA e : text[e + 1] # "/")
  IN  IF end - offset > 4 THEN 4 ELSE end - offset

\* match_fixed on punctuation: the longest spelling, / or //, \ or \\.
PunctuationEnd(text, from) ==
  CASE Peek(text, from, 0) = "/" -> from + SlashRun(text, from)
    [] Peek(text, from, 0) = "BS" /\ Peek(text, from, 1) = "BS" -> from + 2
    [] OTHER -> from + 1

\* lex_string from its opening quote: closed, unterminated, or a bad escape.
StringScan(text, from) ==
  LET scan[i \in 0 .. Len(text) + 1] ==
        CASE i >= Len(text)       -> [status |-> "unterminated", to |-> Len(text)]
          [] i < Len(text) /\ text[i + 1] = "QT" -> [status |-> "closed", to |-> i + 1]
          [] i < Len(text) /\ text[i + 1] = "BS" ->
               IF i + 1 = Len(text) THEN [status |-> "unterminated", to |-> Len(text)]
               ELSE IF text[i + 2] \in {"QT", "BS"} THEN scan[i + 2]
               ELSE [status |-> "bad_escape", to |-> i + 2]
          [] OTHER                -> scan[i + 1]
  IN  scan[from + 1]

\* lex_raw_string: after its opener only a run that is cut to exactly three
\* slashes closes the literal; other runs are consumed one or two at a time.
RawStringScan(text, from) ==
  LET scan[i \in 0 .. Len(text)] ==
        CASE i = Len(text)          -> [status |-> "unterminated", to |-> Len(text)]
          [] SlashRun(text, i) = 3  -> [status |-> "closed", to |-> i + 3]
          [] SlashRun(text, i) \in {2, 4} -> scan[i + 2]
          [] OTHER                  -> scan[i + 1]
  IN  scan[from + 3]

(***************************************************************************)
(* The lexer's locals.  `error` is the fatal LexErrorKind, "assert" is the *)
(* assertion that the open-group stack and the token stream agree.         *)
(***************************************************************************)
LexerStart ==
  [offset |-> 0, groups |-> <<>>, stream |-> EmptyStream, quote_next |-> FALSE,
   diagnostics |-> <<>>, done |-> FALSE, error |-> "none"]

Running(lexer) == ~ lexer.done /\ lexer.error = "none"

Diagnostic(kind, from, to) == [kind |-> kind, from |-> from, to |-> to]

Emit(lexer, kind, spelling, to) ==
  [lexer EXCEPT !.offset = to,
                !.stream = Push(@, Node(kind, spelling, lexer.offset, to))]

\* Mutant of QuotesNext: any earlier specifier counts.
AnySpecifierMutant(stream) ==
  \E i \in DOMAIN stream : stream[i].kind = "ident" /\ stream[i].spelling \in QuoteSpecifiers

\* last_token_quotes_next.
QuotesNext(stream) ==
  LET last == stream[LastInnermost(stream)]
  IN  last.kind = "ident" /\ last.spelling \in QuoteSpecifiers

\* An identifier is a keyword only when the whole run spells it, or all of it
\* after Core$.
IdentSpelling(text, from, to) ==
  IF /\ text[to] \in Keywords
     /\ to = from + 1 \/ (to = from + 2 /\ text[from + 1] = "Core$")
  THEN text[to] ELSE "x"

(***************************************************************************)
(* Which branch of the main loop the next bytes select, in the code's      *)
(* order.  The longest fixed spelling wins: /// before // before /.        *)
(***************************************************************************)
Branch(text, lexer) ==
  LET first == Peek(text, lexer.offset, 0)
      quoted == lexer.quote_next
  IN  CASE first = "EOF"                       -> "end_of_input"
        [] first = "NL"                        -> "line_break"
        [] first = "SP"                        -> "whitespace"
        [] first \in Words                     -> "identifier"
        [] first = "QT"                        -> "string"
        [] first \in Openers \cup Closers /\ quoted -> "quoted_bracket"
        [] first \in Operators                 -> "punctuation"
        [] first = "/" /\ SlashRun(text, lexer.offset) < 3 -> "punctuation"
        [] first = "/" /\ SlashRun(text, lexer.offset) >= 3 -> "raw_string"
        [] first = "LC"                        -> "line_comment"
        [] first = "BO"                        -> "block_comment"
        [] first \in Openers /\ ~ quoted       -> "open"
        [] first \in Closers /\ ~ quoted       -> "close"
        [] OTHER                               -> "invalid"

\* Mutant of AfterEndOfInput: open groups are reported outermost first.
OutermostFirstMutant(text, lexer) ==
  [lexer EXCEPT
     !.done = TRUE,
     !.groups = <<>>,
     !.diagnostics = @ \o [i \in DOMAIN lexer.groups |->
        Diagnostic("UnterminatedGroup", lexer.groups[i].opening_start, Len(text))]]

\* The groups still open are reported innermost first.
AfterEndOfInput(text, lexer) ==
  LET n == Len(lexer.groups)
  IN  [lexer EXCEPT
         !.done = TRUE,
         !.groups = <<>>,
         !.diagnostics = @ \o [i \in 1 .. n |->
            Diagnostic("UnterminatedGroup", lexer.groups[n + 1 - i].opening_start, Len(text))]]

\* Mutant of AfterLineBreak: the line break is not consumed.
StuckMutant(text, lexer) == lexer

AfterLineBreak(text, lexer) == [lexer EXCEPT !.offset = @ + 1]

AfterWhitespace(text, lexer) == [lexer EXCEPT !.offset = LayoutEnd(text, @)]

\* Mutant of AfterIdentifier: a quoted specifier quotes in turn.
QuotedQuotesMutant(text, lexer) ==
  LET to == WordEnd(text, lexer.offset)
      next == Emit(lexer, "ident", IdentSpelling(text, lexer.offset, to), to)
  IN  [next EXCEPT !.quote_next = QuotesNext(next.stream)]

AfterIdentifier(text, lexer) ==
  LET to == WordEnd(text, lexer.offset)
      next == Emit(lexer, "ident", IdentSpelling(text, lexer.offset, to), to)
  IN  [next EXCEPT !.quote_next = ~ lexer.quote_next /\ QuotesNext(next.stream)]

AfterPunctuation(text, lexer) ==
  [Emit(lexer, "punct", Peek(text, lexer.offset, 0), PunctuationEnd(text, lexer.offset))
     EXCEPT !.quote_next = FALSE]

\* An unterminated literal is kept as a token and diagnosed; a bad escape is fatal.
AfterLiteral(lexer, scan, diagnosis) ==
  LET next == [Emit(lexer, "literal", "", scan.to) EXCEPT !.quote_next = FALSE]
  IN  CASE scan.status = "closed"       -> next
        [] scan.status = "unterminated" ->
             [next EXCEPT !.diagnostics =
                Append(@, Diagnostic(diagnosis, lexer.offset, scan.to))]
        [] scan.status = "bad_escape"   ->
             [lexer EXCEPT !.error = "InvalidEscape", !.offset = scan.to]

AfterString(text, lexer) ==
  AfterLiteral(lexer, StringScan(text, lexer.offset), "UnterminatedString")

AfterRawString(text, lexer) ==
  AfterLiteral(lexer, RawStringScan(text, lexer.offset), "UnterminatedRawString")

\* A comment leaves a pending quote pending.
AfterLineComment(text, lexer) ==
  LET to == LineCommentEnd(text, lexer.offset)
  IN  [lexer EXCEPT !.offset = to,
                    !.stream = PushLineComment(@, text, lexer.offset, to)]

AfterBlockComment(text, lexer) ==
  LET close == BlockCommentEnd(text, lexer.offset)
  IN  IF close = Len(text)
      THEN [lexer EXCEPT !.offset = close, !.error = "UnterminatedBlockComment"]
      ELSE [lexer EXCEPT !.offset = close + 1,
                         !.stream = PushBlockComment(@, lexer.offset, close + 1)]

\* Mutant of AfterOpen: groups nest without limit.
UnlimitedMutant(text, lexer) ==
  LET kind == Peek(text, lexer.offset, 0)
  IN  [Emit(lexer, "group", kind, lexer.offset + 1) EXCEPT
         !.quote_next = FALSE,
         !.groups = Append(@, [kind |-> kind, opening_start |-> lexer.offset])]

AfterOpen(text, lexer) ==
  LET kind == Peek(text, lexer.offset, 0)
  IN  IF Len(lexer.groups) = MaxGroupDepth
      THEN [lexer EXCEPT !.error = "NestingLimitExceeded"]
      ELSE [Emit(lexer, "group", kind, lexer.offset + 1) EXCEPT
              !.quote_next = FALSE,
              !.groups = Append(@, [kind |-> kind, opening_start |-> lexer.offset])]

AfterClose(text, lexer) ==
  LET n == Len(lexer.groups)
      closer == Peek(text, lexer.offset, 0)
      matches == n > 0 /\ Closing(lexer.groups[n].kind) = closer
      popped == [lexer EXCEPT !.offset = @ + 1, !.quote_next = FALSE,
                              !.groups = SubSeq(@, 1, n - 1)]
  IN  CASE ~ matches ->
             [lexer EXCEPT !.offset = @ + 1, !.error = "UnexpectedClosingDelimiter"]
        [] matches /\ Completable(lexer.stream, lexer.groups[n].kind) = {} ->
             [lexer EXCEPT !.error = "assert"]
        [] OTHER ->
             [popped EXCEPT !.stream =
                CompleteLastGroup(@, lexer.groups[n].kind, lexer.offset + 1)]

AfterInvalid(text, lexer) ==
  [lexer EXCEPT !.offset = @ + 1, !.error = "InvalidCharacter"]

LexStep(text, lexer) ==
  LET branch == Branch(text, lexer)
  IN  CASE branch = "end_of_input"   -> AfterEndOfInput(text, lexer)
        [] branch = "line_break"     -> AfterLineBreak(text, lexer)
        [] branch = "whitespace"     -> AfterWhitespace(text, lexer)
        [] branch = "identifier"     -> AfterIdentifier(text, lexer)
        [] branch = "string"         -> AfterString(text, lexer)
        [] branch \in {"punctuation", "quoted_bracket"} -> AfterPunctuation(text, lexer)
        [] branch = "raw_string"     -> AfterRawString(text, lexer)
        [] branch = "line_comment"   -> AfterLineComment(text, lexer)
        [] branch = "block_comment"  -> AfterBlockComment(text, lexer)
        [] branch = "open"           -> AfterOpen(text, lexer)
        [] branch = "close"          -> AfterClose(text, lexer)
        [] branch = "invalid"        -> AfterInvalid(text, lexer)

(***************************************************************************)
(* lex_str_recovering: every step but the last consumes a symbol, so the   *)
(* loop is over after Len(text) + 1 steps.                                 *)
(***************************************************************************)
LexRecovering(text) ==
  LET run[k \in 0 .. Len(text) + 1] ==
        IF k = 0 THEN LexerStart
        ELSE LET lexer == run[k - 1]
             IN  IF Running(lexer) THEN LexStep(text, lexer) ELSE lexer
  IN  run[Len(text) + 1]

=============================================================================
