---------------------------- MODULE NativeParser ----------------------------
(***************************************************************************)
(* The precedence engine of parser/native.rs as a recognizer: which kind   *)
(* of result parse_raw_cell gives for one text.  The typed syntax itself   *)
(* is not built.  An outcome is "syntax", "empty" (no tokens at all), or   *)
(* the class incomplete_parse_error puts the error in: "unfinished" or     *)
(* "malformed".                                                            *)
(***************************************************************************)
EXTENDS Framing
LOCAL INSTANCE SequencesExt

PREC_COMMA == 10
PREC_CONTROL == 12
PREC_COLLECTION == 56
PREC_APPLICATION_RIGHT == 61
PREC_APPLICATION == 62

ControlWords == {"if", "while", "for", "try"}
ClauseWords == {"then", "else", "do", "list", "except"}

(***************************************************************************)
(* parse_info: precedence, strengths and unary action of one token.        *)
(***************************************************************************)
Info(precedence, unary, strength, binary) ==
  [precedence |-> precedence, unary |-> unary, strength |-> strength, binary |-> binary]

ADJ == [kind |-> "adj"]

ParseInfo(token) ==
  CASE token.kind = "adj"                        -> Info(PREC_APPLICATION, "error", 0, PREC_APPLICATION_RIGHT)
    [] token.kind = "group" /\ token.spelling = "[" -> Info(PREC_COLLECTION, "delimiter", 0, 0)
    [] token.kind = "group" /\ token.spelling = "(" -> Info(PREC_APPLICATION, "delimiter", 0, 0)
    [] token.kind = "literal"                    -> Info(PREC_APPLICATION, "atom", 0, 0)
    [] Spells(token, {"+"})                      -> Info(50, "prefix", 50, 50)
    [] Spells(token, {"BC"})                     -> Info(58, "prefix", 58, 58)
    [] Spells(token, {"/"})                      -> Info(58, "error", 0, 58)
    [] Spells(token, {"BS"})                     -> Info(58, "error", 0, 57)
    [] Spells(token, {"!"})                      -> Info(72, "postfix", 0, 0)
    [] Spells(token, ClauseWords)                -> Info(PREC_CONTROL, "error", 0, 0)
    [] Spells(token, ControlWords)               -> Info(PREC_APPLICATION, "control", PREC_CONTROL, 0)
    [] Spells(token, QuoteSpecifiers)            -> Info(PREC_APPLICATION, "quote", 74, 0)
    [] Spells(token, {";"})                      -> Info(8, "error", 0, 0)
    [] Spells(token, {","})                      -> Info(PREC_COMMA, "error", 0, 0)
    [] Spells(token, {"x"})                      -> Info(PREC_APPLICATION, "atom", 0, 0)
    [] OTHER                                     -> Info(PREC_APPLICATION, "error", 0, 0)

(***************************************************************************)
(* insert_adjacency: implicit application between two operands on a line.  *)
(***************************************************************************)
CanBeginImplicitOperand(node) ==
  \/ node.kind \in {"literal", "group"}
  \/ Spells(node, ControlWords \cup QuoteSpecifiers \cup {"x"})

CanEndOperand(node) ==
  node.kind \in {"literal", "group"} \/ Spells(node, {"x", "!"})

InsertAdjacency(stream, text, trees) ==
  LET start == [out |-> <<>>, left |-> 0, left_can_end |-> FALSE, quote_next |-> FALSE]
      next(acc, i) ==
        LET quoted == acc.quote_next
            applied == /\ acc.left_can_end
                       /\ ~ quoted
                       /\ ~ CrossesLineBreak(stream, text, acc.left, i)
                       /\ CanBeginImplicitOperand(stream[i])
            token == [kind |-> stream[i].kind, spelling |-> stream[i].spelling, node |-> i]
        IN  [out |-> acc.out \o (IF applied THEN <<ADJ, token>> ELSE <<token>>),
             left |-> i,
             left_can_end |-> quoted \/ CanEndOperand(stream[i]),
             quote_next |-> ~ quoted /\ IsQuoteSpecifier(stream[i])]
  IN  FoldLeft(next, start, trees).out

(***************************************************************************)
(* The engine: `t` is its token sequence and `at` the next position.  A    *)
(* parse routine returns the position it stops at, or an error; "absent"   *)
(* is parse_nullable's None.                                               *)
(***************************************************************************)
Parsed(at) == [at |-> at, error |-> "none"]
Fails(class) == [at |-> 0, error |-> class]
AtEnd(t, at) == at > Len(t)
AtSpelling(t, at, spellings) == ~ AtEnd(t, at) /\ Spells(t[at], spellings)

\* lookahead's crossed_newline: a line break since the token before.
CrossedNewline(source, t, at) ==
  /\ at > 1
  /\ t[at - 1].kind # "adj"
  /\ CrossesLineBreak(source.stream, source.text, t[at - 1].node, t[at].node)

RECURSIVE ParseRequired(_, _, _, _), ParseConsumed(_, _, _, _), Accumulate(_, _, _, _),
          ParseComponents(_, _, _), ParseMoreComponents(_, _, _), ParseStatements(_, _, _),
          ParseDelimited(_, _)

\* Continues with Rest at the position r stopped at, unless r is an error.
Then(r, Rest(_)) == IF r.error = "none" THEN Rest(r.at) ELSE r

\* parse_required: running out of input is MissingOperand.
ParseRequired(source, t, at, level) ==
  IF AtEnd(t, at) THEN Fails("unfinished") ELSE ParseConsumed(source, t, at, level)

\* required_clause_expression: MissingOperand, also before a token that
\* cannot begin the clause.
RequiredClause(source, t, at, level) ==
  IF AtEnd(t, at) \/ ParseInfo(t[at]).precedence <= level THEN Fails("unfinished")
  ELSE ParseConsumed(source, t, at, level)

\* consume_exact and consume_symbol.
ConsumeExact(t, at, spelling) ==
  IF AtEnd(t, at) THEN Fails("unfinished")
  ELSE IF Spells(t[at], {spelling}) THEN Parsed(at + 1) ELSE Fails("malformed")

ConsumeSymbol(t, at) == ConsumeExact(t, at, "x")

\* An optional clause introduced by `spelling`.
OptionalClause(source, t, at, spelling) ==
  IF AtSpelling(t, at, {spelling}) THEN RequiredClause(source, t, at + 1, PREC_CONTROL)
  ELSE Parsed(at)

IfStatement(source, t, at) ==
  Then(RequiredClause(source, t, at, PREC_CONTROL), LAMBDA a :
  Then(ConsumeExact(t, a, "then"), LAMBDA b :
  Then(RequiredClause(source, t, b, PREC_CONTROL), LAMBDA c :
       OptionalClause(source, t, c, "else"))))

LoopBody(source, t, at) ==
  IF AtSpelling(t, at, {"list"})
  THEN Then(RequiredClause(source, t, at + 1, PREC_CONTROL), LAMBDA a :
            OptionalClause(source, t, a, "do"))
  ELSE IF AtSpelling(t, at, {"do"}) THEN RequiredClause(source, t, at + 1, PREC_CONTROL)
  ELSE IF AtEnd(t, at) THEN Fails("unfinished") ELSE Fails("malformed")

WhileLoop(source, t, at) ==
  Then(RequiredClause(source, t, at, PREC_CONTROL), LAMBDA a : LoopBody(source, t, a))

ForLoop(source, t, at) ==
  Then(ConsumeSymbol(t, at), LAMBDA a : LoopBody(source, t, a))

TryStatement(source, t, at) ==
  Then(RequiredClause(source, t, at, PREC_CONTROL), LAMBDA a :
  Then(OptionalClause(source, t, a, "then"), LAMBDA b :
       IF AtSpelling(t, b, {"except"})
       THEN Then(ConsumeSymbol(t, b + 1), LAMBDA c :
            Then(ConsumeExact(t, c, "do"), LAMBDA d :
                 RequiredClause(source, t, d, PREC_CONTROL)))
       ELSE OptionalClause(source, t, b, "else")))

Control(source, t, at) ==
  CASE Spells(t[at], {"if"})    -> IfStatement(source, t, at + 1)
    [] Spells(t[at], {"while"}) -> WhileLoop(source, t, at + 1)
    [] Spells(t[at], {"for"})   -> ForLoop(source, t, at + 1)
    [] Spells(t[at], {"try"})   -> TryStatement(source, t, at + 1)

\* The token after a quote specifier is taken whatever it is, but a group
\* spells nothing to quote.
Quoted(t, at) ==
  IF AtEnd(t, at) THEN Fails("unfinished")
  ELSE IF t[at].kind = "group" THEN Fails("malformed") ELSE Parsed(at + 1)

ParseConsumed(source, t, at, level) ==
  LET info == ParseInfo(t[at])
      operand == IF level > info.strength THEN level ELSE info.strength
      result ==
        CASE info.unary = "atom"      -> Parsed(at + 1)
          [] info.unary = "prefix"    -> ParseRequired(source, t, at + 1, operand)
          [] info.unary = "control"   -> Control(source, t, at)
          [] info.unary = "delimiter" -> Then(ParseDelimited(source, t[at].node),
                                              LAMBDA inner : Parsed(at + 1))
          [] info.unary = "quote"     -> Quoted(t, at + 1)
          [] OTHER                    -> Fails("malformed")
  IN  Then(result, LAMBDA next : Accumulate(source, t, next, level))

\* adjacency_info: an implicit application binds as its right operand does.
NextPrecedence(t, at) ==
  IF t[at].kind # "adj" THEN ParseInfo(t[at]).precedence
  ELSE IF AtEnd(t, at + 1) THEN PREC_APPLICATION ELSE ParseInfo(t[at + 1]).precedence

Accumulate(source, t, at, level) ==
  IF AtEnd(t, at) \/ (~ AtEnd(t, at) /\ NextPrecedence(t, at) <= level) THEN Parsed(at)
  ELSE LET info == ParseInfo(t[at])
           step ==
             CASE info.binary > 0          -> ParseRequired(source, t, at + 1, info.binary)
               [] info.unary = "postfix"   -> Parsed(at + 1)
               [] /\ info.unary \in {"atom", "control", "delimiter", "quote"}
                  /\ ~ CrossedNewline(source, t, at) ->
                    ParseConsumed(source, t, at, PREC_APPLICATION_RIGHT)
               [] OTHER                    -> Fails("malformed")
       IN  Then(step, LAMBDA next : Accumulate(source, t, next, level))

\* parse_components: components may be empty around commas.
ParseComponents(source, t, at) ==
  Then(IF AtSpelling(t, at, {","}) THEN Parsed(at) ELSE ParseRequired(source, t, at, PREC_COMMA),
       LAMBDA next : ParseMoreComponents(source, t, next))

ParseMoreComponents(source, t, at) ==
  IF ~ AtSpelling(t, at, {","}) THEN Parsed(at)
  ELSE Then(IF AtEnd(t, at + 1) \/ AtSpelling(t, at + 1, {";", ","}) THEN Parsed(at + 1)
            ELSE ParseRequired(source, t, at + 1, PREC_COMMA),
            LAMBDA next : ParseMoreComponents(source, t, next))

\* parse_delimited: muted statements, then what is left up to the closer.
ParseStatements(source, t, at) ==
  LET nothing == AtEnd(t, at) \/ AtSpelling(t, at, {";"})
  IN  Then(IF nothing THEN Parsed(at) ELSE ParseComponents(source, t, at), LAMBDA next :
           CASE ~ AtSpelling(t, next, {";"}) -> IF AtEnd(t, next) THEN Parsed(next)
                                                ELSE Fails("malformed")
             [] AtSpelling(t, next, {";"}) /\ nothing -> Fails("malformed")
             [] OTHER -> ParseStatements(source, t, next + 1))

ParseDelimited(source, g) ==
  ParseStatements(source,
    InsertAdjacency(source.stream, source.text, TreesOf(source.stream, g)), 1)

(***************************************************************************)
(* parse_raw_cell on all the cells one text is framed into, incomplete     *)
(* tail included: analyze_cell joins them when there are several.          *)
(***************************************************************************)
CellResult(t, r, semicolon) ==
  CASE t = <<>>                      -> IF semicolon THEN "malformed" ELSE "empty"
    [] t # <<>> /\ r.error # "none" -> r.error
    [] OTHER                         -> IF AtEnd(t, r.at) THEN "syntax" ELSE "malformed"

ParseTokens(source, t, semicolon) == CellResult(t, ParseComponents(source, t, 1), semicolon)

StripSemicolon(source, augmented, semicolon) ==
  ParseTokens(source, IF semicolon THEN Front(augmented) ELSE augmented, semicolon)

ParseRawCell(stream, text, cells) ==
  StripSemicolon([stream |-> stream, text |-> text],
    FlattenSeq([k \in DOMAIN cells |-> InsertAdjacency(stream, text, cells[k])]),
    EndsWithCellSemicolon(stream, FlattenSeq(cells)))

ParseFramed(framed, text) ==
  ParseRawCell(framed.stream, text,
    IF framed.incomplete = <<>> THEN framed.cells ELSE Append(framed.cells, framed.incomplete))

ParseOutcome(text) == ParseFramed(FrameRecovering(LexRecovering(text).stream, text), text)

(***************************************************************************)
(* parse_raw_cell on the first cell of a text, or on its incomplete tail   *)
(* when nothing comes before it: the one cell refresh looks at.            *)
(***************************************************************************)
ParseFirst(framed, text) ==
  IF framed.cells = <<>> /\ framed.incomplete = <<>> THEN "empty"
  ELSE ParseRawCell(framed.stream, text,
         <<IF framed.cells # <<>> THEN Head(framed.cells) ELSE framed.incomplete>>)

FirstCellOutcome(text) == ParseFirst(FrameRecovering(LexRecovering(text).stream, text), text)

=============================================================================
