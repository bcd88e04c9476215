---------------------------- MODULE NativeLexer ----------------------------
(***************************************************************************)
(* The recovering lexer (lex/lexer.rs) as a machine: one action per branch *)
(* of lex_recovering's loop, each the branch of LexicalScan.               *)
(***************************************************************************)
EXTENDS LexicalScan

CONSTANT Texts    \* the source texts explored

ASSUME TextsAssumption == Texts \subseteq Seq(STRING)

VARIABLES
  text,     \* the source, which does not change
  lexer     \* the loop's locals: see LexerStart

vars == <<text, lexer>>

Init ==
  /\ text \in Texts
  /\ lexer = LexerStart

Takes(branch) == Running(lexer) /\ Branch(text, lexer) = branch /\ UNCHANGED text

EndOfInput   == Takes("end_of_input")   /\ lexer' = AfterEndOfInput(text, lexer)
LineBreak    == Takes("line_break")     /\ lexer' = AfterLineBreak(text, lexer)
Whitespace   == Takes("whitespace")     /\ lexer' = AfterWhitespace(text, lexer)
Identifier   == Takes("identifier")     /\ lexer' = AfterIdentifier(text, lexer)
StringToken  == Takes("string")         /\ lexer' = AfterString(text, lexer)
RawString    == Takes("raw_string")     /\ lexer' = AfterRawString(text, lexer)
QuotedBracket == Takes("quoted_bracket") /\ lexer' = AfterPunctuation(text, lexer)
Punctuation  == Takes("punctuation")    /\ lexer' = AfterPunctuation(text, lexer)
LineComment  == Takes("line_comment")   /\ lexer' = AfterLineComment(text, lexer)
BlockComment == Takes("block_comment")  /\ lexer' = AfterBlockComment(text, lexer)
Open         == Takes("open")           /\ lexer' = AfterOpen(text, lexer)
Close        == Takes("close")          /\ lexer' = AfterClose(text, lexer)
Invalid      == Takes("invalid")        /\ lexer' = AfterInvalid(text, lexer)

Next ==
  \/ EndOfInput \/ LineBreak \/ Whitespace \/ Identifier \/ StringToken \/ RawString
  \/ QuotedBracket \/ Punctuation \/ LineComment \/ BlockComment \/ Open \/ Close
  \/ Invalid

\* The loop runs on its caller's thread until it returns.
Spec == Init /\ [][Next]_vars /\ WF_vars(Next)

-----------------------------------------------------------------------------
(***************************************************************************)
(* Correctness.                                                            *)
(***************************************************************************)
Errors == {"none", "InvalidEscape", "UnterminatedBlockComment", "NestingLimitExceeded",
           "UnexpectedClosingDelimiter", "InvalidCharacter", "assert"}

Spellings == Keywords \cup Openers \cup Closers \cup Operators \cup {"x", "/", ""}

Spans == [kind : {"line", "block"}, from : Nat, to : Nat]

Diagnostics == [kind : {"UnterminatedGroup", "UnterminatedString", "UnterminatedRawString"},
                from : Nat, to : Nat]

\* The nodes of a stream, as Node builds them.
Nodes == [kind : {"root", "group", "ident", "punct", "literal"}, spelling : Spellings,
          from : Nat, to : Nat, depth : Nat, open : BOOLEAN,
          lead : Seq(Spans), trail : Seq(Spans), prefix : Seq(Spans), suffix : Seq(Spans)]

Lexers == [offset : Nat, groups : Seq([kind : Openers, opening_start : Nat]),
           stream : Seq(Nodes), quote_next : BOOLEAN, diagnostics : Seq(Diagnostics),
           done : BOOLEAN, error : Errors]

\* Type invariant: the cursor stays in the text, the nesting below its limit.
TypeOK ==
  /\ text \in Texts
  /\ lexer \in Lexers
  /\ lexer.offset <= Len(text)
  /\ Len(lexer.groups) <= MaxGroupDepth

\* "The open-group stack and token stream must agree" (the assertion in
\* lex_recovering): the k-th entry of the stack is the one group of the stream
\* that is open at depth k, so that a closer finds the group it completes.
OpenGroups(stream) == { i \in OpenNodes(stream) : stream[i].kind = "group" }

StackIsSpine ==
  /\ lexer.error # "assert"
  /\ Running(lexer) =>
       LET stream == lexer.stream
       IN  /\ \A i \in OpenGroups(stream) :
                /\ stream[i].depth \in DOMAIN lexer.groups
                /\ lexer.groups[stream[i].depth]
                     = [kind |-> stream[i].spelling, opening_start |-> stream[i].from]
           /\ \A k \in DOMAIN lexer.groups : \E i \in OpenGroups(stream) : stream[i].depth = k
           /\ \A i, j \in OpenGroups(stream) : i < j => stream[i].depth < stream[j].depth

\* Every group left open is diagnosed at its opener, the innermost first, and
\* nothing else is diagnosed as one.
UnclosedReported ==
  lexer.done =>
    LET reports == { k \in DOMAIN lexer.diagnostics :
                       lexer.diagnostics[k].kind = "UnterminatedGroup" }
    IN  /\ { lexer.diagnostics[k].from : k \in reports }
              = { lexer.stream[i].from : i \in OpenGroups(lexer.stream) }
        /\ \A j, k \in reports :
             j < k => lexer.diagnostics[k].from < lexer.diagnostics[j].from

\* The three records of the groups that are open agree: the stack, the tree,
\* and at the end the diagnostics.
GroupsAgree == StackIsSpine /\ UnclosedReported

\* Quoting alternates: a specifier quotes the next token unless it is quoted
\* itself, whatever lies between (groups, comments, lines).
Specifier(node) == node.kind = "ident" /\ node.spelling \in QuoteSpecifiers

QuotingAlternates ==
  lexer.error = "none" =>
    LET stream == lexer.stream
        run == { i \in DOMAIN stream : \A j \in i .. Len(stream) : Specifier(stream[j]) }
        odd == \E i \in run : (i - 1) \notin run /\ (Len(stream) - i) % 2 = 0
    IN  lexer.quote_next = odd

\* Where a stream keeps what was read: the delimiters or the spelling of a
\* token, and the comments around it, each as the half-open range it stands for.
Slots == {"token", "closer", "lead", "trail", "prefix", "suffix"}

Parts(node, slot) ==
  CASE slot = "token" ->
         (CASE node.kind = "root"  -> <<>>
            [] node.kind = "group" -> << [from |-> node.from, to |-> node.from + 1] >>
            [] OTHER               -> << [from |-> node.from, to |-> node.to] >>)
    [] slot = "closer" -> IF node.kind = "group" /\ ~ node.open
                          THEN << [from |-> node.to - 1, to |-> node.to] >> ELSE <<>>
    [] slot = "lead"   -> node.lead
    [] slot = "trail"  -> node.trail
    [] slot = "prefix" -> node.prefix
    [] slot = "suffix" -> node.suffix

Pieces(stream) ==
  LET places == UNION { { <<i, slot, k>> : k \in DOMAIN Parts(stream[i], slot) } :
                          i \in DOMAIN stream, slot \in Slots }
  IN  [place \in places |-> Parts(stream[place[1]], place[2])[place[3]]]

\* The cursor separates what the tree holds from what it does not: a symbol
\* before it that is not layout has one place in the tree, wherever comments
\* were moved since; one behind it has none.
CursorAgrees ==
  lexer.error = "none" =>
    LET pieces == Pieces(lexer.stream)
        holders(p) == { place \in DOMAIN pieces :
                          pieces[place].from < p /\ p <= pieces[place].to }
    IN  \A p \in DOMAIN text : text[p] \notin {"NL", "SP"} =>
          IF p <= lexer.offset THEN \E place \in DOMAIN pieces : holders(p) = {place}
                               ELSE holders(p) = {}

\* What the loop remembers beside the tree it builds is what the tree says:
\* which groups are open, whether the next token is quoted, and how far the
\* text has been read.
LocalsAgree == GroupsAgree /\ QuotingAlternates /\ CursorAgrees

\* Lossless: every symbol read so far that is not layout is in exactly one
\* delimiter, token or comment of the stream.
EverySymbolOnce ==
  lexer.error = "none" =>
    LET emitted == Emission(lexer.stream)
    IN  \A p \in 1 .. lexer.offset : text[p] \notin {"NL", "SP"} =>
          \E k \in DOMAIN emitted :
            /\ emitted[k][1] < p /\ p <= emitted[k][2]
            /\ \A j \in DOMAIN emitted \ {k} : ~ (emitted[j][1] < p /\ p <= emitted[j][2])

\* The stream gives tokens and comments back in source order.
SourceOrder ==
  LET emitted == Emission(lexer.stream)
  IN  \A j, k \in DOMAIN emitted : j < k => emitted[j][2] <= emitted[k][1]

\* The same of texts with line comments only.
LinesInOrder == (\A p \in DOMAIN text : text[p] # "BO") => SourceOrder

\* settle_trivia: "the emitted order of tokens and comments is unchanged",
\* and no token has leading trivia afterwards.
SettlingKeepsOrder ==
  LET settled == SettleTrivia(lexer.stream)
  IN  /\ Emission(settled) = Emission(lexer.stream)
      /\ \A i \in DOMAIN settled : settled[i].lead = <<>> /\ settled[i].suffix = <<>>

\* No symbol is lost or doubled, and what comes back comes in order, before and
\* after settle_trivia.
SymbolsKept == EverySymbolOnce /\ LinesInOrder /\ SettlingKeepsOrder

\* Restartable: a line break outside every group, with no quote pending,
\* separates two texts whose tokens are the same lexed apart or together:
\* what is read depends on what came before through nothing else.  Reparsing
\* a region of a document relies on it.
RestartsAtLineBreaks ==
  Running(lexer) /\ lexer.offset > 0 /\ text[lexer.offset] = "NL"
    /\ lexer.groups = <<>> /\ ~ lexer.quote_next =>
      LET at == lexer.offset
          tokens(stream, by) == [i \in 1 .. Len(stream) - 1 |->
            <<stream[i + 1].kind, stream[i + 1].spelling, stream[i + 1].depth,
              stream[i + 1].from + by, stream[i + 1].to + by, stream[i + 1].open>>]
          whole == LexRecovering(text)
          rest == LexRecovering(SubSeq(text, at + 1, Len(text)))
      IN  /\ whole.error = rest.error
          /\ tokens(whole.stream, 0) = tokens(lexer.stream, 0) \o tokens(rest.stream, at)

\* Every branch consumes input or ends the loop, so lexing any text ends.
Terminates == <>(~ Running(lexer))

=============================================================================
