---------------------------- MODULE RecoveryView ----------------------------
(***************************************************************************)
(* The view of a source text that Tree-sitter parses instead of it         *)
(* (renamed_source_recovering, migration/treesitter.rs): qualifiers of     *)
(* core words are blanked, and the closers that are missing at the end of  *)
(* the text are appended.                                                  *)
(***************************************************************************)
EXTENDS LexicalScan
LOCAL INSTANCE SequencesExt

CONSTANT Encoding    \* the bytes of a symbol

Continuations == {"A8", "A9"}    \* bytes that continue a character

Bytes(text) == FlattenSeq([i \in DOMAIN text |-> Encoding[text[i]]])

\* The byte at which symbol k + 1 begins.
Offset(text, k) ==
  LET begins[i \in 0 .. k] == IF i = 0 THEN 0 ELSE begins[i - 1] + Len(Encoding[text[i]])
  IN  begins[k]

ByteLength(text) == Offset(text, Len(text))

CharBoundary(bytes, at) == at = Len(bytes) \/ bytes[at + 1] \notin Continuations

---------------------------------------------------------------------------
(***************************************************************************)
(* collect_core_aliases: identifiers that spell a core word behind Core$.  *)
(* The quoting of one does not matter.                                     *)
(***************************************************************************)
IsAlias(node) ==
  node.kind = "ident" /\ node.spelling \in Keywords /\ node.to = node.from + 2

Aliases(stream) == { stream[i] : i \in { j \in DOMAIN stream : IsAlias(stream[j]) } }

Blank(symbol) == [i \in DOMAIN Encoding[symbol] |-> "SP"]

Renamed(text, stream) ==
  FlattenSeq([p \in DOMAIN text |->
    IF \E alias \in Aliases(stream) : p = alias.from + 1
    THEN Blank(text[p]) ELSE <<text[p]>>])

(***************************************************************************)
(* collect_missing_closers: a group's own closer comes after those of the  *)
(* groups inside it.                                                       *)
(***************************************************************************)
\* Mutant of MissingClosers: the outermost group is closed first.
OutermostFirstClosersMutant(stream) ==
  LET open == SelectSeq(stream, LAMBDA node : node.kind = "group" /\ node.open)
  IN  [i \in DOMAIN open |-> Closing(open[i].spelling)]

MissingClosers(stream) ==
  LET missing[g \in DOMAIN stream] ==
        LET trees == TreesOf(stream, g)
        IN  FlattenSeq([k \in DOMAIN trees |-> missing[trees[k]]])
            \o IF stream[g].kind = "group" /\ stream[g].open
               THEN <<Closing(stream[g].spelling)>> ELSE <<>>
  IN  missing[1]

LiteralClosing ==
  [UnterminatedString |-> <<"QT">>, UnterminatedRawString |-> <<"/", "/", "/">>]

\* The closer of the literal that the first diagnostic of a literal is about.
MissingLiteral(reported) ==
  LET literals == { i \in DOMAIN reported : reported[i].kind \in DOMAIN LiteralClosing }
  IN  IF literals = {} THEN <<>>
      ELSE LiteralClosing[reported[CHOOSE i \in literals : \A j \in literals : i <= j].kind]

EndsInLineComment(stream, length) ==
  LET comments == CommentsOf(stream).outer \o CommentsOf(stream).inner
  IN  comments # <<>> /\ LET last == comments[Len(comments)]
                         IN  last.kind = "line" /\ last.to = length

View(text, lexer) ==
  LET missing == MissingClosers(lexer.stream)
  IN  Renamed(text, lexer.stream)
      \o (IF missing # <<>> /\ EndsInLineComment(lexer.stream, Len(text)) THEN <<"NL">> ELSE <<>>)
      \o MissingLiteral(lexer.diagnostics)
      \o missing

---------------------------------------------------------------------------
(***************************************************************************)
(* Lowerer::span: what range of the source, in bytes, stands for a node of *)
(* the view.  A node beyond the source is empty at its end.                *)
(***************************************************************************)
Cut(offset, length) == IF offset < length THEN offset ELSE length

AliasRange(text, alias) == <<Offset(text, alias.from), Offset(text, alias.to)>>

BareRange(text, alias) == <<Offset(text, alias.from + 1), Offset(text, alias.to)>>

\* Mutant of SourceRange: a renamed word keeps its bare range.
BareMutant(text, stream, range) ==
  LET length == ByteLength(text) IN <<Cut(range[1], length), Cut(range[2], length)>>

SourceRange(text, stream, range) ==
  LET length == ByteLength(text)
      named == { alias \in Aliases(stream) : BareRange(text, alias) = range }
  IN  IF named = {}
      THEN <<Cut(range[1], length), Cut(range[2], length)>>
      ELSE AliasRange(text, CHOOSE alias \in named : TRUE)

\* The bytes of a node, or of a group's opening delimiter.
OpeningRange(text, node) ==
  <<Offset(text, node.from), Offset(text, IF node.kind = "group" THEN node.from + 1 ELSE node.to)>>

ClosingBytes(text, node) ==
  IF node.kind = "group" THEN <<Offset(text, node.to - 1), Offset(text, node.to)>> ELSE <<>>

\* delimiter_spans: a closer that begins beyond the source is not there.
ClosingRange(length, view, node) ==
  LET closing == ClosingBytes(view, node)
  IN  IF closing # <<>> /\ closing[1] >= length THEN <<>> ELSE closing

=============================================================================
