-------------------------- MODULE IncrementalTree --------------------------
(***************************************************************************)
(* RealtimeParser (migration/treesitter.rs): a document whose Tree-sitter  *)
(* tree is kept from edit to edit.  apply_edit works on locals and stores  *)
(* them together once nothing can fail any more.                           *)
(*                                                                         *)
(* Tree-sitter itself is external: a tree stands for the bytes it was made *)
(* of, and a parse that starts from an edited tree reads the new bytes     *)
(* only where the edit says they changed.                                  *)
(***************************************************************************)
EXTENDS RecoveryView, TextEdit

CONSTANTS
  Documents,       \* the texts explored: the bound on the document
  Snippets,        \* the texts that are inserted
  Recovered,       \* for each, its reading, its View, the View's bytes and reading
  NoCall

ASSUME RecoveredAssumption ==
  \A text \in Documents :
    /\ Recovered[text].bytes \in Seq(STRING)
    /\ Recovered[text].bytes = Bytes(Recovered[text].view)

ASSUME EncodingAssumption ==
  /\ \A symbol \in DOMAIN Encoding : Encoding[symbol] \in Seq(STRING)
  /\ Documents \subseteq Seq(DOMAIN Encoding)

\* The locals of apply_edit while it runs.
Calls ==
  [source : Documents, edit : [start : Nat, old_end : Nat, new_end : Nat], tree : Seq(Seq(STRING))]

ASSUME NoCallAssumption == NoCall \notin Calls

VARIABLES
  source, parse_view, tree, syntax, diagnostics, changed_ranges,
  call,            \* the locals of apply_edit while it runs
  result           \* of the last call

fields == <<source, parse_view, tree, syntax, diagnostics, changed_ranges>>

vars == <<fields, call, result>>

Failures == {"InvalidEdit", "Lex", "Cancelled", "InvalidSyntax", "UnsupportedNode"}

Lowered(text, bytes) == [source |-> text, tree |-> bytes]

NoEdit == [start |-> 0, old_end |-> 0, new_end |-> 0]

Lexes(text) == Recovered[text].lexer.error = "none"

Reads(lexer) == lexer.error = "none" /\ lexer.diagnostics = <<>>

\* External: the grammar accepts no view that is itself incomplete.
Parsable(text) == Reads(Recovered[text].viewed)

\* RealtimeParser::new.
Init ==
  /\ source \in { text \in Documents : Lexes(text) /\ Parsable(text) }
  /\ parse_view = Recovered[source].view
  /\ tree = Recovered[source].bytes
  /\ syntax = Lowered(source, tree)
  /\ diagnostics = Recovered[source].lexer.diagnostics
  /\ changed_ranges = {}
  /\ call = NoCall
  /\ result = "ok"

---------------------------------------------------------------------------
(***************************************************************************)
(* input_edit_between: the longest common prefix and, behind it, suffix of *)
(* two views that end at characters of both.                               *)
(***************************************************************************)
Agree(old, new, at) == \A i \in 1 .. at : old[i] = new[i]

AgreeFromEnd(old, new, length) ==
  \A i \in 0 .. length - 1 : old[Len(old) - i] = new[Len(new) - i]

Shorter(old, new) == Cut(Len(old), Len(new))

\* Mutant of Prefixes: bytes are compared, characters are not.
TornMutant(old, new) == { at \in 0 .. Shorter(old, new) : Agree(old, new, at) }

Prefixes(old, new) ==
  { at \in 0 .. Shorter(old, new) :
      Agree(old, new, at) /\ CharBoundary(old, at) /\ CharBoundary(new, at) }

\* Mutant of Suffixes: the suffix may run into the prefix.
OverlappingMutant(old, new, start) ==
  { length \in 0 .. Shorter(old, new) :
      /\ AgreeFromEnd(old, new, length)
      /\ CharBoundary(old, Len(old) - length) /\ CharBoundary(new, Len(new) - length) }

Suffixes(old, new, start) ==
  { length \in 0 .. Shorter(old, new) - start :
      /\ AgreeFromEnd(old, new, length)
      /\ CharBoundary(old, Len(old) - length) /\ CharBoundary(new, Len(new) - length) }

Largest(S) == { n \in S : \A m \in S : m <= n }

InputEdits(old, new) ==
  UNION { { [start |-> at, old_end |-> Len(old) - length, new_end |-> Len(new) - length] :
              length \in Largest(Suffixes(old, new, at)) } :
          at \in Largest(Prefixes(old, new)) }

\* External: what an incremental parse makes of the edited tree.
Reparsed(old, edit, new) ==
  Slice(old, 0, edit.start) \o Slice(new, edit.start, edit.new_end)
    \o Slice(old, edit.old_end, Len(old))

---------------------------------------------------------------------------
(***************************************************************************)
(* TextEdit::apply, by bytes: None beyond the buffer or inside a character.*)
(* Positions inside a symbol of several characters are not explored.       *)
(***************************************************************************)
SymbolsBefore(text, at) == { k \in 0 .. Len(text) : Offset(text, k) = at }

Positions(text) == { Offset(text, k) : k \in 0 .. Len(text) }

\* Inside a character, and beyond the buffer.
BadPositions(text) ==
  { at \in 1 .. ByteLength(text) : ~ CharBoundary(Bytes(text), at) } \cup {ByteLength(text) + 1}

Edits(text) ==
  { Insertion(at, snippet) : at \in Positions(text) \cup BadPositions(text), snippet \in Snippets }
    \cup { Deletion(from, to) : from, to \in Positions(text) \cup BadPositions(text) }

Edited(text, edit) ==
  { Slice(text, 0, k) \o edit.text \o Slice(text, m, Len(text)) :
      k \in SymbolsBefore(text, edit.start), m \in SymbolsBefore(text, edit.end) }

Called(text, edit, parsed) == [source |-> text, edit |-> edit, tree |-> parsed]

\* Mutant of Fail: the source is stored before the parse.
StoredEarlyMutant(error) ==
  /\ source' = IF call = NoCall THEN source ELSE call.source
  /\ call' = NoCall
  /\ result' = error
  /\ UNCHANGED <<parse_view, tree, syntax, diagnostics, changed_ranges>>

Fail(error) ==
  /\ call' = NoCall
  /\ result' = error
  /\ UNCHANGED fields

\* An edit reaches apply_edit: refused, or applied, lexed and renamed.
Rename ==
  /\ call = NoCall
  /\ \E edit \in { any \in Edits(source) : any.start <= any.end } :
       \/ Edited(source, edit) = {} /\ Fail("InvalidEdit")
       \/ \E text \in Edited(source, edit) \cap Documents :
            \/ ~ Lexes(text) /\ Fail("Lex")
            \/ /\ Lexes(text)
               /\ call' = Called(text, NoEdit, <<>>)
               /\ result' = "running"
               /\ UNCHANGED fields

\* The copy of the tree is edited and parsed again.
Parse ==
  /\ call # NoCall /\ call.tree = <<>>
  /\ \E old \in {Bytes(parse_view)}, new \in {Recovered[call.source].bytes} :
       \E edit \in InputEdits(old, new) :
         call' = Called(call.source, edit, <<Reparsed(tree, edit, new)>>)
  /\ UNCHANGED <<fields, result>>

\* Cancelled, or first_error finds an error or a missing node.
ParserFails ==
  /\ call # NoCall /\ call.tree # <<>>
  /\ \E error \in {"Cancelled", "InvalidSyntax"} : Fail(error)

\* A node the lowering has no rule for.
LoweringFails ==
  /\ call # NoCall /\ call.tree # <<>>
  /\ Fail("UnsupportedNode")

\* Mutant of Clipped: ranges reach into the appended closers.
UnclippedMutant(range, length) == range

Clipped(range, length) == <<Cut(range[1], length), Cut(range[2], length)>>

\* Lowering succeeds, and the fields are stored together.
Commit ==
  /\ call # NoCall /\ call.tree # <<>>
  /\ Parsable(call.source)
  /\ source' = call.source
  /\ parse_view' = Recovered[call.source].view
  /\ tree' = Head(call.tree)
  /\ syntax' = Lowered(call.source, Head(call.tree))
  /\ diagnostics' = Recovered[call.source].lexer.diagnostics
  /\ \E ranges \in SUBSET {<<call.edit.start, call.edit.new_end>>} :
       changed_ranges' = { Clipped(range, ByteLength(call.source)) : range \in ranges }
  /\ call' = NoCall
  /\ result' = "ok"

Next == Rename \/ Parse \/ ParserFails \/ LoweringFails \/ Commit

Spec == Init /\ [][Next]_vars

---------------------------------------------------------------------------
(***************************************************************************)
(* Correctness.                                                            *)
(***************************************************************************)
(***************************************************************************)
(* Type invariant: the document lexes, ranges lie in it and not in the     *)
(* closers the view appends, and the locals are those of one edit.         *)
(***************************************************************************)
TypeOK ==
  /\ source \in Documents /\ Lexes(source)
  /\ \A range \in changed_ranges :
       /\ range \in Nat \X Nat
       /\ range[1] <= range[2] /\ range[2] <= ByteLength(source)
  /\ result \in {"ok", "running"} \cup Failures
  /\ call = NoCall <=> result # "running"
  /\ call # NoCall => call \in Calls

(***************************************************************************)
(* "The update is transactional" (treesitter.rs:167): whatever a call does *)
(* in steps, and wherever it fails, the fields change at once or not at    *)
(* all, from one text to one that the edit makes of it, and the tree that  *)
(* grew from edit to edit is the one a fresh parse would give.             *)
(***************************************************************************)
Document(text, view, bytes, parsed, errors) ==
  [source |-> text, view |-> view, tree |-> bytes, syntax |-> parsed, diagnostics |-> errors]

FreshParse(text) ==
  Document(text, Recovered[text].view, Recovered[text].bytes,
           Lowered(text, Recovered[text].bytes), Recovered[text].lexer.diagnostics)

Made(text) == { new \in Documents : \E edit \in Edits(text) : new \in Edited(text, edit) }

Atomic == INSTANCE EditedDocument WITH
  Parses <- [text \in Documents |-> FreshParse(text)],
  Accepted <- { text \in Documents : Lexes(text) /\ Parsable(text) },
  OneEditAway <- [text \in Documents |-> Made(text)],
  Length <- [text \in Documents |-> ByteLength(text)],
  document <- Document(source, parse_view, tree, syntax, diagnostics),
  changed <- changed_ranges

EditsAreAtomic == Atomic!Spec

(***************************************************************************)
(* The edit Tree-sitter is told of covers every byte that differs, and its *)
(* ends lie between characters of both views.                              *)
(***************************************************************************)
EditCovers ==
  call # NoCall /\ call.tree # <<>> =>
    \E old \in {Bytes(parse_view)}, new \in {Recovered[call.source].bytes}, edit \in {call.edit} :
      /\ edit.start <= edit.old_end /\ edit.start <= edit.new_end
      /\ Slice(old, 0, edit.start) = Slice(new, 0, edit.start)
      /\ Slice(old, edit.old_end, Len(old)) = Slice(new, edit.new_end, Len(new))
      /\ CharBoundary(old, edit.start) /\ CharBoundary(new, edit.start)
      /\ CharBoundary(old, edit.old_end) /\ CharBoundary(new, edit.new_end)

(***************************************************************************)
(* What the text ends with, if an appended closer would become part of it: *)
(* a string that ends in an escape, a raw string that ends in one slash, a *)
(* word that quotes the closer, or a line comment that is not the last one *)
(* CommentTrivia::of lists.                                                *)
(***************************************************************************)
Diagnosed(lexer, kind) == \E i \in DOMAIN lexer.diagnostics : lexer.diagnostics[i].kind = kind

EndingRun(text, symbol) ==
  CHOOSE n \in 0 .. Len(text) :
    /\ \A i \in Len(text) - n + 1 .. Len(text) : text[i] = symbol
    /\ n = Len(text) \/ text[Len(text) - n] # symbol

CommentsIn(stream) ==
  UNION { { comments[k] : k \in DOMAIN comments } :
            comments \in UNION { {node.lead, node.trail, node.prefix, node.suffix} :
                                  node \in { stream[i] : i \in DOMAIN stream } } }

EndsInUnlistedComment(text, stream) ==
  LET listed == CommentsOf(stream).outer \o CommentsOf(stream).inner
  IN  \E comment \in CommentsIn(stream) :
        comment.kind = "line" /\ comment.to = Len(text) /\ comment # listed[Len(listed)]

SwallowsClosers(text, lexer) ==
  \/ Diagnosed(lexer, "UnterminatedString") /\ EndingRun(text, "BS") % 2 = 1
  \/ Diagnosed(lexer, "UnterminatedRawString") /\ EndingRun(text, "/") \in {1, 4}
  \/ Diagnosed(lexer, "UnterminatedGroup") /\ lexer.quote_next
  \/ Diagnosed(lexer, "UnterminatedGroup") /\ EndsInUnlistedComment(text, lexer.stream)

\* In any other text, the closers that are appended are read as closers.
RecoveredViewReads ==
  call # NoCall /\ ~ SwallowsClosers(call.source, Recovered[call.source].lexer) =>
    Parsable(call.source)

(***************************************************************************)
(* "Migrated nodes retain the original source spans and zero-width missing *)
(* closers" (treesitter.rs:366): the leaves of the view, at the ranges the *)
(* lowering gives them, are the tokens of the source.                      *)
(***************************************************************************)
Leaf(node, range, closing) ==
  [kind |-> node.kind, spelling |-> node.spelling, range |-> range, closing |-> closing]

SourceLeaves(text, stream) ==
  [i \in DOMAIN stream |->
     Leaf(stream[i], OpeningRange(text, stream[i]),
          IF stream[i].open THEN <<>> ELSE ClosingBytes(text, stream[i]))]

ViewLeaves(text, stream, view, viewed) ==
  [i \in DOMAIN viewed |->
     Leaf(viewed[i], SourceRange(text, stream, OpeningRange(view, viewed[i])),
          ClosingRange(ByteLength(text), view, viewed[i]))]

LeavesAreTokens ==
  call = NoCall =>
    \E stream \in {Recovered[source].lexer.stream}, viewed \in {Recovered[source].viewed.stream} :
      SourceLeaves(source, stream) = ViewLeaves(source, stream, parse_view, viewed)

(***************************************************************************)
(* The view that is parsed reads as the source does, closers and all, and  *)
(* what is read from it has its place in the source.                       *)
(***************************************************************************)
ViewFaithful == RecoveredViewReads /\ LeavesAreTokens

=============================================================================
