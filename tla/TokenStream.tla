---------------------------- MODULE TokenStream ----------------------------
(***************************************************************************)
(* The raw token tree of lex/token_stream.rs and the operations the lexer  *)
(* performs on it.                                                         *)
(*                                                                         *)
(* A tree is kept flat, in preorder: node 1 is the stream itself, a node   *)
(* of depth d + 1 is a child of the last earlier node of depth d, and each *)
(* group carries the comments of its own stream (prefix and suffix).  The  *)
(* code descends from the last tree of a stream through unclosed groups;   *)
(* the node it reaches is the last open node of the flat sequence.         *)
(*                                                                         *)
(* A source text is a sequence of lexical symbols of width one, so offsets *)
(* are counts of symbols; spans are half open and start at offset 0.       *)
(***************************************************************************)
EXTENDS Integers, Sequences
LOCAL INSTANCE SequencesExt

Comment(kind, from, to) == [kind |-> kind, from |-> from, to |-> to]

(***************************************************************************)
(* TokenTree.  A group's span is its opening delimiter until complete()    *)
(* joins the closing one to it (DoubleSpan::try_span).                     *)
(***************************************************************************)
Node(kind, spelling, from, to) ==
  [kind |-> kind, spelling |-> spelling, from |-> from, to |-> to,
   depth |-> 0, open |-> kind \in {"root", "group"},
   lead |-> <<>>, trail |-> <<>>, prefix |-> <<>>, suffix |-> <<>>]

EmptyStream == << Node("root", "", 0, 0) >>

OpenNodes(stream) == { i \in DOMAIN stream : stream[i].open }

LargestOf(S) == CHOOSE i \in S : \A j \in S : j <= i

\* The stream that receives the next token or comment.
Innermost(stream) == LargestOf(OpenNodes(stream))

\* The trees of the stream that node g owns; g is on the rightmost spine, so
\* every later node lies below it.
ChildrenOf(stream, g) ==
  { i \in DOMAIN stream : i > g /\ stream[i].depth = stream[g].depth + 1 }

LastTree(stream, g) ==
  IF ChildrenOf(stream, g) = {} THEN 0 ELSE LargestOf(ChildrenOf(stream, g))

\* Mutant of Push: pending comments stay behind the token.
CommentsOvertakenMutant(stream, node) ==
  Append(stream, [node EXCEPT !.depth = stream[Innermost(stream)].depth + 1])

(***************************************************************************)
(* push: the pending suffix of the receiving stream becomes the leading    *)
(* trivia of the new token.                                                *)
(***************************************************************************)
Push(stream, node) ==
  LET g == Innermost(stream)
  IN  Append([stream EXCEPT ![g].suffix = <<>>],
             [node EXCEPT !.depth = stream[g].depth + 1,
                          !.lead  = stream[g].suffix])

(***************************************************************************)
(* push_trailing_trivia on the stream that node g owns.                    *)
(***************************************************************************)
PushTrailing(stream, g, comment) ==
  LET last == LastTree(stream, g)
  IN  IF last # 0
      THEN [stream EXCEPT ![last].trail = Append(@, comment)]
      ELSE [stream EXCEPT ![g].prefix = Append(@, comment)]

\* Offset just after the last newline before `at`.
LineStart(text, at) ==
  LargestOf({0} \cup { i \in 1 .. at : text[i] = "NL" })

\* complete_line_comment: only layout precedes the comment on its line.
IsCompleteLine(text, at) ==
  \A i \in LineStart(text, at) + 1 .. at : text[i] = "SP"

(***************************************************************************)
(* push_line_comment_block: a line comment on the line right after another *)
(* one extends it; otherwise it starts a comment of its own.               *)
(***************************************************************************)
SameBlock(text, previous, comment) ==
  /\ previous.kind = "line"
  /\ previous.to < comment.from
  /\ text[previous.to + 1] = "NL"
  /\ \A i \in previous.to + 2 .. comment.from : text[i] = "SP"

ExtendBlock(text, comments, comment) ==
  LET n == Len(comments)
  IN  IF n > 0 /\ SameBlock(text, comments[n], comment)
      THEN [comments EXCEPT ![n].to = comment.to]
      ELSE Append(comments, comment)

(***************************************************************************)
(* push_line_comment: a comment alone on its line waits in the suffix of   *)
(* the stream for the next token; any other one trails the last token.     *)
(***************************************************************************)
PushLineComment(stream, text, from, to) ==
  LET g == Innermost(stream)
      whole == Comment("line", LineStart(text, from), to)
  IN  IF IsCompleteLine(text, from)
      THEN [stream EXCEPT ![g].suffix = ExtendBlock(text, @, whole)]
      ELSE PushTrailing(stream, g, Comment("line", from, to))

\* Mutant of PushBlockComment: replaces what waits in the suffix.
SuffixReplacedMutant(stream, from, to) ==
  LET g == Innermost(stream)
      comment == Comment("block", from, to)
  IN  IF LastTree(stream, g) = 0 /\ stream[g].suffix # <<>>
      THEN [stream EXCEPT ![g].suffix = <<comment>>]
      ELSE PushTrailing(stream, g, comment)

(***************************************************************************)
(* push_block_comment: trails the last token of the stream even when line  *)
(* comments already wait in the suffix; without a token it joins the       *)
(* suffix, if any, or else the prefix.                                     *)
(***************************************************************************)
PushBlockComment(stream, from, to) ==
  LET g == Innermost(stream)
      comment == Comment("block", from, to)
  IN  IF LastTree(stream, g) = 0 /\ stream[g].suffix # <<>>
      THEN [stream EXCEPT ![g].suffix = Append(@, comment)]
      ELSE PushTrailing(stream, g, comment)

(***************************************************************************)
(* complete_last_group: closes the innermost unclosed group of the wanted  *)
(* kind, and reports FALSE when the rightmost spine has none.              *)
(***************************************************************************)
Completable(stream, kind) ==
  { i \in OpenNodes(stream) : stream[i].kind = "group" /\ stream[i].spelling = kind }

\* Mutant of CompleteLastGroup: the outermost group is closed.
OutermostMutant(stream, kind, to) ==
  LET g == CHOOSE i \in Completable(stream, kind) : \A j \in Completable(stream, kind) : i <= j
  IN  [stream EXCEPT ![g].open = FALSE, ![g].to = to]

CompleteLastGroup(stream, kind, to) ==
  [stream EXCEPT ![LargestOf(Completable(stream, kind))].open = FALSE,
                 ![LargestOf(Completable(stream, kind))].to = to]

(***************************************************************************)
(* last_innermost: the last tree of the innermost stream, or the group     *)
(* itself while it is still empty.                                         *)
(***************************************************************************)
LastInnermost(stream) ==
  LET g == Innermost(stream)
  IN  IF LastTree(stream, g) # 0 THEN LastTree(stream, g) ELSE g

(***************************************************************************)
(* settle_trivia: every comment moves to the token it follows, or to the   *)
(* prefix of its stream when no token comes before it.                     *)
(***************************************************************************)
\* The trees of the stream node g owns, in source order.
TreesOf(stream, g) ==
  LET child(i) == /\ stream[i].depth = stream[g].depth + 1
                  /\ \A j \in g + 1 .. i : stream[j].depth > stream[g].depth
      upTo[i \in g .. Len(stream)] ==
        IF i = g THEN <<>>
        ELSE IF child(i) THEN Append(upTo[i - 1], i) ELSE upTo[i - 1]
  IN  upTo[Len(stream)]

\* What settling appends to the trailing trivia of node i, and to the prefix
\* of the stream node g owns.
Parent(stream, i) == LargestOf({ g \in 1 .. i - 1 : stream[g].depth = stream[i].depth - 1 })

Following(stream, i) ==
  LET siblings == TreesOf(stream, Parent(stream, i))
      later == { siblings[k] : k \in DOMAIN siblings } \ 1 .. i
  IN  CASE i = 1                  -> <<>>
        [] i > 1 /\ later = {}    -> stream[Parent(stream, i)].suffix
        [] OTHER -> stream[CHOOSE j \in later : \A k \in later : j <= k].lead

Leading(stream, g) ==
  LET trees == TreesOf(stream, g)
  IN  CASE stream[g].kind \notin {"root", "group"} -> <<>>
        [] stream[g].kind \in {"root", "group"} /\ trees = <<>> -> stream[g].suffix
        [] OTHER -> stream[Head(trees)].lead

\* Mutant of SettleTrivia: comments are put in front of those already there.
PrependedMutant(stream) ==
  [i \in DOMAIN stream |->
     [stream[i] EXCEPT !.lead = <<>>, !.suffix = <<>>,
                       !.trail  = Following(stream, i) \o @,
                       !.prefix = Leading(stream, i) \o @]]

SettleTrivia(stream) ==
  [i \in DOMAIN stream |->
     [stream[i] EXCEPT !.lead = <<>>, !.suffix = <<>>,
                       !.trail  = @ \o Following(stream, i),
                       !.prefix = @ \o Leading(stream, i)]]

(***************************************************************************)
(* write_stream and write_tree (Display): the order in which a stream gives*)
(* its delimiters, tokens and comments back, each as the half-open range   *)
(* of symbols it stands for; the layout between them is left out.          *)
(***************************************************************************)
Emission(stream) ==
  LET ranges(comments) == [k \in DOMAIN comments |-> <<comments[k].from, comments[k].to>>]
      opener(node) == CASE node.kind = "root"  -> <<>>
                        [] node.kind = "group" -> << <<node.from, node.from + 1>> >>
                        [] OTHER               -> << <<node.from, node.to>> >>
      closer(node) == IF node.kind = "group" /\ ~ node.open
                      THEN << <<node.to - 1, node.to>> >> ELSE <<>>
      emit[i \in DOMAIN stream] ==
        LET trees == TreesOf(stream, i)
        IN  ranges(stream[i].lead) \o opener(stream[i]) \o ranges(stream[i].prefix)
            \o FlattenSeq([k \in DOMAIN trees |-> emit[trees[k]]])
            \o ranges(stream[i].suffix) \o closer(stream[i]) \o ranges(stream[i].trail)
  IN  emit[1]

(***************************************************************************)
(* CommentTrivia::of: line comments that lead the first tree are outer,    *)
(* every other one is inner; a group contributes both, its outer ones      *)
(* first.                                                                  *)
(***************************************************************************)
CommentsOf(stream) ==
  LET isLine(comment) == comment.kind = "line"
      notLine(comment) == comment.kind # "line"
      of[g \in DOMAIN stream] ==
        LET trees == TreesOf(stream, g)
            lead(k) == stream[trees[k]].lead
            within(k) == of[trees[k]].outer \o of[trees[k]].inner
            inner(k) == (IF k = 1 THEN SelectSeq(lead(k), notLine) ELSE lead(k))
                        \o within(k) \o stream[trees[k]].trail
        IN  [outer |-> IF trees = <<>> THEN <<>> ELSE SelectSeq(lead(1), isLine),
             inner |-> stream[g].prefix \o FlattenSeq([k \in DOMAIN trees |-> inner(k)])
                         \o stream[g].suffix]
  IN  of[1]

=============================================================================
