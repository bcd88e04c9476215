----------------------------- MODULE TextShape -----------------------------
(***************************************************************************)
(* What the properties of the two front ends tell texts apart by.          *)
(***************************************************************************)
EXTENDS Integers, Sequences

Layout == {"NL", "SP"}

\* A line that begins with a block comment, or inside of one, goes on behind
\* it: the comment trails the last token of an earlier line (push_block_comment),
\* whose cell then ends behind this line (end_span).
BlockLeadsLine(text) ==
  \E line, close \in DOMAIN text :
    /\ text[line] = "NL" /\ text[close] = "BC" /\ line < close
    /\ \E open, behind \in DOMAIN text :
         /\ text[open] = "BO" /\ open < close /\ close < behind
         /\ \A p \in open + 1 .. close - 1 : text[p] # "BC"
         /\ \A p \in line + 1 .. open - 1 : text[p] \in Layout
         /\ text[behind] \notin Layout
         /\ \A p \in close + 1 .. behind - 1 : text[p] # "NL"

\* Line comments and block comments.
MixesComments(text) == \E i, j \in DOMAIN text : text[i] = "LC" /\ text[j] = "BO"

=============================================================================
