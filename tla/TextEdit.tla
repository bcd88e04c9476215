------------------------------ MODULE TextEdit ------------------------------
(***************************************************************************)
(* TextEdit (span.rs): one edit of a text, acting on the text itself       *)
(* (apply) and on offsets into it (shift, and shifted_offset of            *)
(* parser/realtime.rs, which repeats it).                                  *)
(***************************************************************************)
EXTENDS Integers, Sequences

Insertion(at, text) == [kind |-> "insertion", start |-> at, end |-> at, text |-> text]
Deletion(start, end) == [kind |-> "deletion", start |-> start, end |-> end, text |-> <<>>]

\* The part of a text between two offsets.
Slice(text, from, to) == SubSeq(text, from + 1, to)

\* apply returns None for an edit outside the buffer; that a deletion does not
\* end before it starts is asserted where it is built (TextEdit::deletion).
Applicable(edit, text) == edit.start <= Len(text) /\ edit.end <= Len(text)

Apply(edit, text) ==
  Slice(text, 0, edit.start) \o edit.text \o Slice(text, edit.end, Len(text))

Shift(edit, offset) ==
  IF edit.kind = "insertion"
  THEN IF offset >= edit.start THEN offset + Len(edit.text) ELSE offset
  ELSE IF offset <= edit.start THEN offset
  ELSE IF offset <= edit.end THEN edit.start
  ELSE offset - (edit.end - edit.start)

=============================================================================
