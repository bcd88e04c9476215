---------------------------- MODULE TokenValues ----------------------------
(***************************************************************************)
(* What lex/token_stream.rs and parser/parse.rs promise of token streams   *)
(* and cursors: every stream and every cursor owns its tokens.  There is   *)
(* no storage here, a fork is a copy, and an operation changes the value   *)
(* of the stream it is called on.  TokenStorage implements this with       *)
(* shared reference-counted storage.                                       *)
(***************************************************************************)
EXTENDS Naturals, Sequences
LOCAL INSTANCE SequencesExt

CONSTANTS Streams, Cursors, Kinds, Absent

VARIABLES value,     \* the tokens a stream or cursor holds, or Absent
          position,  \* how many of its tokens a cursor has passed
          kin        \* the cursors forked, in any number of steps, from one
                     \* ParseStream::new

vars == <<value, position, kin>>

Roots == Streams \cup Cursors

\* A stream is a sequence of trees; a group holds a stream.
EmptyStream == <<>>

Atom == [atom |-> TRUE]

Group(kind, open, stream) ==
  [atom |-> FALSE, kind |-> kind, open |-> open, stream |-> stream]

EndsOpen(stream) ==
  stream # <<>> /\ ~ Last(stream).atom /\ Last(stream).open

RECURSIVE Pushed(_, _), Completed(_, _)

\* push: into the last group while it is unclosed.
Pushed(stream, tree) ==
  IF EndsOpen(stream)
  THEN [stream EXCEPT ![Len(stream)].stream = Pushed(@, tree)]
  ELSE Append(stream, tree)

\* complete_last_group: the innermost group first; the stream stays as it was
\* when there is nothing to complete.
Completed(stream, kind) ==
  IF stream = <<>> \/ Last(stream).atom
  THEN stream
  ELSE LET inner == Completed(Last(stream).stream, kind)
       IN  IF inner # Last(stream).stream THEN [stream EXCEPT ![Len(stream)].stream = inner]
           ELSE IF Last(stream).kind = kind THEN [stream EXCEPT ![Len(stream)].open = FALSE]
           ELSE stream

----------------------------------------------------------------------------
Has(r) == value[r] # Absent

Init ==
  /\ value = [r \in Roots |-> Absent]
  /\ position = [k \in Cursors |-> 0]
  /\ kin = [k \in Cursors |-> {k}]

OnStream(x, new) ==
  /\ Has(x)
  /\ value' = [value EXCEPT ![x] = new]
  /\ UNCHANGED <<position, kin>>

New(x) == ~ Has(x) /\ value' = [value EXCEPT ![x] = EmptyStream] /\ UNCHANGED <<position, kin>>

Fork(x, y) == Has(x) /\ ~ Has(y) /\ value' = [value EXCEPT ![y] = value[x]] /\ UNCHANGED <<position, kin>>

Push(x) == OnStream(x, Pushed(value[x], Atom))

CompleteLastGroup(x, kind) == OnStream(x, Completed(value[x], kind))

PushGroup(x, y, kind, open) ==
  /\ x # y /\ Has(x) /\ Has(y)
  /\ value' = [value EXCEPT ![x] = Pushed(value[x], Group(kind, open, value[y])), ![y] = Absent]
  /\ UNCHANGED <<position, kin>>

Pop(x) == OnStream(x, IF value[x] = <<>> THEN <<>> ELSE Front(value[x]))

PopStream(x, y) ==
  /\ Has(x) /\ ~ Has(y)
  /\ value[x] # <<>> /\ ~ Last(value[x]).atom
  /\ value' = [value EXCEPT ![x] = Front(@), ![y] = Last(value[x]).stream]
  /\ UNCHANGED <<position, kin>>

----------------------------------------------------------------------------
Open(k, x) ==
  /\ ~ Has(k) /\ Has(x)
  /\ value' = [value EXCEPT ![k] = value[x], ![x] = Absent]
  /\ position' = [position EXCEPT ![k] = 0]
  /\ UNCHANGED kin

ForkCursor(k, l) ==
  /\ Has(k) /\ ~ Has(l)
  /\ value' = [value EXCEPT ![l] = value[k]]
  /\ position' = [position EXCEPT ![l] = position[k]]
  /\ kin' = [m \in Cursors |-> IF m \in kin[k] \cup {l} THEN kin[k] \cup {l} ELSE kin[m]]

Remaining(k) == Has(k) /\ position[k] < Len(value[k])

NextToken(k) ==
  /\ Remaining(k)
  /\ position' = [position EXCEPT ![k] = @ + 1]
  /\ UNCHANGED <<value, kin>>

NextGroup(k, x) ==
  /\ Remaining(k) /\ ~ Has(x)
  /\ LET tree == value[k][position[k] + 1]
     IN  ~ tree.atom /\ value' = [value EXCEPT ![x] = tree.stream]
  /\ position' = [position EXCEPT ![k] = @ + 1]
  /\ UNCHANGED kin

Collect(k, x) ==
  /\ Has(k) /\ ~ Has(x)
  /\ value' = [value EXCEPT ![x] = SubSeq(value[k], position[k] + 1, Len(value[k]))]
  /\ position' = [position EXCEPT ![k] = Len(value[k])]
  /\ UNCHANGED kin

\* A cursor follows one with the same tokens; for one of its kin it must.
AdvanceTo(k, l) ==
  /\ Has(k) /\ Has(l) /\ value[k] = value[l]
  /\ position' = [position EXCEPT ![k] = position[l]]
  /\ UNCHANGED <<value, kin>>

Drop(r) ==
  /\ Has(r)
  /\ value' = [value EXCEPT ![r] = Absent]
  /\ IF r \in Cursors
     THEN /\ position' = [position EXCEPT ![r] = 0]
          /\ kin' = [m \in Cursors |-> IF m = r THEN {r} ELSE kin[m] \ {r}]
     ELSE UNCHANGED <<position, kin>>

Next ==
  \/ \E x \in Streams : \/ New(x)
                        \/ Push(x)
                        \/ Pop(x)
                        \/ \E kind \in Kinds : CompleteLastGroup(x, kind)
  \/ \E x, y \in Streams : \/ Fork(x, y)
                           \/ PopStream(x, y)
                           \/ \E kind \in Kinds, open \in BOOLEAN : PushGroup(x, y, kind, open)
  \/ \E k \in Cursors, x \in Streams : Open(k, x) \/ NextGroup(k, x) \/ Collect(k, x)
  \/ \E k \in Cursors : NextToken(k)
  \/ \E k, l \in Cursors : ForkCursor(k, l) \/ AdvanceTo(k, l)
  \/ \E r \in Roots : Drop(r)

Spec == Init /\ [][Next]_vars

=============================================================================
