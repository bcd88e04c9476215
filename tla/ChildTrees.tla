----------------------------- MODULE ChildTrees -----------------------------
(***************************************************************************)
(* What ChildCursor's round trip rests on: the shape of a node that is     *)
(* built from a value, which is the grammar's side of a schema.  A node    *)
(* has its struct's delimiters and the children of each field, and no      *)
(* field takes what a later one is made of.                                *)
(***************************************************************************)
EXTENDS ChildCursor

\* What the fields behind field i are made of.
BehindField(bindings, i) == UNION { Used(bindings[j]) : j \in i + 1 .. Len(bindings) }

UsedByFields(bindings) == UNION { Used(bindings[j]) : j \in 1 .. Len(bindings) }

\* A delimiter of the family, the only one among `others`.
Encloses(family, pair, others) ==
  /\ \E opening, closing \in pair :
       /\ pair = {opening, closing}
       /\ Spelled(Families[family][1], opening)
       /\ Spelled(Families[family][2], closing)
  /\ \A c \in others : ~ Spelled(Families[family][1], c) /\ ~ Spelled(Families[family][2], c)

\* And none of a family that is looked for before it.
Delimits(pair, others) ==
  \E family \in DOMAIN Families :
    /\ Encloses(family, pair, others)
    /\ \A f \in 1 .. family - 1, c \in others : ~ Spelled(Families[f][1], c)

MayRepeat(gathering) == gathering \notin {"required", "optional"}

IsPunctuated(gathering) == gathering \in {"punctuated", "optional_punctuated"}

(***************************************************************************)
(* Values and separators that fill a field, beside `others` that the field *)
(* does not take: it accepts none of them or, if it is made of one child,  *)
(* accepts them behind its own only.                                       *)
(***************************************************************************)
Fills(field, values, separators, others) ==
  LET gathering == Gathering(field.shape)
  IN  /\ \A v \in values : Accepts(field, v)
      /\ ElementsMigrate(field, values)
      /\ \A s \in separators : Spelled(",", s) /\ ~ Accepts(field, s)
      /\ gathering = "required" => \E v \in values : values = {v}
      /\ gathering = "optional" => \A v, w \in values : v = w
      /\ IsPunctuated(gathering) \/ separators = None
      /\ IsPunctuated(gathering) =>
           \/ Paired(values, separators)
           \/ gathering = "optional_punctuated" /\ values = None /\ separators = None
      /\ \A c \in others :
           /\ Accepts(field, c) => ~ MayRepeat(gathering) /\ \E v \in values : v.at < c.at
           /\ IsPunctuated(gathering) => ~ Spelled(",", c)

\* The children of field f of struct d, which binding b names.
FieldBuilt(d, f, b, others) ==
  /\ b = Binding(b.node, b.delimiter, b)
  /\ ~ IsDelimited(f) =>
       /\ b.node = None /\ b.delimiter = None
       /\ Fills(f, b.values, b.separators, others)
  /\ IsDelimited(f) /\ (IsDelimitedNewtype(d) \/ ~ f.named) =>
       /\ b.node = None
       /\ Delimits(b.delimiter, b.values \cup b.separators \cup others)
       /\ Fills(Contents(f), b.values, b.separators, others)
  /\ IsDelimited(f) /\ ~ IsDelimitedNewtype(d) /\ f.named =>
       \E n \in b.node :
         /\ b.node = {n} /\ Accepts(f, n)
         /\ \A c \in others : Accepts(f, c) => n.at < c.at
         /\ n.inner = b.delimiter \cup b.values \cup b.separators
         /\ \A c \in n.inner : c.at \in Nat
         /\ Delimits(b.delimiter, b.values \cup b.separators)
         /\ Fills(Contents(f), b.values, b.separators, None)

\* A node built from the value that its reading binds.
BuiltFromValue(t) ==
  LET d == t.definition
      r == t.reading
      pair == t.children \ UsedByFields(r)
  IN  /\ t.identity = [kind |-> d.kind, named |-> TRUE]
      /\ Len(r) = Len(d.fields) /\ r = [i \in 1 .. Len(r) |-> r[i]]
      /\ UsedByFields(r) \subseteq t.children
      /\ \A i \in 1 .. Len(r) :
           /\ Used(r[i]) \cap BehindField(r, i) = None
           /\ FieldBuilt(d, d.fields[i], r[i], BehindField(r, i))
      /\ d.family = 0 => pair = None
      /\ d.family # 0 => /\ d.family \in DOMAIN Families
                         /\ Encloses(d.family, pair, UsedByFields(r))

ASSUME BuiltAssumption == \A t \in Trees : t.reading # NoReading => BuiltFromValue(t)

\* What is hung among the children is named: comments.
ASSUME ExtrasAssumption == \A c \in Children : c.extra => c.named

=============================================================================
