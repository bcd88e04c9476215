------------------------- MODULE ChildCursorProofs -------------------------
(***************************************************************************)
(* Proofs about ChildCursor, for every schema, every tree and every way a  *)
(* node may match an element: what the cursor hands out it no longer       *)
(* holds, so no child becomes part of two fields.                          *)
(***************************************************************************)
EXTENDS ChildTrees, TextTheorems

\* Until the migration begins nothing has been taken.
Fresh ==
  /\ outcome = "parsing" => left = {} /\ bound = <<>>
  /\ outcome = "parsing" \/ definition.family = 0 => delimiter = {}

----------------------------------------------------------------------------
(* What is gathered comes from the children it is gathered from. *)

LEMMA FirstAmong == ASSUME NEW cs PROVE First(cs) \subseteq cs
BY DEF First

LEMMA DelimiterAmong == ASSUME NEW cs PROVE Delimiter(cs) \subseteq cs
BY DEF Delimiter, Openings, Closings, First

LEMMA GatheredAmong ==
  ASSUME NEW field, NEW gathering, NEW cs
  PROVE  /\ Gathered(field, gathering, cs).values \subseteq cs
         /\ Gathered(field, gathering, cs).separators \subseteq cs
BY FirstAmong DEF Gathered, Values, Separators, None

LEMMA GatheredOutcome ==
  ASSUME NEW field, NEW gathering, NEW cs
  PROVE  Gathered(field, gathering, cs).fault \in {"ok"} \cup Failures
BY DEF Gathered, Fault, Failures

LEMMA InsideAmong ==
  ASSUME NEW cs
  PROVE  /\ Inside(cs).values \subseteq cs \ Delimiter(cs)
         /\ Inside(cs).separators \subseteq cs \ Delimiter(cs)
         /\ Inside(cs).fault \in {"ok"} \cup Failures
<1>. DEFINE field == Contents(Field)
            gathered == Gathered(field, Gathering(field.shape), cs \ Delimiter(cs))
            missing == [values |-> None, separators |-> None, fault |-> "missing_child"]
<1>1. Inside(cs) = IF DelimiterFound(cs) THEN gathered ELSE missing
  BY DEF Inside
<1>2. CASE DelimiterFound(cs)
  <2>1. Inside(cs) = gathered
    BY <1>1, <1>2
  <2>. HIDE DEF field
  <2>. QED  BY <2>1, GatheredAmong, GatheredOutcome
<1>3. CASE ~ DelimiterFound(cs)
  <2>1. Inside(cs) = missing
    BY <1>1, <1>3
  <2>. QED  BY <2>1 DEF None, Failures
<1>. QED  BY <1>2, <1>3

----------------------------------------------------------------------------
(* A field whose children are taken from `left`. *)

LEMMA BindingUsesOnce ==
  ASSUME ChildrenUsedOnce, NEW b, NEW S, Used(b) \subseteq left,
         bound' = Append(bound, b) \/ bound' = bound,
         bound \in Seq(S), b \in S,
         left' = left \ Used(b), delimiter' = delimiter
  PROVE  ChildrenUsedOnce'
<1>1. left' \cap delimiter' = None
  BY DEF ChildrenUsedOnce, None
<1>2. CASE bound' = bound
  BY <1>1, <1>2 DEF ChildrenUsedOnce, None, Used
<1>3. CASE bound' = Append(bound, b)
  <2>1. /\ DOMAIN bound = 1 .. Len(bound) /\ Len(bound) \in Nat
        /\ DOMAIN bound' = 1 .. Len(bound) + 1
        /\ bound'[Len(bound) + 1] = b
        /\ \A i \in 1 .. Len(bound) : bound'[i] = bound[i]
    BY <1>3
  <2>2. \A i \in DOMAIN bound' :
          \/ i \in DOMAIN bound /\ bound'[i] = bound[i]
          \/ i = Len(bound) + 1 /\ i \notin DOMAIN bound /\ bound'[i] = b
    BY <2>1
  <2>3. /\ Used(b) \cap left' = {} /\ Used(b) \cap delimiter' = {}
        /\ \A i \in DOMAIN bound :
             /\ Used(bound[i]) \cap left' = {}
             /\ Used(bound[i]) \cap delimiter' = {}
             /\ Used(bound[i]) \cap Used(b) = {}
             /\ \A j \in DOMAIN bound : i # j => Used(bound[i]) \cap Used(bound[j]) = {}
    BY DEF ChildrenUsedOnce, None
  <2>4. \A i \in DOMAIN bound' :
          Used(bound'[i]) \cap left' = {} /\ Used(bound'[i]) \cap delimiter' = {}
    BY <2>2, <2>3
  <2>5. \A i, j \in DOMAIN bound' : i # j => Used(bound'[i]) \cap Used(bound'[j]) = {}
    BY <2>2, <2>3
  <2>. QED  BY <1>1, <2>4, <2>5 DEF ChildrenUsedOnce, None, Used
<1>. QED  BY <1>2, <1>3

----------------------------------------------------------------------------
(* The inductive invariant and its preservation. *)

Bindings ==
  [node : SUBSET children, delimiter : SUBSET AllChildren,
   values : SUBSET AllChildren, separators : SUBSET AllChildren]

IInv == TypeOK /\ Fresh /\ ChildrenUsedOnce

LEMMA FieldsAre ==
  ASSUME TypeOK
  PROVE  /\ DOMAIN definition.fields = 1 .. Len(definition.fields)
         /\ Len(definition.fields) \in Nat
         /\ bound \in Seq(Bindings) /\ Len(bound) \in Nat
BY SchemaAssumption DEF TypeOK, Bindings

\* What After does to the bindings is well typed.
LEMMA AfterTyped ==
  ASSUME TypeOK, AtField, UNCHANGED Tree, NEW gathered, NEW b \in Bindings,
         gathered.fault \in {"ok"} \cup Failures, After(gathered, b),
         left' \subseteq children, UNCHANGED delimiter
  PROVE  TypeOK'
<1>1. /\ definition' = definition /\ children' = children /\ strays' = strays
      /\ Bindings' = Bindings
  BY DEF Tree, Bindings, AllChildren
<1>2. Len(bound) + 1 <= Len(definition.fields) /\ outcome = "running"
  BY FieldsAre DEF AtField, Upcoming
<1>3. bound' \in Seq(Bindings) /\ Len(bound') <= Len(definition.fields)
  BY <1>2, FieldsAre DEF After
<1>4. outcome' \in Outcomes /\ outcome' # "ok"
  BY <1>2 DEF After, Outcomes, Failures
<1>5. bound' \in Seq([node : SUBSET children, delimiter : SUBSET AllChildren,
                     values : SUBSET AllChildren, separators : SUBSET AllChildren])'
  BY <1>1, <1>3 DEF Bindings
<1>. QED  BY <1>1, <1>3, <1>4, <1>5 DEF TypeOK

LEMMA MigrateFieldStep ==
  ASSUME IInv, MigrateField
  PROVE  IInv'
<1>1. PICK gathered \in {Gathered(Field, Gathering(Field.shape), left)} :
        /\ left' = Remaining(left, gathered)
        /\ After(gathered, Binding(None, None, gathered))
  BY DEF MigrateField
<1>. DEFINE b == Binding(None, None, gathered)
<1>2. /\ gathered.values \subseteq left /\ gathered.separators \subseteq left
      /\ gathered.fault \in {"ok"} \cup Failures
  BY <1>1, GatheredAmong, GatheredOutcome
<1>3. left \subseteq children /\ outcome = "running"
  BY DEF IInv, TypeOK, MigrateField, AtField
<1>4. b \in Bindings /\ Used(b) = gathered.values \cup gathered.separators
  BY <1>2, <1>3 DEF Bindings, AllChildren, Binding, Used, None
<1>5. left' = left \ Used(b) /\ AtField /\ UNCHANGED Tree /\ delimiter' = delimiter
  BY <1>1, <1>4 DEF Remaining, MigrateField
<1>6. bound' = Append(bound, b) \/ bound' = bound
  BY <1>1 DEF After
<1>. HIDE DEF b
<1>7. TypeOK'
  BY <1>1, <1>2, <1>3, <1>4, <1>5, AfterTyped DEF IInv, b
<1>8. ChildrenUsedOnce'
  BY <1>2, <1>4, <1>5, <1>6, FieldsAre, BindingUsesOnce DEF IInv
<1>9. Fresh'
  BY <1>1, <1>2, <1>3, <1>5 DEF IInv, Fresh, After, Tree, Failures
<1>. QED  BY <1>7, <1>8, <1>9 DEF IInv

LEMMA MigrateDelimitedHereStep ==
  ASSUME IInv, MigrateDelimitedHere
  PROVE  IInv'
<1>. DEFINE cs == IF IsDelimitedNewtype(definition) THEN children ELSE left
            gathered == Inside(cs)
            b == Binding(None, Delimiter(cs), gathered)
<1>1. /\ left' = Remaining(cs, gathered) \ Delimiter(cs)
      /\ After(gathered, b)
      /\ AtField /\ UNCHANGED Tree /\ delimiter' = delimiter /\ outcome = "running"
  BY DEF MigrateDelimitedHere, AtField
<1>2. /\ gathered.values \subseteq cs /\ gathered.separators \subseteq cs
      /\ Delimiter(cs) \subseteq cs
      /\ gathered.fault \in {"ok"} \cup Failures
  <2>. HIDE DEF cs
  <2>. QED  BY InsideAmong, DelimiterAmong
<1>3. left \subseteq children /\ cs \subseteq children /\ definition \in Definitions
  BY DEF IInv, TypeOK
<1>. HIDE DEF cs, gathered
<1>4. b \in Bindings /\ Used(b) = Delimiter(cs) \cup gathered.values \cup gathered.separators
  BY <1>2, <1>3 DEF Bindings, AllChildren, Binding, Used, None
<1>5. left' = cs \ Used(b) /\ Used(b) \subseteq cs
  BY <1>1, <1>2, <1>4 DEF Remaining
<1>6. bound' = Append(bound, b) \/ bound' = bound
  BY <1>1 DEF After
<1>. HIDE DEF b
<1>7. TypeOK'
  BY <1>1, <1>2, <1>3, <1>4, <1>5, AfterTyped DEF IInv
<1>8. ChildrenUsedOnce'
  <2>1. CASE ~ IsDelimitedNewtype(definition)
    <3>1. cs = left
      BY <2>1 DEF cs
    <3>. QED  BY <1>1, <1>4, <1>5, <1>6, <3>1, FieldsAre, BindingUsesOnce DEF IInv
  <2>2. CASE IsDelimitedNewtype(definition)
    <3>1. Len(bound) = 0 /\ bound \in Seq(Bindings)
      BY <1>1, <2>2, FieldsAre DEF IInv, AtField, Upcoming, IsDelimitedNewtype
    <3>2. bound = <<>> /\ delimiter' = {}
      BY <1>1, <1>3, <2>2, <3>1, DelimitedOnce DEF IInv, Fresh
    <3>3. bound' = <<b>> \/ bound' = <<>>
      BY <1>6, <3>2
    <3>4. \A i \in DOMAIN bound' : i = 1 /\ bound'[i] = b
      BY <3>3
    <3>. QED  BY <1>5, <3>2, <3>4 DEF ChildrenUsedOnce, None, Used
  <2>. QED  BY <2>1, <2>2
<1>9. Fresh'
  BY <1>1, <1>2, <1>3 DEF IInv, Fresh, After, Tree, Failures
<1>. QED  BY <1>7, <1>8, <1>9 DEF IInv

LEMMA MigrateDelimitedChildStep ==
  ASSUME IInv, MigrateDelimitedChild
  PROVE  IInv'
<1>. DEFINE node == First({ c \in left : Accepts(Field, c) })
            cs == UNION { c.inner : c \in node }
            missing == [values |-> None, separators |-> None, fault |-> "missing_field"]
            gathered == IF node = None THEN missing ELSE Inside(cs)
            b == Binding(node, Delimiter(cs), gathered)
<1>1. /\ left' = left \ node
      /\ After(gathered, b)
      /\ AtField /\ UNCHANGED Tree /\ delimiter' = delimiter /\ outcome = "running"
  BY DEF MigrateDelimitedChild, AtField
<1>2. node \subseteq left /\ left \subseteq children
  BY FirstAmong DEF IInv, TypeOK
<1>3. cs \subseteq AllChildren
  BY <1>2 DEF AllChildren
<1>4. /\ gathered.values \subseteq cs /\ gathered.separators \subseteq cs
      /\ gathered.fault \in {"ok"} \cup Failures
      /\ Delimiter(cs) \subseteq cs
  <2>1. CASE node = None
    <3>1. gathered.values = {} /\ gathered.separators = {} /\ gathered.fault = "missing_field"
      BY <2>1 DEF None
    <3>. HIDE DEF cs, gathered
    <3>. QED  BY <3>1, DelimiterAmong DEF Failures
  <2>2. CASE node # None
    <3>1. gathered = Inside(cs)
      BY <2>2
    <3>. HIDE DEF cs
    <3>. QED  BY <3>1, InsideAmong, DelimiterAmong
  <2>. QED  BY <2>1, <2>2
<1>5. Used(b) \subseteq left /\ left' = left \ Used(b)
  <2>1. CASE node = None
    <3>1. cs = {}
      BY <2>1 DEF None
    <3>2. Used(b) = {}
      BY <1>4, <2>1, <3>1 DEF Used, Binding, None
    <3>. QED  BY <1>1, <2>1, <3>2 DEF None
  <2>2. CASE node # None
    <3>1. Used(b) = node
      BY <2>2 DEF Used, Binding
    <3>. QED  BY <1>1, <1>2, <3>1
  <2>. QED  BY <2>1, <2>2
<1>. HIDE DEF node, cs, gathered
<1>6. b \in Bindings
  BY <1>2, <1>3, <1>4 DEF Bindings, Binding
<1>7. bound' = Append(bound, b) \/ bound' = bound
  BY <1>1 DEF After
<1>. HIDE DEF b
<1>8. TypeOK'
  BY <1>1, <1>2, <1>4, <1>6, AfterTyped DEF IInv
<1>9. ChildrenUsedOnce'
  BY <1>1, <1>5, <1>6, <1>7, FieldsAre, BindingUsesOnce DEF IInv
<1>10. Fresh'
  BY <1>1, <1>4 DEF IInv, Fresh, After, Tree, Failures
<1>. QED  BY <1>8, <1>9, <1>10 DEF IInv

LEMMA ParserStep ==
  ASSUME IInv, ParserAdds \/ ParserDrops
  PROVE  IInv'
<1>1. /\ outcome = "parsing" /\ strays' = strays + 1 /\ strays < MaxStray
      /\ UNCHANGED <<definition, left, delimiter, bound, outcome>>
  BY DEF ParserAdds, ParserDrops
<1>2. left = {} /\ bound = <<>> /\ delimiter = {}
  BY <1>1 DEF IInv, Fresh
<1>3. strays + 1 \in 0 .. MaxStray
  BY <1>1, SchemaAssumption DEF IInv, TypeOK
<1>4. TypeOK'
  BY <1>1, <1>2, <1>3 DEF IInv, TypeOK
<1>. QED  BY <1>1, <1>2, <1>4 DEF IInv, Fresh, ChildrenUsedOnce, None

LEMMA TakeDelimiterStep ==
  ASSUME IInv, TakeDelimiter
  PROVE  IInv'
<1>. DEFINE taken == Openings(definition.family, left)
                       \cup Closings(definition.family, left \ Openings(definition.family, left))
<1>1. /\ delimiter' = taken /\ left' = left \ taken /\ delimiter = {}
      /\ outcome' \in {"missing_child", "running"} /\ definition.family # 0
      /\ UNCHANGED Tree /\ bound' = bound /\ outcome = "running"
  BY DEF TakeDelimiter, None
<1>2. taken \subseteq left
  BY DEF Openings, Closings, First
<1>. HIDE DEF taken
<1>3. TypeOK'
  BY <1>1, <1>2 DEF IInv, TypeOK, Tree, Outcomes, Failures, AllChildren
<1>4. ChildrenUsedOnce'
  BY <1>1, <1>2 DEF IInv, ChildrenUsedOnce, None, Used
<1>. QED  BY <1>1, <1>3, <1>4 DEF IInv, Fresh, Tree

\* Beginning, refusing and finishing take nothing.
LEMMA QuietStep ==
  ASSUME IInv, Begin \/ WrongNode \/ Finish \/ UNCHANGED vars
  PROVE  IInv'
<1>1. CASE Begin
  <2>1. /\ bound = <<>> /\ delimiter = {} /\ left' = children /\ outcome' = "running"
        /\ UNCHANGED <<Tree, delimiter, bound>>
    BY <1>1 DEF IInv, Fresh, Begin
  <2>2. TypeOK'
    BY <2>1 DEF IInv, TypeOK, Tree, Outcomes, AllChildren
  <2>. QED  BY <2>1, <2>2 DEF IInv, Fresh, ChildrenUsedOnce, None, Tree
<1>2. CASE WrongNode \/ Finish
  <2>1. /\ UNCHANGED <<Tree, left, delimiter, bound>>
        /\ outcome' \in {"wrong_node", "ok"}
        /\ outcome' = "ok" => Upcoming \notin DOMAIN definition.fields
    BY <1>2 DEF WrongNode, Finish
  <2>2. outcome' = "ok" => Len(bound) = Len(definition.fields)
    <3>1. Len(bound) <= Len(definition.fields)
      BY DEF IInv, TypeOK
    <3>. QED  BY <2>1, <3>1, FieldsAre DEF IInv, Upcoming
  <2>3. TypeOK'
    BY <2>1, <2>2 DEF IInv, TypeOK, Tree, Outcomes, Failures, AllChildren
  <2>. QED  BY <2>1, <2>3 DEF IInv, Fresh, ChildrenUsedOnce, None, Used, Tree
<1>3. CASE UNCHANGED vars
  BY <1>3 DEF IInv, TypeOK, Fresh, ChildrenUsedOnce, None, Used, AllChildren, vars
<1>. QED  BY <1>1, <1>2, <1>3

LEMMA InvInit == Init => IInv
<1>1. SUFFICES ASSUME Init PROVE IInv
  OBVIOUS
<1>2. /\ definition \in Definitions /\ strays = 0 /\ left = {} /\ delimiter = {}
      /\ bound = <<>> /\ outcome = "parsing"
  BY <1>1, SchemaAssumption DEF Init, None
<1>3. Len(definition.fields) \in Nat
  BY <1>2, SchemaAssumption
<1>4. TypeOK
  BY <1>2, <1>3, SchemaAssumption DEF TypeOK, Outcomes
<1>. QED  BY <1>2, <1>4 DEF IInv, Fresh, ChildrenUsedOnce, None

LEMMA InvNext == IInv /\ [Next]_vars => IInv'
<1>1. SUFFICES ASSUME IInv, [Next]_vars PROVE IInv'
  OBVIOUS
<1>2. CASE ParserAdds \/ ParserDrops
  BY <1>1, <1>2, ParserStep
<1>3. CASE TakeDelimiter
  BY <1>1, <1>3, TakeDelimiterStep
<1>4. CASE MigrateField
  BY <1>1, <1>4, MigrateFieldStep
<1>5. CASE MigrateDelimitedHere
  BY <1>1, <1>5, MigrateDelimitedHereStep
<1>6. CASE MigrateDelimitedChild
  BY <1>1, <1>6, MigrateDelimitedChildStep
<1>7. CASE Begin \/ WrongNode \/ Finish \/ Returned \/ UNCHANGED vars
  BY <1>1, <1>7, QuietStep DEF Returned
<1>. QED  BY <1>1, <1>2, <1>3, <1>4, <1>5, <1>6, <1>7 DEF Next

(***************************************************************************)
(* Migration keeps its types, and a struct it returns has all its fields,  *)
(* for every schema and every tree.                                        *)
(***************************************************************************)
THEOREM MigrationTyped == Spec => []TypeOK
<1>1. IInv => TypeOK
  BY DEF IInv
<1>. QED  BY <1>1, InvInit, InvNext, PTL DEF Spec

(***************************************************************************)
(* Selection is single-pass (cst.rs:107): whatever the shapes of the       *)
(* fields, no child becomes part of two of them, or of a field and the     *)
(* struct's delimiter, and none the cursor still holds is in use.          *)
(***************************************************************************)
THEOREM SelectionSinglePass == Spec => []ChildrenUsedOnce
<1>1. IInv => ChildrenUsedOnce
  BY DEF IInv
<1>. QED  BY <1>1, InvInit, InvNext, PTL DEF Spec

----------------------------------------------------------------------------
(* What a field leaves for the ones behind it. *)

Placed == \A c \in children : c.at \in Nat

\* Child c could have been part of field i, but the field has an earlier one.
Passed(i, c) ==
  /\ Gathering(definition.fields[i].shape) \in {"required", "optional"}
  /\ \E d \in bound[i].values : d.at < c.at

\* The fields migrated so far have taken all they can be made of.
Satisfied ==
  \A i \in DOMAIN bound : ~ IsDelimited(definition.fields[i]) =>
    \A c \in left : Accepts(definition.fields[i], c) => Passed(i, c)

\* Of some children one is the first.
LEMMA FirstExists ==
  ASSUME NEW cs, NEW c \in cs, \A d \in cs : d.at \in Nat
  PROVE  \E d \in First(cs) : d.at <= c.at
<1>1. PICK place \in { d.at : d \in cs } : \A other \in { d.at : d \in cs } : place <= other
  <2>. DEFINE places == { d.at : d \in cs }
  <2>1. places \subseteq Nat /\ places # {}
    OBVIOUS
  <2>. HIDE DEF places
  <2>. QED  BY <2>1, LeastMember DEF places
<1>2. PICK d \in cs : place = d.at
  BY <1>1
<1>3. \A e \in cs : d.at <= e.at
  BY <1>1, <1>2
<1>. QED  BY <1>3 DEF First

\* A child that a field accepts and does not take comes after one it takes.
LEMMA GatheredFirst ==
  ASSUME NEW field, NEW gathering, NEW cs, \A d \in cs : d.at \in Nat,
         NEW c \in Remaining(cs, Gathered(field, gathering, cs)), Accepts(field, c)
  PROVE  /\ gathering \in {"required", "optional"}
         /\ \E d \in Gathered(field, gathering, cs).values : d.at < c.at
<1>. DEFINE accepted == { d \in cs : Accepts(field, d) }
<1>1. c \in accepted /\ c \notin Values(gathering, accepted)
      /\ Gathered(field, gathering, cs).values = Values(gathering, accepted)
  BY DEF Remaining, Gathered
<1>. HIDE DEF accepted
<1>2. gathering \in {"required", "optional"} /\ Values(gathering, accepted) = First(accepted)
  BY <1>1 DEF Values
<1>3. \A d \in accepted : d.at \in Nat
  BY DEF accepted
<1>4. PICK d \in First(accepted) : d.at <= c.at
  BY <1>1, <1>3, FirstExists
<1>5. d \in accepted /\ c.at # d.at
  BY <1>1, <1>2, <1>4 DEF First
<1>6. d.at < c.at
  BY <1>1, <1>3, <1>4, <1>5
<1>. QED  BY <1>1, <1>2, <1>4, <1>6

\* The invariant holds on while fewer children are left and nothing is bound.
LEMMA FewerLeft ==
  ASSUME Satisfied, left' \subseteq left, bound' = bound, definition' = definition
  PROVE  Satisfied'
BY DEF Satisfied, Passed

\* Or a field is bound that is delimited, or that leaves none but later ones.
LEMMA OneMoreBound ==
  ASSUME IInv, Satisfied, AtField, definition' = definition, left' \subseteq left,
         NEW b \in Bindings, bound' = Append(bound, b) \/ bound' = bound,
         IsDelimited(Field) \/
           \A c \in left' : Accepts(Field, c) =>
             /\ Gathering(Field.shape) \in {"required", "optional"}
             /\ \E d \in b.values : d.at < c.at
  PROVE  Satisfied'
<1>1. CASE bound' = bound
  BY <1>1, FewerLeft
<1>2. CASE bound' = Append(bound, b)
  <2>1. bound \in Seq(Bindings) /\ Len(bound) \in Nat
    BY FieldsAre DEF IInv
  <2>2. ASSUME NEW i \in DOMAIN bound'
        PROVE  \/ i \in DOMAIN bound /\ bound'[i] = bound[i]
               \/ definition.fields[i] = Field /\ bound'[i] = b
    BY <1>2, <2>1 DEF Field, Upcoming
  <2>3. ASSUME NEW i \in DOMAIN bound', ~ IsDelimited(definition.fields[i]),
               NEW c \in left', Accepts(definition.fields[i], c)
        PROVE  /\ Gathering(definition.fields[i].shape) \in {"required", "optional"}
               /\ \E d \in bound'[i].values : d.at < c.at
    <3>1. CASE i \in DOMAIN bound /\ bound'[i] = bound[i]
      BY <2>3, <3>1 DEF Satisfied, Passed
    <3>2. CASE definition.fields[i] = Field /\ bound'[i] = b
      BY <2>3, <3>2
    <3>. QED  BY <2>2, <3>1, <3>2
  <2>. QED  BY <2>3 DEF Satisfied, Passed
<1>. QED  BY <1>1, <1>2

LEMMA MigrateFieldSatisfied ==
  ASSUME IInv, Placed, Satisfied, MigrateField
  PROVE  Satisfied'
<1>1. PICK gathered \in {Gathered(Field, Gathering(Field.shape), left)} :
        /\ left' = Remaining(left, gathered)
        /\ After(gathered, Binding(None, None, gathered))
  BY DEF MigrateField
<1>. DEFINE b == Binding(None, None, gathered)
<1>2. gathered.values \subseteq left /\ gathered.separators \subseteq left
  BY <1>1, GatheredAmong
<1>3. left \subseteq children /\ AtField /\ definition' = definition
  BY DEF IInv, TypeOK, MigrateField, Tree
<1>4. b \in Bindings /\ b.values = gathered.values
  BY <1>2, <1>3 DEF Bindings, AllChildren, Binding, None
<1>5. left' \subseteq left /\ (bound' = Append(bound, b) \/ bound' = bound)
  BY <1>1 DEF Remaining, After
<1>6. \A d \in left : d.at \in Nat
  BY <1>3 DEF Placed
<1>7. ASSUME NEW c \in left', Accepts(Field, c)
      PROVE  /\ Gathering(Field.shape) \in {"required", "optional"}
             /\ \E d \in b.values : d.at < c.at
  <2>1. c \in Remaining(left, Gathered(Field, Gathering(Field.shape), left))
    BY <1>1
  <2>. HIDE DEF b
  <2>. QED  BY <1>1, <1>4, <1>6, <1>7, <2>1, GatheredFirst
<1>. HIDE DEF b
<1>. QED  BY <1>3, <1>4, <1>5, <1>7, OneMoreBound

\* The fields of a delimited newtype are delimited, and any other delimited
\* field takes its children from those that are left.
LEMMA MigrateDelimitedSatisfied ==
  ASSUME IInv, Satisfied, MigrateDelimitedHere \/ MigrateDelimitedChild
  PROVE  Satisfied'
<1>1. AtField /\ IsDelimited(Field) /\ definition' = definition
  BY DEF MigrateDelimitedHere, MigrateDelimitedChild, Tree
<1>2. CASE ~ IsDelimitedNewtype(definition)
  <2>1. left' \subseteq left
    BY <1>2 DEF MigrateDelimitedHere, MigrateDelimitedChild, Remaining
  <2>2. CASE bound' = bound
    BY <1>1, <2>1, <2>2, FewerLeft
  <2>3. CASE bound' # bound
    <3>1. PICK b : bound' = Append(bound, b)
      BY <2>3 DEF MigrateDelimitedHere, MigrateDelimitedChild, After
    <3>2. bound \in Seq(Bindings) /\ Len(bound) \in Nat
      BY FieldsAre DEF IInv
    <3>3. ASSUME NEW i \in DOMAIN bound'
          PROVE  \/ i \in DOMAIN bound /\ bound'[i] = bound[i]
                 \/ definition.fields[i] = Field
      BY <3>1, <3>2 DEF Field, Upcoming
    <3>4. ASSUME NEW i \in DOMAIN bound', ~ IsDelimited(definition.fields[i]),
                 NEW c \in left', Accepts(definition.fields[i], c)
          PROVE  /\ Gathering(definition.fields[i].shape) \in {"required", "optional"}
                 /\ \E d \in bound'[i].values : d.at < c.at
      <4>1. i \in DOMAIN bound /\ bound'[i] = bound[i] /\ c \in left
        BY <1>1, <2>1, <3>3, <3>4
      <4>. QED  BY <3>4, <4>1 DEF Satisfied, Passed
    <3>. QED  BY <1>1, <3>4 DEF Satisfied, Passed
  <2>. QED  BY <2>2, <2>3
<1>3. CASE IsDelimitedNewtype(definition)
  <2>1. IInv'
    BY MigrateDelimitedHereStep, MigrateDelimitedChildStep
  <2>2. \A i \in DOMAIN bound' : i = 1
    <3>1. bound' \in Seq(Bindings') /\ Len(bound') <= Len(definition'.fields) /\ Len(bound') \in Nat
      BY <2>1 DEF IInv, TypeOK, Bindings
    <3>2. Len(definition.fields) = 1
      BY <1>3 DEF IsDelimitedNewtype
    <3>. QED  BY <1>1, <3>1, <3>2
  <2>. QED  BY <1>1, <1>3, <2>2 DEF Satisfied, IsDelimitedNewtype
<1>. QED  BY <1>2, <1>3

LEMMA PlacedStep ==
  ASSUME Placed, [Next]_vars
  PROVE  Placed'
<1>1. children' \subseteq children \cup Children
  BY DEF Next, vars, Tree, ParserAdds, ParserDrops, Begin, WrongNode, TakeDelimiter, MigrateField,
         MigrateDelimitedHere, MigrateDelimitedChild, Finish, Returned
<1>. QED  BY <1>1, PlacesAssumption DEF Placed

LEMMA SatisfiedStep ==
  ASSUME IInv, Placed, Satisfied, [Next]_vars
  PROVE  Satisfied'
<1>1. CASE ParserAdds \/ ParserDrops \/ Begin
  <2>1. bound = <<>> /\ bound' = bound
    BY <1>1 DEF IInv, Fresh, ParserAdds, ParserDrops, Begin
  <2>. QED  BY <2>1 DEF Satisfied
<1>2. CASE MigrateField
  BY <1>2, MigrateFieldSatisfied
<1>3. CASE MigrateDelimitedHere \/ MigrateDelimitedChild
  BY <1>3, MigrateDelimitedSatisfied
<1>4. CASE WrongNode \/ TakeDelimiter \/ Finish \/ Returned \/ UNCHANGED vars
  <2>1. left' \subseteq left /\ bound' = bound /\ definition' = definition
    BY <1>4 DEF WrongNode, TakeDelimiter, Finish, Returned, vars, Tree
  <2>. QED  BY <2>1, FewerLeft
<1>. QED  BY <1>1, <1>2, <1>3, <1>4 DEF Next

(***************************************************************************)
(* A migration that succeeds has gathered all it could: whatever the       *)
(* schema, no child a repeatable field is made of is left over, and a      *)
(* single field got its first child (the generated migrate, syntax.rs).    *)
(***************************************************************************)
THEOREM GathersAll == Spec => []NoneLeftBehind
<1>. DEFINE Inv == IInv /\ Placed /\ Satisfied
<1>1. Init => Inv
  <2> SUFFICES ASSUME Init PROVE Inv
    OBVIOUS
  <2>1. bound = <<>> /\ Placed
    BY PlacesAssumption DEF Init, Placed
  <2>. QED  BY <2>1, InvInit DEF Satisfied
<1>2. Inv /\ [Next]_vars => Inv'
  BY InvNext, PlacedStep, SatisfiedStep
<1>3. Inv => NoneLeftBehind
  <2> SUFFICES ASSUME Inv, outcome = "ok" PROVE NoneLeftBehind
    BY DEF NoneLeftBehind
  <2>1. /\ bound \in Seq(Bindings) /\ Len(bound) = Len(definition.fields)
        /\ DOMAIN definition.fields = 1 .. Len(definition.fields)
    BY FieldsAre DEF IInv, TypeOK
  <2>2. DOMAIN bound = DOMAIN definition.fields
    BY <2>1
  <2>. QED  BY <2>2 DEF NoneLeftBehind, Satisfied, Passed
<1>. HIDE DEF Inv
<1>4. Spec => []Inv
  BY <1>1, <1>2, PTL DEF Spec
<1>. QED  BY <1>3, <1>4, PTL

----------------------------------------------------------------------------
(* A node built from a value gives that value back. *)

\* No two delimiters are spelled alike.
LEMMA FamiliesDiffer ==
  /\ DOMAIN Families = 1 .. 4
  /\ \A f, g \in 1 .. 4 : /\ Families[f][1] # Families[g][2]
                          /\ f # g => Families[f][1] # Families[g][1]
<1>1. DOMAIN Families = 1 .. 4
  BY DEF Families
<1>2. \A f \in 1 .. 4 : f = 1 \/ f = 2 \/ f = 3 \/ f = 4
  OBVIOUS
<1>3. /\ Families[1][1] = "(" /\ Families[1][2] = ")"
      /\ Families[2][1] = "[" /\ Families[2][2] = "]"
      /\ Families[3][1] = "{" /\ Families[3][2] = "}"
      /\ Families[4][1] = "<|" /\ Families[4][2] = "|>"
  BY DEF Families
<1>. QED  BY <1>1, <1>2, <1>3

\* take_first takes the child that comes before all others that fit.
LEMMA FirstIs ==
  ASSUME NEW cs, NEW v \in cs, v.at \in Nat,
         \A c \in cs : c = v \/ (c.at \in Nat /\ v.at < c.at)
  PROVE  First(cs) = {v}
<1>1. v \in First(cs)
  BY DEF First
<1>2. ASSUME NEW c \in First(cs)
      PROVE  c = v
  BY DEF First
<1>. QED  BY <1>1, <1>2

\* From what fills a field, and what it does not take, the field is gathered.
LEMMA GathersBack ==
  ASSUME NEW field, NEW V, NEW S, NEW O, Fills(field, V, S, O),
         \A c \in V \cup O : c.at \in Nat
  PROVE  Gathered(field, Gathering(field.shape), V \cup S \cup O)
           = [values |-> V, separators |-> S, fault |-> "ok"]
<1>. DEFINE g == Gathering(field.shape)
            cs == V \cup S \cup O
            A == { c \in cs : Accepts(field, c) }
<1>0. /\ \A v \in V : Accepts(field, v)
      /\ ElementsMigrate(field, V)
      /\ \A s \in S : Spelled(",", s) /\ ~ Accepts(field, s)
      /\ g = "required" => \E v \in V : V = {v}
      /\ g = "optional" => \A v, w \in V : v = w
      /\ IsPunctuated(g) \/ S = None
      /\ IsPunctuated(g) => Paired(V, S) \/ (g = "optional_punctuated" /\ V = None /\ S = None)
      /\ \A c \in O : /\ Accepts(field, c) => ~ MayRepeat(g) /\ \E v \in V : v.at < c.at
                      /\ IsPunctuated(g) => ~ Spelled(",", c)
  BY DEF Fills
<1>. HIDE DEF g
<1>1. Values(g, A) = V
  <2>1. CASE MayRepeat(g)
    <3>1. A = V
      BY <1>0, <2>1
    <3>. QED  BY <2>1, <3>1 DEF Values, MayRepeat
  <2>2. CASE ~ MayRepeat(g) /\ V = {}
    <3>1. A = {}
      BY <1>0, <2>2
    <3>. QED  BY <2>2, <3>1 DEF Values, MayRepeat, First
  <2>3. CASE ~ MayRepeat(g) /\ V # {}
    <3>1. PICK v \in V : V = {v}
      BY <1>0, <2>3 DEF MayRepeat
    <3>2. v \in A /\ \A c \in A : c = v \/ c \in O
      BY <1>0, <3>1
    <3>3. \A c \in A : c = v \/ (c.at \in Nat /\ v.at < c.at)
      <4> SUFFICES ASSUME NEW c \in A, c # v
                   PROVE  c.at \in Nat /\ v.at < c.at
        OBVIOUS
      <4>1. c \in O /\ Accepts(field, c)
        BY <3>2
      <4>2. PICK w \in V : w.at < c.at
        BY <1>0, <4>1
      <4>3. w = v
        BY <3>1, <4>2
      <4> QED BY <4>1, <4>2, <4>3
    <3>4. First(A) = {v}
      BY <3>1, <3>2, <3>3, FirstIs
    <3>. QED  BY <2>3, <3>1, <3>4 DEF Values, MayRepeat
  <2>. QED  BY <2>1, <2>2, <2>3
<1>2. Separators(g, cs \ V) = S
  <2>1. CASE IsPunctuated(g)
    <3>1. { c \in cs \ V : Spelled(",", c) } = S
      BY <1>0, <2>1
    <3>. QED  BY <2>1, <3>1 DEF Separators, IsPunctuated
  <2>2. CASE ~ IsPunctuated(g)
    BY <1>0, <2>2 DEF Separators, IsPunctuated
  <2>. QED  BY <2>1, <2>2
<1>3. Fault(field, g, V, S) = "ok"
  <2>1. g = "required" => V # {}
    BY <1>0
  <2>2. g = "punctuated" => Paired(V, S)
    BY <1>0 DEF IsPunctuated
  <2>3. g = "optional_punctuated" => Paired(V, S) \/ (V = {} /\ S = {})
    BY <1>0 DEF IsPunctuated
  <2>. QED  BY <1>0, <2>1, <2>2, <2>3 DEF Fault, None
<1>. QED  BY <1>1, <1>2, <1>3 DEF Gathered, g

\* Comments are named, and extra.
Comments(X) == \A c \in X : c.extra /\ c.named

\* No field takes them.
LEMMA FillsAmongComments ==
  ASSUME NEW field, NEW V, NEW S, NEW O, Fills(field, V, S, O), NEW X, Comments(X)
  PROVE  Fills(field, V, S, O \cup X)
<1>1. \A c \in X : ~ Accepts(field, c) /\ ~ Spelled(",", c)
  BY DEF Comments, Accepts, Spelled
<1>. QED  BY <1>1 DEF Fills

\* And none is a delimiter.
LEMMA EnclosesAmongComments ==
  ASSUME NEW family, NEW pair, NEW O, Encloses(family, pair, O), NEW X, Comments(X)
  PROVE  Encloses(family, pair, O \cup X)
<1>1. \A c \in X : \A f : ~ Spelled(Families[f][1], c) /\ ~ Spelled(Families[f][2], c)
  BY DEF Comments, Spelled
<1>. QED  BY <1>1 DEF Encloses

\* The same of any family.
LEMMA DelimitsAmongComments ==
  ASSUME NEW pair, NEW O, Delimits(pair, O), NEW X, Comments(X)
  PROVE  Delimits(pair, O \cup X)
<1>1. PICK family \in DOMAIN Families :
        /\ Encloses(family, pair, O)
        /\ \A f \in 1 .. family - 1, c \in O : ~ Spelled(Families[f][1], c)
  BY DEF Delimits
<1>2. Encloses(family, pair, O \cup X)
  BY <1>1, EnclosesAmongComments
<1>3. \A c \in X : \A f : ~ Spelled(Families[f][1], c)
  BY DEF Comments, Spelled
<1>. QED  BY <1>1, <1>2, <1>3 DEF Delimits

\* The cursor finds that opening and that closing.
FoundAs(family, pair, O, a, b) ==
  /\ pair = {a, b} /\ Openings(family, pair \cup O) = {a}
  /\ Closings(family, (pair \cup O) \ {a}) = {b}
  /\ pair \cap O = {}
  /\ Spelled(Families[family][1], a) /\ Spelled(Families[family][2], b)

\* A delimiter that is alone of its family is found.
LEMMA EnclosingFound ==
  ASSUME NEW family \in 1 .. 4, NEW pair, NEW O, Encloses(family, pair, O),
         \A c \in pair : c.at \in Nat
  PROVE  \E a, b \in pair : FoundAs(family, pair, O, a, b)
<1>. DEFINE cs == pair \cup O
            A == Families[family][1]
            B == Families[family][2]
<1>1. PICK a, b \in pair : pair = {a, b} /\ Spelled(A, a) /\ Spelled(B, b)
  BY DEF Encloses
<1>2. A # B
  BY FamiliesDiffer
<1>3. \A c \in O : ~ Spelled(A, c) /\ ~ Spelled(B, c)
  BY DEF Encloses
<1>. HIDE DEF A, B
<1>4. ~ Spelled(A, b) /\ a # b
  BY <1>1, <1>2 DEF Spelled
<1>5. { c \in cs : Spelled(A, c) } = {a}
  <2>1. \A c \in cs : c = a \/ c = b \/ c \in O
    BY <1>1
  <2>2. a \in cs
    OBVIOUS
  <2>. QED  BY <1>1, <1>3, <1>4, <2>1, <2>2
<1>6. First({a}) = {a} /\ First({b}) = {b}
  <2>1. a.at \in Nat /\ b.at \in Nat
    OBVIOUS
  <2>. QED  BY <2>1, FirstIs
<1>7. Openings(family, cs) = {a}
  BY <1>5, <1>6 DEF Openings, A
<1>8. { c \in cs \ {a} : Spelled(B, c) } = {b}
  <2>1. \A c \in cs \ {a} : c = b \/ c \in O
    BY <1>1
  <2>2. b \in cs \ {a}
    BY <1>4
  <2>. QED  BY <1>1, <1>3, <2>1, <2>2
<1>9. Closings(family, cs \ {a}) = {b}
  BY <1>6, <1>8 DEF Closings, B
<1>10. pair \cap O = {}
  BY <1>1, <1>3
<1>. QED  BY <1>1, <1>7, <1>9, <1>10 DEF A, B, FoundAs

\* And so is one before which no other family is found.
LEMMA DelimiterBack ==
  ASSUME NEW pair, NEW O, Delimits(pair, O), \A c \in pair : c.at \in Nat
  PROVE  /\ Delimiter(pair \cup O) = pair /\ DelimiterFound(pair \cup O)
         /\ pair \cap O = {}
<1>. DEFINE cs == pair \cup O
<1>1. PICK family \in 1 .. 4 :
        /\ Encloses(family, pair, O)
        /\ \A f \in 1 .. family - 1, c \in O : ~ Spelled(Families[f][1], c)
  BY FamiliesDiffer DEF Delimits
<1>0. PICK a, b \in pair : FoundAs(family, pair, O, a, b)
  BY <1>1, EnclosingFound
<1>2.   /\ pair = {a, b} /\ Openings(family, cs) = {a}
        /\ Closings(family, cs \ {a}) = {b}
        /\ pair \cap O = {}
        /\ Spelled(Families[family][1], a) /\ Spelled(Families[family][2], b)
  BY <1>0 DEF FoundAs
<1>3. ASSUME NEW f \in 1 .. family - 1
      PROVE  Openings(f, cs) = None
  <2>1. f \in 1 .. 4 /\ f # family
    OBVIOUS
  <2>2. Families[f][1] # Families[family][1] /\ Families[f][1] # Families[family][2]
    BY <2>1, FamiliesDiffer
  <2>3. \A c \in pair : ~ Spelled(Families[f][1], c)
    BY <1>2, <2>2 DEF Spelled
  <2>4. { c \in cs : Spelled(Families[f][1], c) } = {}
    BY <1>1, <2>3
  <2>. QED  BY <2>4 DEF Openings, First, None
<1>4. ASSUME NEW f \in 1 .. 4
      PROVE  f \in Family(cs) <=> f = family
  <2>. HIDE DEF cs
  <2>1. f \in Family(cs) <=> Openings(f, cs) # None /\ \A g \in 1 .. f - 1 : Openings(g, cs) = None
    BY FamiliesDiffer DEF Family
  <2>2. f < family \/ f = family \/ (family < f /\ family \in 1 .. f - 1)
    OBVIOUS
  <2>3. f < family => f \in 1 .. family - 1
    OBVIOUS
  <2>4. Openings(family, cs) # None
    BY <1>2 DEF None
  <2>. QED  BY <1>3, <2>1, <2>2, <2>3, <2>4
<1>5. Family(cs) = {family}
  BY <1>4, FamiliesDiffer DEF Family
<1>. HIDE DEF cs
<1>6. Delimiter(cs) = pair
  <2>1. Delimiter(cs) = Openings(family, cs) \cup Closings(family, cs \ Openings(family, cs))
    BY <1>5 DEF Delimiter
  <2>. QED  BY <1>2, <2>1
<1>7. DelimiterFound(cs)
  <2>1. Closings(family, cs \ Openings(family, cs)) # None
    BY <1>2 DEF None
  <2>. QED  BY <1>5, <2>1 DEF DelimiterFound
<1>. QED  BY <1>2, <1>6, <1>7 DEF cs

\* A delimiter and its contents are found.
LEMMA InsideBack ==
  ASSUME NEW pair, NEW V, NEW S, NEW O, Delimits(pair, V \cup S \cup O),
         Fills(Contents(Field), V, S, O), \A c \in pair \cup V \cup O : c.at \in Nat
  PROVE  /\ Delimiter(pair \cup (V \cup S \cup O)) = pair
         /\ Inside(pair \cup (V \cup S \cup O))
              = [values |-> V, separators |-> S, fault |-> "ok"]
<1>. DEFINE rest == V \cup S \cup O
            cs == pair \cup rest
            field == Contents(Field)
<1>1. Delimiter(cs) = pair /\ DelimiterFound(cs) /\ pair \cap rest = {}
  BY DelimiterBack
<1>2. cs \ Delimiter(cs) = rest
  BY <1>1
<1>3. Gathered(field, Gathering(field.shape), rest)
        = [values |-> V, separators |-> S, fault |-> "ok"]
  <2>. HIDE DEF field
  <2>. QED  BY GathersBack DEF field
<1>. HIDE DEF rest
<1>4. Inside(cs) = Gathered(field, Gathering(field.shape), cs \ Delimiter(cs))
  <2>. HIDE DEF cs
  <2>. QED  BY <1>1 DEF Inside
<1>. QED  BY <1>1, <1>2, <1>3, <1>4 DEF rest

(***************************************************************************)
(* What is left of a node while it is migrated: what the fields still to   *)
(* come are made of, and comments.                                         *)
(***************************************************************************)
OwnPair(t) == t.children \ UsedByFields(t.reading)

\* What the first n fields are made of.
UsedUpTo(bindings, n) == UNION { Used(bindings[j]) : j \in 1 .. n }

\* The node of tree t, among whose children comments may hang.
Grown(t) ==
  /\ BuiltFromValue(t)
  /\ t.definition = definition /\ t.identity = identity /\ t.reading = reading
  /\ t.children \subseteq children /\ Comments(children \ t.children)

\* The fields bound so far are those of the reading.
Progress(t) ==
  outcome # "parsing" =>
    /\ outcome \in {"running", "ok"}
    /\ \A i \in 1 .. Len(bound) : bound[i] = reading[i]
    /\ delimiter \in {None, OwnPair(t)}
    /\ definition.family # 0 /\ delimiter = None => bound = <<>>
    /\ left = children \ (delimiter \cup UsedUpTo(reading, Len(bound)))

Returning == reading # NoReading => \E t \in Trees : Grown(t) /\ Progress(t)

\* The parts of a node that is built from a value.
LEMMA BuiltParts ==
  ASSUME NEW t, BuiltFromValue(t)
  PROVE  /\ t.identity = [kind |-> t.definition.kind, named |-> TRUE]
         /\ Len(t.reading) = Len(t.definition.fields)
         /\ t.reading = [i \in 1 .. Len(t.reading) |-> t.reading[i]]
         /\ UsedByFields(t.reading) \subseteq t.children
         /\ \A i \in 1 .. Len(t.reading) :
              /\ Used(t.reading[i]) \cap BehindField(t.reading, i) = None
              /\ FieldBuilt(t.definition, t.definition.fields[i], t.reading[i],
                            BehindField(t.reading, i))
         /\ t.definition.family = 0 => OwnPair(t) = None
         /\ t.definition.family # 0 =>
              /\ t.definition.family \in DOMAIN Families
              /\ Encloses(t.definition.family, OwnPair(t), UsedByFields(t.reading))
BY DEF BuiltFromValue, OwnPair

\* What is left when the next field is migrated.
LEMMA LeftIs ==
  ASSUME NEW t \in Trees, Grown(t), Progress(t), TypeOK, AtField
  PROVE  LET X == children \ t.children
             i == Upcoming
         IN  /\ i \in 1 .. Len(reading) /\ Comments(X)
             /\ left = Used(reading[i]) \cup (BehindField(reading, i) \cup X)
             /\ Used(reading[i]) \cap (BehindField(reading, i) \cup X) = {}
             /\ FieldBuilt(definition, Field, reading[i], BehindField(reading, i))
             /\ \A c \in Used(reading[i]) \cup BehindField(reading, i) : c.at \in Nat
<1>. DEFINE X == children \ t.children
            i == Upcoming
            n == Len(reading)
            P == OwnPair(t)
<1>1. /\ t.definition = definition /\ t.reading = reading /\ t.children \subseteq children
      /\ Comments(X) /\ BuiltFromValue(t)
  BY DEF Grown
<1>2. /\ n = Len(definition.fields)
      /\ UsedByFields(reading) \subseteq t.children
      /\ \A j \in 1 .. n : /\ Used(reading[j]) \cap BehindField(reading, j) = {}
                           /\ FieldBuilt(definition, definition.fields[j], reading[j],
                                         BehindField(reading, j))
      /\ definition.family = 0 => P = {}
  BY <1>1, BuiltParts DEF None
<1>3. n \in Nat /\ DOMAIN definition.fields = 1 .. n /\ Len(bound) \in Nat
  BY <1>2, FieldsAre
<1>4. i \in 1 .. n /\ i = Len(bound) + 1 /\ outcome = "running"
      /\ (definition.family = 0 \/ delimiter # None)
  BY <1>3 DEF AtField, Upcoming
<1>5. delimiter = P /\ left = children \ (delimiter \cup UsedUpTo(reading, Len(bound)))
  BY <1>2, <1>4 DEF Progress, None
<1>6. P = t.children \ UsedByFields(reading)
  BY <1>1 DEF OwnPair
<1>. HIDE DEF i, n, P, X
<1>7. \A j \in 1 .. Len(bound) : /\ j \in 1 .. n /\ Used(reading[i]) \subseteq BehindField(reading, j)
                                 /\ BehindField(reading, i) \subseteq BehindField(reading, j)
  <2> SUFFICES ASSUME NEW j \in 1 .. Len(bound)
               PROVE  /\ j \in 1 .. n /\ Used(reading[i]) \subseteq BehindField(reading, j)
                      /\ BehindField(reading, i) \subseteq BehindField(reading, j)
    OBVIOUS
  <2>1. j \in 1 .. n /\ i \in j + 1 .. n /\ \A k \in i + 1 .. n : k \in j + 1 .. n
    BY <1>3, <1>4
  <2>. QED  BY <2>1 DEF BehindField, n
<1>8. \A j \in 1 .. n : j \in 1 .. Len(bound) \/ j = i \/ j \in i + 1 .. n
  BY <1>3, <1>4
<1>9. UsedByFields(reading)
        = UsedUpTo(reading, Len(bound)) \cup Used(reading[i]) \cup BehindField(reading, i)
  <2>1. \A j \in i + 1 .. n : j \in 1 .. n
    BY <1>4
  <2>. QED  BY <1>4, <1>7, <1>8, <2>1 DEF UsedByFields, UsedUpTo, BehindField, n
<1>10. UsedUpTo(reading, Len(bound)) \cap (Used(reading[i]) \cup BehindField(reading, i)) = {}
  BY <1>2, <1>7 DEF UsedUpTo
<1>11. left = Used(reading[i]) \cup (BehindField(reading, i) \cup X)
  BY <1>1, <1>2, <1>5, <1>6, <1>9, <1>10 DEF X
<1>12. Used(reading[i]) \cap (BehindField(reading, i) \cup X) = {}
  BY <1>2, <1>4, <1>9 DEF X
<1>13. FieldBuilt(definition, Field, reading[i], BehindField(reading, i))
  BY <1>2, <1>4 DEF Field, i
<1>14. \A c \in Used(reading[i]) \cup BehindField(reading, i) : c.at \in Nat
  BY <1>2, <1>9, PlacesAssumption
<1>. QED  BY <1>1, <1>4, <1>11, <1>12, <1>13, <1>14 DEF X, i, n

\* The next field is bound as the reading has it.
LEMMA BindsBack ==
  ASSUME NEW t \in Trees, Grown(t), Progress(t), TypeOK, AtField, UNCHANGED <<Tree, delimiter>>,
         bound' = Append(bound, reading[Upcoming]), outcome' = outcome,
         left' = left \ Used(reading[Upcoming])
  PROVE  Grown(t)' /\ Progress(t)'
<1>. DEFINE i == Upcoming
<1>1. Grown(t)'
  BY DEF Grown, Tree
<1>2. /\ outcome = "running"
      /\ bound \in Seq(Bindings) /\ Len(bound) \in Nat /\ i = Len(bound) + 1
      /\ definition.family = 0 \/ delimiter # None
  BY FieldsAre DEF AtField, Upcoming
<1>3. /\ Len(bound') = i /\ bound'[i] = reading[i]
      /\ \A j \in 1 .. Len(bound) : bound'[j] = bound[j]
  BY <1>2
<1>4. \A j \in 1 .. i : j \in 1 .. Len(bound) \/ j = i
  BY <1>2
<1>5. /\ \A j \in 1 .. Len(bound) : bound[j] = reading[j]
      /\ delimiter \in {None, OwnPair(t)}
      /\ left = children \ (delimiter \cup UsedUpTo(reading, Len(bound)))
  BY <1>2 DEF Progress
<1>6. UsedUpTo(reading, i) = UsedUpTo(reading, Len(bound)) \cup Used(reading[i])
  <2>1. i \in 1 .. i /\ \A j \in 1 .. Len(bound) : j \in 1 .. i
    BY <1>2
  <2>. QED  BY <1>4, <2>1 DEF UsedUpTo
<1>7. \A j \in 1 .. Len(bound') : bound'[j] = reading[j]
  BY <1>3, <1>4, <1>5
<1>8. left' = children \ (delimiter \cup UsedUpTo(reading, Len(bound')))
  BY <1>3, <1>5, <1>6
<1>9. /\ reading' = reading /\ children' = children /\ definition' = definition
      /\ delimiter' = delimiter /\ outcome' = "running"
  BY <1>2 DEF Tree
<1>. HIDE DEF i
<1>. QED  BY <1>1, <1>2, <1>5, <1>7, <1>8, <1>9 DEF Progress

\* A field that is not delimited.
LEMMA MigrateFieldBack ==
  ASSUME NEW t \in Trees, Grown(t), Progress(t), TypeOK, Placed, MigrateField
  PROVE  Grown(t)' /\ Progress(t)'
<1>. DEFINE b == reading[Upcoming]
            X == children \ t.children
            O == BehindField(reading, Upcoming)
<1>1. AtField /\ ~ IsDelimited(Field) /\ UNCHANGED <<Tree, delimiter>>
  BY DEF MigrateField
<1>2. /\ Comments(X) /\ left = Used(b) \cup (O \cup X) /\ Used(b) \cap (O \cup X) = {}
      /\ FieldBuilt(definition, Field, b, O) /\ \A c \in Used(b) \cup O : c.at \in Nat
  BY <1>1, LeftIs
<1>. HIDE DEF b, X, O
<1>3. /\ b = Binding(b.node, b.delimiter, b) /\ b.node = None /\ b.delimiter = None
      /\ Fills(Field, b.values, b.separators, O)
  BY <1>1, <1>2 DEF FieldBuilt
<1>4. Used(b) = b.values \cup b.separators
  BY <1>3 DEF Used, None
<1>5. \A c \in X : c.at \in Nat
  BY DEF Placed, X
<1>6. Fills(Field, b.values, b.separators, O \cup X)
  BY <1>2, <1>3, FillsAmongComments
<1>7. \A c \in b.values \cup (O \cup X) : c.at \in Nat
  BY <1>2, <1>4, <1>5
<1>8. left = b.values \cup b.separators \cup (O \cup X)
  BY <1>2, <1>4
<1>. DEFINE gathered == [values |-> b.values, separators |-> b.separators, fault |-> "ok"]
<1>9. Gathered(Field, Gathering(Field.shape), left) = gathered
  BY <1>6, <1>7, <1>8, GathersBack
<1>10. /\ left' = Remaining(left, gathered)
       /\ After(gathered, Binding(None, None, gathered))
  BY <1>9 DEF MigrateField
<1>11. Binding(None, None, gathered) = b
  BY <1>3 DEF Binding
<1>12. left' = left \ Used(b)
  BY <1>4, <1>10 DEF Remaining
<1>13. bound' = Append(bound, b) /\ outcome' = outcome
  BY <1>10, <1>11 DEF After
<1>. QED  BY <1>1, <1>12, <1>13, BindsBack DEF b

\* The only field of a newtype takes its children from all of the node, and
\* they are all still there.
LEMMA AllLeft ==
  ASSUME NEW t \in Trees, Grown(t), Progress(t), TypeOK, AtField, IsDelimitedNewtype(definition)
  PROVE  left = children
<1>1. /\ definition \in Definitions /\ definition.family = 0 /\ Len(definition.fields) = 1
  BY DelimitedOnce DEF TypeOK, IsDelimitedNewtype
<1>2. Len(bound) = 0 /\ outcome = "running"
  BY <1>1, FieldsAre DEF AtField, Upcoming
<1>3. OwnPair(t) = {}
  BY <1>1, BuiltParts DEF Grown, None
<1>4. delimiter = {} /\ left = children \ (delimiter \cup UsedUpTo(reading, 0))
  BY <1>2, <1>3 DEF Progress, None
<1>5. UsedUpTo(reading, 0) = {}
  BY DEF UsedUpTo
<1>. QED  BY <1>4, <1>5

\* A delimited field whose delimiter is among the children of the node.
LEMMA MigrateDelimitedHereBack ==
  ASSUME NEW t \in Trees, Grown(t), Progress(t), TypeOK, Placed, MigrateDelimitedHere
  PROVE  Grown(t)' /\ Progress(t)'
<1>. DEFINE b == reading[Upcoming]
            X == children \ t.children
            O == BehindField(reading, Upcoming)
            V == b.values
            S == b.separators
            gathered == [values |-> V, separators |-> S, fault |-> "ok"]
<1>1. /\ AtField /\ IsDelimited(Field) /\ UNCHANGED <<Tree, delimiter>>
      /\ IsDelimitedNewtype(definition) \/ ~ Field.named
  BY DEF MigrateDelimitedHere
<1>2. /\ Comments(X) /\ left = Used(b) \cup (O \cup X) /\ Used(b) \cap (O \cup X) = {}
      /\ FieldBuilt(definition, Field, b, O) /\ \A c \in Used(b) \cup O : c.at \in Nat
  BY <1>1, LeftIs
<1>. HIDE DEF b, X, O
<1>3. /\ b = Binding(b.node, b.delimiter, b) /\ b.node = None
      /\ Delimits(b.delimiter, V \cup S \cup O)
      /\ Fills(Contents(Field), V, S, O)
  BY <1>1, <1>2 DEF FieldBuilt
<1>4. Used(b) = b.delimiter \cup V \cup S
  BY <1>3 DEF Used, None
<1>5. \A c \in X : c.at \in Nat
  BY DEF Placed, X
<1>6. Fills(Contents(Field), V, S, O \cup X)
  BY <1>2, <1>3, FillsAmongComments
<1>7. Delimits(b.delimiter, V \cup S \cup (O \cup X))
  <2>1. Delimits(b.delimiter, (V \cup S \cup O) \cup X)
    BY <1>2, <1>3, DelimitsAmongComments
  <2>2. (V \cup S \cup O) \cup X = V \cup S \cup (O \cup X)
    OBVIOUS
  <2>. QED  BY <2>1, <2>2
<1>8. \A c \in b.delimiter \cup V \cup (O \cup X) : c.at \in Nat
  BY <1>2, <1>4, <1>5
<1>9. left = b.delimiter \cup (V \cup S \cup (O \cup X))
  BY <1>2, <1>4
<1>10. Delimiter(left) = b.delimiter /\ Inside(left) = gathered
  <2>. DEFINE N == O \cup X
              D == b.delimiter
  <2>1. /\ Delimits(D, V \cup S \cup N) /\ Fills(Contents(Field), V, S, N)
        /\ \A c \in D \cup V \cup N : c.at \in Nat
        /\ left = D \cup (V \cup S \cup N)
    BY <1>6, <1>7, <1>8, <1>9
  <2>. HIDE DEF V, S, N, D
  <2>2. /\ Delimiter(D \cup (V \cup S \cup N)) = D
        /\ Inside(D \cup (V \cup S \cup N)) = [values |-> V, separators |-> S, fault |-> "ok"]
    BY <2>1, InsideBack
  <2>. QED  BY <2>1, <2>2 DEF D
<1>11. (IF IsDelimitedNewtype(definition) THEN children ELSE left) = left
  BY <1>1, AllLeft
<1>12. /\ left' = Remaining(left, Inside(left)) \ Delimiter(left)
       /\ After(Inside(left), Binding(None, Delimiter(left), Inside(left)))
  BY <1>11 DEF MigrateDelimitedHere
<1>13. Binding(None, b.delimiter, gathered) = b
  BY <1>3 DEF Binding
<1>14. left' = left \ Used(b)
  BY <1>4, <1>10, <1>12 DEF Remaining
<1>15. After(gathered, b)
  BY <1>10, <1>12, <1>13
<1>16. bound' = Append(bound, b) /\ outcome' = outcome
  BY <1>15 DEF After
<1>. QED  BY <1>1, <1>14, <1>16, BindsBack DEF b

\* And one whose delimiter and contents are a child's.
LEMMA MigrateDelimitedChildBack ==
  ASSUME NEW t \in Trees, Grown(t), Progress(t), TypeOK, Placed, MigrateDelimitedChild
  PROVE  Grown(t)' /\ Progress(t)'
<1>. DEFINE b == reading[Upcoming]
            X == children \ t.children
            O == BehindField(reading, Upcoming)
            V == b.values
            S == b.separators
            gathered == [values |-> V, separators |-> S, fault |-> "ok"]
<1>1. /\ AtField /\ IsDelimited(Field) /\ UNCHANGED <<Tree, delimiter>>
      /\ ~ IsDelimitedNewtype(definition) /\ Field.named
  BY DEF MigrateDelimitedChild
<1>2. /\ Comments(X) /\ left = Used(b) \cup (O \cup X) /\ Used(b) \cap (O \cup X) = {}
      /\ FieldBuilt(definition, Field, b, O) /\ \A c \in Used(b) \cup O : c.at \in Nat
  BY <1>1, LeftIs
<1>. HIDE DEF b, X, O
<1>3. b = Binding(b.node, b.delimiter, b)
  BY <1>2 DEF FieldBuilt
<1>4. PICK n \in b.node :
        /\ b.node = {n} /\ Accepts(Field, n)
        /\ \A c \in O : Accepts(Field, c) => n.at < c.at
        /\ n.inner = b.delimiter \cup V \cup S
        /\ \A c \in n.inner : c.at \in Nat
        /\ Delimits(b.delimiter, V \cup S)
        /\ Fills(Contents(Field), V, S, None)
  BY <1>1, <1>2 DEF FieldBuilt
<1>5. Used(b) = {n} /\ n.at \in Nat
  BY <1>2, <1>4 DEF Used, None
<1>6. First({ c \in left : Accepts(Field, c) }) = {n}
  <2>1. n \in { c \in left : Accepts(Field, c) }
    BY <1>2, <1>4, <1>5
  <2>2. ASSUME NEW c \in { d \in left : Accepts(Field, d) }
        PROVE  c = n \/ (c.at \in Nat /\ n.at < c.at)
    <3>1. c = n \/ c \in O \/ c \in X
      BY <1>2, <1>5
    <3>2. c \notin X
      BY <1>2, <2>2 DEF Comments, Accepts
    <3>. QED  BY <1>2, <1>4, <2>2, <3>1, <3>2
  <2>. QED  BY <1>5, <2>1, <2>2, FirstIs
<1>7. UNION { c.inner : c \in {n} } = b.delimiter \cup (V \cup S \cup None)
  BY <1>4 DEF None
<1>8. Delimits(b.delimiter, V \cup S \cup None) /\ \A c \in b.delimiter \cup V \cup None : c.at \in Nat
  <2>1. V \cup S \cup None = V \cup S
    BY DEF None
  <2>2. \A c \in b.delimiter \cup V \cup None : c \in n.inner
    BY <1>4 DEF None
  <2>. QED  BY <1>4, <2>1, <2>2
<1>9. LET cs == UNION { c.inner : c \in {n} }
      IN  Delimiter(cs) = b.delimiter /\ Inside(cs) = gathered
  BY <1>4, <1>7, <1>8, InsideBack
<1>10. {n} # None
  BY DEF None
<1>11. left' = left \ {n} /\ After(gathered, Binding({n}, b.delimiter, gathered))
  BY <1>6, <1>9, <1>10 DEF MigrateDelimitedChild
<1>12. Binding({n}, b.delimiter, gathered) = b
  BY <1>3, <1>4 DEF Binding
<1>13. bound' = Append(bound, b) /\ outcome' = outcome
  BY <1>11, <1>12 DEF After
<1>. QED  BY <1>1, <1>5, <1>11, <1>13, BindsBack DEF b

\* The struct's own delimiter.
LEMMA TakeDelimiterBack ==
  ASSUME NEW t \in Trees, Grown(t), Progress(t), TypeOK, Placed, TakeDelimiter
  PROVE  Grown(t)' /\ Progress(t)'
<1>. DEFINE family == definition.family
            P == OwnPair(t)
            X == children \ t.children
            U == UsedByFields(reading)
<1>1. /\ outcome = "running" /\ family # 0 /\ delimiter = None /\ bound = <<>>
      /\ left = children \ (delimiter \cup UsedUpTo(reading, Len(bound)))
      /\ UNCHANGED <<Tree, bound>>
  BY DEF TakeDelimiter, Progress
<1>2. /\ t.definition = definition /\ t.reading = reading /\ t.children \subseteq children
      /\ Comments(X) /\ BuiltFromValue(t)
  BY DEF Grown
<1>3. /\ family \in 1 .. 4 /\ Encloses(family, P, U) /\ U \subseteq t.children
      /\ P = t.children \ U
  BY <1>1, <1>2, BuiltParts, FamiliesDiffer DEF OwnPair
<1>4. UsedUpTo(reading, Len(bound)) = {}
  BY <1>1 DEF UsedUpTo
<1>5. left = P \cup (U \cup X)
  BY <1>1, <1>2, <1>3, <1>4 DEF None
<1>6. \A c \in P : c.at \in Nat
  BY <1>2, <1>3 DEF Placed
<1>. HIDE DEF P, X, U, family
<1>7. Encloses(family, P, U \cup X)
  BY <1>2, <1>3, EnclosesAmongComments
<1>8. PICK a, b \in P : FoundAs(family, P, U \cup X, a, b)
  BY <1>3, <1>6, <1>7, EnclosingFound
<1>9. P = {a, b} /\ Openings(family, left) = {a} /\ Closings(family, left \ {a}) = {b}
  BY <1>5, <1>8 DEF FoundAs
<1>10. delimiter' = P /\ left' = left \ P /\ outcome' = outcome
  BY <1>9 DEF TakeDelimiter, None, family
<1>11. P # None
  BY <1>9 DEF None
<1>12. left' = children \ (delimiter' \cup UsedUpTo(reading, Len(bound)))
  BY <1>1, <1>4, <1>10 DEF None
<1>13. Grown(t)'
  BY <1>1 DEF Grown, Tree
<1>. QED  BY <1>1, <1>10, <1>11, <1>12, <1>13 DEF Progress, Tree, P

\* The node is one of its struct.
LEMMA MatchesBack ==
  ASSUME NEW t \in Trees, Grown(t), TypeOK
  PROVE  StructMatches(definition, identity, children)
<1>1. /\ t.definition = definition /\ t.reading = reading /\ t.identity = identity
      /\ t.children \subseteq children /\ BuiltFromValue(t)
  BY DEF Grown
<1>2. /\ identity = [kind |-> definition.kind, named |-> TRUE]
      /\ Len(reading) = Len(definition.fields)
      /\ UsedByFields(reading) \subseteq children
      /\ \A i \in 1 .. Len(reading) :
           FieldBuilt(definition, definition.fields[i], reading[i], BehindField(reading, i))
  BY <1>1, BuiltParts
<1>3. ASSUME NEW i \in DOMAIN definition.fields
      PROVE  RequiredMatch(definition.fields[i], children)
  <2>. DEFINE f == definition.fields[i]
              b == reading[i]
  <2>1. SUFFICES ASSUME f.shape = <<>>
                 PROVE  \E c \in children : /\ c.field = (IF f.named THEN f.name ELSE NoField)
                                            /\ Matches(f.element, c)
    BY DEF RequiredMatch
  <2>2. i \in 1 .. Len(reading)
    BY <1>2, FieldsAre
  <2>3. FieldBuilt(definition, f, b, BehindField(reading, i)) /\ Used(b) \subseteq children
    BY <1>2, <2>2 DEF UsedByFields
  <2>. HIDE DEF f, b
  <2>4. ~ IsDelimited(f) /\ Gathering(f.shape) = "required"
    BY <2>1 DEF IsDelimited, Gathering
  <2>5. b.node = None /\ Fills(f, b.values, b.separators, BehindField(reading, i))
    BY <2>3, <2>4 DEF FieldBuilt
  <2>6. PICK v \in b.values : b.values = {v} /\ Accepts(f, v) /\ Matches(f.element, v)
    <3>1. /\ \A v \in b.values : Accepts(f, v)
          /\ ElementsMigrate(f, b.values)
          /\ Gathering(f.shape) = "required" => \E v \in b.values : b.values = {v}
      BY <2>5 DEF Fills
    <3>. QED  BY <2>4, <3>1 DEF ElementsMigrate
  <2>7. v \in children
    BY <2>3, <2>5, <2>6 DEF Used, None
  <2>8. v.field = (IF f.named THEN f.name ELSE NoField)
    BY <2>6 DEF Accepts
  <2>. QED  BY <2>6, <2>7, <2>8
<1>. QED  BY <1>2, <1>3 DEF StructMatches

\* Each step of a migration keeps to the reading.
LEMMA MigrationReturns ==
  ASSUME NEW t \in Trees, Grown(t), Progress(t), IInv, Placed,
         Begin \/ WrongNode \/ TakeDelimiter \/ MigrateField \/ MigrateDelimitedHere
           \/ MigrateDelimitedChild \/ Finish \/ UNCHANGED vars
  PROVE  Grown(t)' /\ Progress(t)'
<1>1. CASE Begin
  <2>1. /\ bound = <<>> /\ delimiter = {} /\ left' = children /\ outcome' = "running"
        /\ UNCHANGED <<Tree, delimiter, bound>>
    BY <1>1 DEF IInv, Fresh, Begin
  <2>2. UsedUpTo(reading, Len(bound)) = {}
    BY <2>1 DEF UsedUpTo
  <2>3. Grown(t)'
    BY <2>1 DEF Grown, Tree
  <2>. QED  BY <2>1, <2>2, <2>3 DEF Progress, Tree, None
<1>2. CASE WrongNode
  BY <1>2, MatchesBack DEF WrongNode, IInv
<1>3. CASE TakeDelimiter
  BY <1>3, TakeDelimiterBack DEF IInv
<1>4. CASE MigrateField
  BY <1>4, MigrateFieldBack DEF IInv
<1>5. CASE MigrateDelimitedHere
  BY <1>5, MigrateDelimitedHereBack DEF IInv
<1>6. CASE MigrateDelimitedChild
  BY <1>6, MigrateDelimitedChildBack DEF IInv
<1>7. CASE Finish
  <2>1. UNCHANGED <<Tree, left, delimiter, bound>> /\ outcome = "running" /\ outcome' = "ok"
    BY <1>7 DEF Finish
  <2>2. Grown(t)'
    BY <2>1 DEF Grown, Tree
  <2>. QED  BY <2>1, <2>2 DEF Progress, Tree
<1>8. CASE UNCHANGED vars
  BY <1>8 DEF Grown, Progress, vars
<1>. QED  BY <1>1, <1>2, <1>3, <1>4, <1>5, <1>6, <1>7, <1>8

\* A comment the parser hangs among the children is one, and what it drops
\* or repeats ends the reading.
LEMMA ParserReturns ==
  ASSUME NEW t \in Trees, Grown(t), ParserAdds \/ ParserDrops, reading' # NoReading
  PROVE  Grown(t)' /\ Progress(t)'
<1>1. PICK c \in Children : children' = children \cup {c} /\ c.extra /\ reading' = reading
  BY DEF ParserAdds, ParserDrops
<1>2. UNCHANGED <<definition, identity>> /\ outcome' = "parsing"
  BY DEF ParserAdds, ParserDrops
<1>3. c.named
  BY <1>1, ExtrasAssumption
<1>4. Comments(children' \ t.children) /\ t.children \subseteq children'
  BY <1>1, <1>3 DEF Grown, Comments
<1>. QED  BY <1>1, <1>2, <1>4 DEF Grown, Progress

\* A reading that is still valid is kept to.
LEMMA ReturningStep ==
  ASSUME IInv, Placed, Returning, [Next]_vars
  PROVE  Returning'
<1>. SUFFICES ASSUME reading' # NoReading
              PROVE  \E t \in Trees : Grown(t)' /\ Progress(t)'
  BY DEF Returning
<1>1. reading # NoReading
  BY DEF Next, vars, Tree, ParserAdds, ParserDrops, Begin, WrongNode, TakeDelimiter, MigrateField,
         MigrateDelimitedHere, MigrateDelimitedChild, Finish, Returned
<1>2. PICK t \in Trees : Grown(t) /\ Progress(t)
  BY <1>1 DEF Returning
<1>3. CASE ParserAdds \/ ParserDrops
  BY <1>2, <1>3, ParserReturns
<1>4. CASE Begin \/ WrongNode \/ TakeDelimiter \/ MigrateField \/ MigrateDelimitedHere
             \/ MigrateDelimitedChild \/ Finish \/ UNCHANGED vars
  BY <1>2, <1>4, MigrationReturns
<1>. QED  BY <1>2, <1>3, <1>4 DEF Next, Returned

(***************************************************************************)
(* A node built from a value migrates to that value (syntax.rs:850),       *)
(* whatever comments hang among its children: for every schema in which no *)
(* field takes what a later one is made of, the generated migration        *)
(* returns without an error and binds what the value was built with.       *)
(***************************************************************************)
THEOREM MigratesBack == Spec => []RoundTrips
<1>. DEFINE Inv == IInv /\ Placed /\ Returning
<1>1. Init => Inv
  <2> SUFFICES ASSUME Init PROVE Inv
    OBVIOUS
  <2>1. PICK t \in Trees : /\ definition = t.definition /\ identity = t.identity
                           /\ children = t.children /\ reading = t.reading
    BY DEF Init
  <2>2. Placed
    BY <2>1, PlacesAssumption DEF Placed
  <2>3. outcome = "parsing"
    BY DEF Init
  <2>4. reading # NoReading => Grown(t) /\ Progress(t)
    BY <2>1, <2>3, BuiltAssumption DEF Grown, Progress, Comments
  <2>. QED  BY <2>2, <2>4, InvInit DEF Returning
<1>2. Inv /\ [Next]_vars => Inv'
  BY InvNext, PlacedStep, ReturningStep
<1>3. Inv => RoundTrips
  <2> SUFFICES ASSUME Inv, reading # NoReading
               PROVE  outcome \notin Failures /\ (outcome = "ok" => bound = reading)
    BY DEF RoundTrips
  <2>1. PICK t \in Trees : Grown(t) /\ Progress(t)
    BY DEF Returning
  <2>2. outcome \notin Failures
    BY <2>1 DEF Progress, Failures
  <2>3. ASSUME outcome = "ok"
        PROVE  bound = reading
    <3>1. \A i \in 1 .. Len(bound) : bound[i] = reading[i]
      BY <2>1, <2>3 DEF Progress
    <3>2. /\ Len(reading) = Len(definition.fields)
          /\ reading = [i \in 1 .. Len(reading) |-> reading[i]]
      BY <2>1, BuiltParts DEF Grown
    <3>3. Len(bound) = Len(reading) /\ bound = [i \in 1 .. Len(bound) |-> bound[i]]
      BY <2>3, <3>2, FieldsAre DEF IInv, TypeOK
    <3>. QED  BY <3>1, <3>2, <3>3
  <2>. QED  BY <2>2, <2>3
<1>. HIDE DEF Inv
<1>4. Spec => []Inv
  BY <1>1, <1>2, PTL DEF Spec
<1>. QED  BY <1>3, <1>4, PTL

============================================================================
