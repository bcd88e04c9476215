---------------------------- MODULE ChildCursor ----------------------------
(***************************************************************************)
(* Migration of one node of an external concrete tree into a generated     *)
(* product struct: ChildCursor (migration/cst.rs) as the code the syntax   *)
(* macro generates drives it (m2-syn-macros/src/syntax.rs).  The cursor    *)
(* holds the node's children; each field of the struct, in declaration     *)
(* order, takes the ones it is made of, and a child taken once is gone.    *)
(* Children no field takes are ignored.                                    *)
(*                                                                         *)
(* A child is a record with its place `at` among its siblings, its grammar *)
(* field, its identity (kind and named), whether it is extra (a comment),  *)
(* whether its own migration succeeds (whole) and its own children.        *)
(***************************************************************************)
EXTENDS Naturals, Sequences, FiniteSets

CONSTANTS Definitions,         \* the product structs of a schema
          Trees,               \* the nodes the parser builds from values
          Children,            \* the children a node can have
          Matches(_, _),       \* element, child: <T as Migrate>::matches
          NoField, NoReading,
          MaxStray             \* bounds what the parser adds or drops

VARIABLES definition,  \* the struct the node is migrated to
          identity,    \* the node's kind and namedness
          children,    \* the node's children
          reading,     \* the bindings the parser built the node from, if it did
          strays,      \* children added or dropped since
          left,        \* the children the cursor still holds
          delimiter,   \* the children that became the struct's delimiter
          bound,       \* the bindings of the fields migrated so far
          outcome

vars == <<definition, identity, children, reading, strays, left, delimiter, bound, outcome>>

Tree == <<definition, identity, children, reading, strays>>

Failures == {"wrong_node", "missing_field", "missing_child", "invalid_punctuated", "wrong_element"}

Outcomes == {"parsing", "running", "ok"} \cup Failures

None == {}

(***************************************************************************)
(* The shape of a field is the sequence of functors over its element.  The *)
(* generated code knows five ways to gather a field's children, besides    *)
(* Delimited, whose contents are gathered in one of the five.              *)
(***************************************************************************)
IsSequence(shape) ==
  \E i \in DOMAIN shape :
    /\ shape[i] \in {"repeated", "punctuated"}
    /\ \A j \in 1 .. i - 1 : shape[j] \in {"boxed", "optional"}

Gathering(shape) ==
  IF shape = <<>> \/ Head(shape) = "boxed" THEN "required"
  ELSE CASE Head(shape) = "optional" /\ ~ IsSequence(Tail(shape)) -> "optional"
         [] Head(shape) = "optional" /\ Head(Tail(shape)) = "punctuated" -> "optional_punctuated"
         [] Head(shape) = "punctuated" -> "punctuated"
         [] OTHER -> "repeated"

IsDelimited(field) == field.shape # <<>> /\ Head(field.shape) = "delimited"

\* A struct whose only field is delimited reads the delimiter from its own node.
IsDelimitedNewtype(d) == Len(d.fields) = 1 /\ IsDelimited(d.fields[1])

Spelled(spelling, c) == c.field = NoField /\ ~ c.named /\ c.kind = spelling

\* A child of the field, whatever node it is, or a positional child that matches.
Accepts(field, c) ==
  /\ ~ c.extra
  /\ IF field.named THEN c.field = field.name
                    ELSE c.field = NoField /\ Matches(field.element, c)

(***************************************************************************)
(* A kind that several structs claim does not tell which of them a node    *)
(* is: the children of the plain fields decide.                            *)
(***************************************************************************)
IsShared(kind) == \E d, e \in Definitions : d # e /\ d.kind = kind /\ e.kind = kind

RequiredMatch(field, cs) ==
  field.shape = <<>> =>
    \E c \in cs : /\ c.field = (IF field.named THEN field.name ELSE NoField)
                  /\ Matches(field.element, c)

StructMatches(d, id, cs) ==
  /\ id = [kind |-> d.kind, named |-> TRUE]
  /\ IsShared(d.kind) => \A i \in DOMAIN d.fields : RequiredMatch(d.fields[i], cs)

---------------------------------------------------------------------------
(***************************************************************************)
(* What the cursor hands out.  take_first takes the first child that fits, *)
(* take_all every one.                                                     *)
(***************************************************************************)
First(cs) == { c \in cs : \A d \in cs : c.at <= d.at }

\* Mutant of Values: a field that may repeat stops at its first child.
FirstOnlyMutant(gathering, cs) == First(cs)

\* Mutant of Values: a field for one child empties the cursor of all that fit.
AllMutant(gathering, cs) == cs

Values(gathering, cs) == IF gathering \in {"required", "optional"} THEN First(cs) ELSE cs

Separators(gathering, cs) ==
  IF gathering \in {"punctuated", "optional_punctuated"}
  THEN { c \in cs : Spelled(",", c) }
  ELSE None

Paired(values, separators) ==
  separators # None /\ Cardinality(separators) + 1 = Cardinality(values)

ElementsMigrate(field, values) == \A c \in values : Matches(field.element, c) /\ c.whole

(***************************************************************************)
(* Gathering `field` from the children `cs`: what is taken, and the error, *)
(* if any, of selecting it or of migrating one of its elements.            *)
(***************************************************************************)
Fault(field, gathering, values, separators) ==
  CASE gathering = "required" /\ values = None ->
         IF field.named THEN "missing_field" ELSE "missing_child"
    [] gathering = "punctuated" /\ ~ Paired(values, separators) -> "invalid_punctuated"
    [] gathering = "optional_punctuated" /\ ~ Paired(values, separators)
         /\ (values # None \/ separators # None) -> "invalid_punctuated"
    [] OTHER -> IF ElementsMigrate(field, values) THEN "ok" ELSE "wrong_element"

Gathered(field, gathering, cs) ==
  LET values == Values(gathering, { c \in cs : Accepts(field, c) })
      separators == Separators(gathering, cs \ values)
  IN  [values |-> values, separators |-> separators,
       fault |-> Fault(field, gathering, values, separators)]

(***************************************************************************)
(* required_delimiter: the first family, in this order, whose opening is   *)
(* there.                                                                  *)
(***************************************************************************)
Families == << <<"(", ")">>, <<"[", "]">>, <<"{", "}">>, <<"<|", "|>">> >>

Openings(family, cs) == First({ c \in cs : Spelled(Families[family][1], c) })

Closings(family, cs) == First({ c \in cs : Spelled(Families[family][2], c) })

Family(cs) ==
  { f \in DOMAIN Families :
      Openings(f, cs) # None /\ \A g \in 1 .. f - 1 : Openings(g, cs) = None }

Delimiter(cs) == UNION { Openings(f, cs) \cup Closings(f, cs \ Openings(f, cs)) : f \in Family(cs) }

DelimiterFound(cs) ==
  \E f \in Family(cs) : Closings(f, cs \ Openings(f, cs)) # None

---------------------------------------------------------------------------
Init ==
  /\ \E t \in Trees :
       /\ definition = t.definition
       /\ identity = t.identity
       /\ children = t.children
       /\ reading = t.reading
  /\ strays = 0
  /\ left = None
  /\ delimiter = None
  /\ bound = <<>>
  /\ outcome = "parsing"

(***************************************************************************)
(* External: before the node is migrated the parser may hang comments      *)
(* among its children, and, recovering from an error in the source, lose   *)
(* or repeat a child.                                                      *)
(***************************************************************************)
ParserAdds ==
  /\ outcome = "parsing" /\ strays < MaxStray
  /\ \E c \in Children :
       /\ \A d \in children : d.at # c.at
       /\ children' = children \cup {c}
       /\ reading' = IF c.extra THEN reading ELSE NoReading
  /\ strays' = strays + 1
  /\ UNCHANGED <<definition, identity, left, delimiter, bound, outcome>>

ParserDrops ==
  /\ outcome = "parsing" /\ strays < MaxStray
  /\ \E c \in children : children' = children \ {c}
  /\ reading' = NoReading
  /\ strays' = strays + 1
  /\ UNCHANGED <<definition, identity, left, delimiter, bound, outcome>>

Begin ==
  /\ outcome = "parsing"
  /\ StructMatches(definition, identity, children)
  /\ left' = children
  /\ outcome' = "running"
  /\ UNCHANGED <<Tree, delimiter, bound>>

WrongNode ==
  /\ outcome = "parsing"
  /\ ~ StructMatches(definition, identity, children)
  /\ outcome' = "wrong_node"
  /\ UNCHANGED <<Tree, left, delimiter, bound>>

\* The struct's own delimiter comes before its fields.
TakeDelimiter ==
  /\ outcome = "running"
  /\ definition.family # 0 /\ delimiter = None
  /\ LET opening == Openings(definition.family, left)
         closing == Closings(definition.family, left \ opening)
     IN  /\ delimiter' = opening \cup closing
         /\ left' = left \ (opening \cup closing)
         /\ outcome' = IF opening = None \/ closing = None THEN "missing_child" ELSE outcome
  /\ UNCHANGED <<Tree, bound>>

\* Mutant of Upcoming: the first field is passed over.
SkippingMutant == Len(bound) + 2

Upcoming == Len(bound) + 1

AtField ==
  /\ outcome = "running"
  /\ definition.family = 0 \/ delimiter # None
  /\ Upcoming \in DOMAIN definition.fields

Field == definition.fields[Upcoming]

Binding(node, pair, gathered) ==
  [node |-> node, delimiter |-> pair,
   values |-> gathered.values, separators |-> gathered.separators]

\* Mutant of Remaining: separators are looked at and not taken.
SeparatorsStayMutant(cs, gathered) == cs \ gathered.values

Remaining(cs, gathered) == cs \ (gathered.values \cup gathered.separators)

After(gathered, binding) ==
  IF gathered.fault = "ok"
  THEN bound' = Append(bound, binding) /\ outcome' = outcome
  ELSE bound' = bound /\ outcome' = gathered.fault

MigrateField ==
  /\ AtField /\ ~ IsDelimited(Field)
  /\ \E gathered \in {Gathered(Field, Gathering(Field.shape), left)} :
       /\ left' = Remaining(left, gathered)
       /\ After(gathered, Binding(None, None, gathered))
  /\ UNCHANGED <<Tree, delimiter>>

Contents(field) == [field EXCEPT !.named = FALSE, !.shape = Tail(@)]

(***************************************************************************)
(* A delimiter and its contents taken from the children `cs`.              *)
(***************************************************************************)
Inside(cs) ==
  LET field == Contents(Field)
      gathered == Gathered(field, Gathering(field.shape), cs \ Delimiter(cs))
  IN  IF DelimiterFound(cs)
      THEN gathered
      ELSE [values |-> None, separators |-> None, fault |-> "missing_child"]

\* A positional delimited field, and a newtype's, which starts a new cursor.
MigrateDelimitedHere ==
  /\ AtField /\ IsDelimited(Field)
  /\ IsDelimitedNewtype(definition) \/ ~ Field.named
  /\ \E cs \in {IF IsDelimitedNewtype(definition) THEN children ELSE left} :
       \E gathered \in {Inside(cs)} :
         /\ left' = Remaining(cs, gathered) \ Delimiter(cs)
         /\ After(gathered, Binding(None, Delimiter(cs), gathered))
  /\ UNCHANGED <<Tree, delimiter>>

\* A named delimited field is a child whose own children hold the delimiter.
MigrateDelimitedChild ==
  /\ AtField /\ IsDelimited(Field)
  /\ ~ IsDelimitedNewtype(definition) /\ Field.named
  /\ \E node \in {First({ c \in left : Accepts(Field, c) })} :
     \E cs \in {UNION { c.inner : c \in node }} :
     \E gathered \in {IF node = None
                      THEN [values |-> None, separators |-> None, fault |-> "missing_field"]
                      ELSE Inside(cs)} :
       /\ left' = left \ node
       /\ After(gathered, Binding(node, Delimiter(cs), gathered))
  /\ UNCHANGED <<Tree, delimiter>>

Finish ==
  /\ outcome = "running"
  /\ definition.family = 0 \/ delimiter # None
  /\ Upcoming \notin DOMAIN definition.fields
  /\ outcome' = "ok"
  /\ UNCHANGED <<Tree, left, delimiter, bound>>

\* The caller has the value or the error: nothing else may stop.
Returned == outcome \in {"ok"} \cup Failures /\ UNCHANGED vars

Next ==
  \/ ParserAdds \/ ParserDrops
  \/ Begin \/ WrongNode \/ TakeDelimiter
  \/ MigrateField \/ MigrateDelimitedHere \/ MigrateDelimitedChild
  \/ Finish \/ Returned

Spec == Init /\ [][Next]_vars

---------------------------------------------------------------------------
ASSUME SchemaAssumption ==
  /\ \A d \in Definitions :
       Len(d.fields) \in Nat /\ d.fields = [i \in 1 .. Len(d.fields) |-> d.fields[i]]
  /\ \A t \in Trees : t.definition \in Definitions
  /\ MaxStray \in Nat

\* The grammar would let a struct have both; nodes.rs declares none.
ASSUME DelimitedOnce ==
  \A d \in Definitions : IsDelimitedNewtype(d) => d.family = 0

\* Children have an order.
ASSUME PlacesAssumption ==
  /\ \A t \in Trees : \A c \in t.children : c.at \in Nat
  /\ \A c \in Children : c.at \in Nat

\* The children of one node that binding b stands for.
Used(b) == IF b.node # None THEN b.node ELSE b.delimiter \cup b.values \cup b.separators

\* The children of the node, and theirs.
AllChildren == children \cup UNION { c.inner : c \in children }

TypeOK ==
  /\ definition \in Definitions
  /\ left \subseteq children
  /\ delimiter \subseteq children
  /\ bound \in Seq([node : SUBSET children, delimiter : SUBSET AllChildren,
                    values : SUBSET AllChildren, separators : SUBSET AllChildren])
  /\ Len(bound) <= Len(definition.fields)
  /\ outcome = "ok" => Len(bound) = Len(definition.fields)
  /\ outcome \in Outcomes
  /\ strays \in 0 .. MaxStray

(***************************************************************************)
(* A child becomes part of one field only, or of the delimiter, and the    *)
(* cursor no longer holds it (cst.rs: "single-pass field selection").      *)
(***************************************************************************)
ChildrenUsedOnce ==
  /\ left \cap delimiter = None
  /\ \A i \in DOMAIN bound :
       /\ Used(bound[i]) \cap left = None
       /\ Used(bound[i]) \cap delimiter = None
       /\ \A j \in DOMAIN bound : i # j => Used(bound[i]) \cap Used(bound[j]) = None

(***************************************************************************)
(* Comments among the children change nothing, and a node the parser built *)
(* from a value migrates to that value (syntax.rs:850).                    *)
(***************************************************************************)
RoundTrips ==
  reading # NoReading =>
    /\ outcome \notin Failures
    /\ outcome = "ok" => bound = reading

(***************************************************************************)
(* A migration that succeeds has gathered all a repeatable field is made   *)
(* of: what is left over belongs to no field that could have taken it, and *)
(* a single field got its first child.                                     *)
(***************************************************************************)
NoneLeftBehind ==
  outcome = "ok" =>
    \A i \in DOMAIN definition.fields : ~ IsDelimited(definition.fields[i]) =>
      \A c \in left : Accepts(definition.fields[i], c) =>
        /\ Gathering(definition.fields[i].shape) \in {"required", "optional"}
        /\ \E d \in bound[i].values : d.at < c.at

=============================================================================
