--------------------------- MODULE MCChildCursor ---------------------------
(***************************************************************************)
(* Model checking of ChildCursor on structs of schema/nodes.rs, and on two *)
(* of the macro's own tests for what that schema does not use: positional  *)
(* fields, and a kind that two structs share.                              *)
(***************************************************************************)
EXTENDS ChildTrees

Plain(name, shape, element) == [named |-> TRUE, name |-> name, shape |-> shape, element |-> element]

Positional(shape, element) == [named |-> FALSE, name |-> NoField, shape |-> shape, element |-> element]

Struct(kind, family, fields) == [kind |-> kind, family |-> family, fields |-> fields]

If == Struct("expr_if", 0,
  << Plain("if_token", <<>>, "if"), Plain("condition", <<"boxed">>, "Expr"),
     Plain("else_clause", <<"optional">>, "ElseClause") >>)

ExprPack == Struct("expr_pack", 0, << Plain("pack", <<"punctuated">>, "Component") >>)

Array == Struct("array", 2,
  << Plain("statements", <<"repeated">>, "Statement"),
     Plain("elements", <<"optional">>, "Expr") >>)

AssignmentList == Struct("assignment_list", 0,
  << Plain("contents", <<"delimited", "optional">>, "Expr") >>)

LambdaList == Struct("expr_lambda_list", 0,
  << Plain("arguments", <<"delimited", "optional", "punctuated">>, "Symbol"),
     Plain("operator", <<>>, "->") >>)

\* struct SameKind { left: (_) Expr, right: (_) Expr, rest: (_) Vec<Symbol> }
Pair == Struct("pair", 0,
  << Positional(<<>>, "Expr"), Positional(<<>>, "Expr"), Positional(<<"repeated">>, "Symbol") >>)

Quoted == Struct("pair", 0, << Positional(<<"optional">>, "Symbol"), Plain("value", <<>>, "Statement") >>)

Grouped == Struct("grouped", 0,
  << Positional(<<"delimited", "punctuated">>, "Symbol"), Positional(<<"optional">>, "Statement") >>)

Structs == {If, ExprPack, Array, AssignmentList, LambdaList, Pair, Quoted, Grouped}

\* The identities an element matches; the first two are samples of it.
Kinds ==
  [Expr |-> <<"symbol", "integer">>, Component |-> <<"symbol", "empty">>, Symbol |-> <<"symbol">>,
   Statement |-> <<"statement">>, ElseClause |-> <<"else_clause">>]

Tokens == {"if", "->"}

NodesOf(element) ==
  IF element \in Tokens
  THEN {[kind |-> element, named |-> FALSE]}
  ELSE {[kind |-> Kinds[element][i], named |-> TRUE] : i \in DOMAIN Kinds[element]}

MCMatches(element, c) == [kind |-> c.kind, named |-> c.named] \in NodesOf(element)

---------------------------------------------------------------------------
(***************************************************************************)
(* The tree a parser builds from a value: the fields in order, a comma     *)
(* between the elements of a punctuated field, delimiters around theirs.   *)
(***************************************************************************)
Counts(gathering) ==
  CASE gathering = "required" -> {1}
    [] gathering = "optional" -> {0, 1}
    [] gathering = "repeated" -> {0, 2}
    [] gathering = "punctuated" -> {2, 3}
    [] gathering = "optional_punctuated" -> {0, 2}

Inner(shape) == IF shape # <<>> /\ Head(shape) = "delimited" THEN Tail(shape) ELSE shape

Fillings(field) ==
  UNION { [1 .. n -> NodesOf(field.element)] : n \in Counts(Gathering(Inner(field.shape))) }

Stub(field, node, inner, role) ==
  [field |-> field, kind |-> node.kind, named |-> node.named, inner |-> inner, role |-> role]

Token(spelling, role) == Stub(NoField, [kind |-> spelling, named |-> FALSE], <<>>, role)

Elements(name, shape, nodes) ==
  IF Gathering(shape) \in {"punctuated", "optional_punctuated"} /\ nodes # <<>>
  THEN [i \in 1 .. 2 * Len(nodes) - 1 |->
          IF i % 2 = 1 THEN Stub(name, nodes[(i + 1) \div 2], <<>>, "value")
                       ELSE Token(",", "separator")]
  ELSE [i \in 1 .. Len(nodes) |-> Stub(name, nodes[i], <<>>, "value")]

Enclosed(stubs) == <<Token("(", "delimiter")>> \o stubs \o <<Token(")", "delimiter")>>

FieldStubs(d, i, nodes) ==
  LET f == d.fields[i]
      contents == Enclosed(Elements(NoField, Inner(f.shape), nodes))
  IN  IF ~ IsDelimited(f) THEN Elements(f.name, f.shape, nodes)
      ELSE IF IsDelimitedNewtype(d) \/ ~ f.named THEN contents
      ELSE <<Stub(f.name, [kind |-> "list", named |-> TRUE], contents, "node")>>

Child(at, stub, inner) ==
  [at |-> at, field |-> stub.field, kind |-> stub.kind, named |-> stub.named,
   extra |-> stub.kind = "comment", whole |-> TRUE, inner |-> inner]

InnerChildren(stub) == { Child(2 * j, stub.inner[j], {}) : j \in DOMAIN stub.inner }

Placed(from, stubs) ==
  [j \in DOMAIN stubs |-> Child(2 * (from + j), stubs[j], InnerChildren(stubs[j]))]

\* The places of the first k fields, after the struct's opening delimiter.
RECURSIVE Before(_, _, _)
Before(d, filling, k) ==
  IF k = 0 THEN (IF d.family = 0 THEN 0 ELSE 1)
  ELSE Before(d, filling, k - 1) + Len(FieldStubs(d, k, filling[k]))

InRole(stubs, placed, role) == { placed[j] : j \in { k \in DOMAIN stubs : stubs[k].role = role } }

InRoleInside(stubs, role) ==
  UNION { { Child(2 * j, s.inner[j], {}) : j \in { k \in DOMAIN s.inner : s.inner[k].role = role } } :
            s \in { stubs[k] : k \in DOMAIN stubs } }

FieldBinding(stubs, placed) ==
  [node |-> InRole(stubs, placed, "node"),
   delimiter |-> InRole(stubs, placed, "delimiter") \cup InRoleInside(stubs, "delimiter"),
   values |-> InRole(stubs, placed, "value") \cup InRoleInside(stubs, "value"),
   separators |-> InRole(stubs, placed, "separator") \cup InRoleInside(stubs, "separator")]

FieldAt(d, filling, i) ==
  Placed(Before(d, filling, i - 1), FieldStubs(d, i, filling[i]))

Boundary(d, filling) ==
  IF d.family = 0 THEN {}
  ELSE { Child(2, Token(Families[d.family][1], "delimiter"), {}),
         Child(2 * (Before(d, filling, Len(d.fields)) + 1), Token(Families[d.family][2], "delimiter"), {}) }

TreeOf(d, filling) ==
  [definition |-> d,
   identity |-> [kind |-> d.kind, named |-> TRUE],
   children |-> Boundary(d, filling) \cup
                UNION { { FieldAt(d, filling, i)[j] : j \in DOMAIN FieldAt(d, filling, i) } :
                          i \in DOMAIN d.fields },
   reading |-> [i \in DOMAIN d.fields |->
                  FieldBinding(FieldStubs(d, i, filling[i]), FieldAt(d, filling, i))]]

FillingsOf(d) ==
  { f \in [DOMAIN d.fields -> UNION { Fillings(d.fields[i]) : i \in DOMAIN d.fields }] :
      \A i \in DOMAIN d.fields : f[i] \in Fillings(d.fields[i]) }

Built == UNION { { TreeOf(d, f) : f \in FillingsOf(d) } : d \in Structs }

\* The same nodes given to a struct of another kind.
MCTrees == Built \cup { [t EXCEPT !.definition = Array, !.reading = NoReading] : t \in { u \in Built : u.definition = If } }

MCChildren ==
  { [at |-> a, field |-> n.field, kind |-> n.kind, named |-> n.named, extra |-> n.kind = "comment",
     whole |-> n.whole, inner |-> {}] :
      a \in {1, 5, 9},
      n \in { [field |-> NoField, kind |-> "comment", named |-> TRUE, whole |-> TRUE],
              [field |-> NoField, kind |-> ",", named |-> FALSE, whole |-> TRUE],
              [field |-> NoField, kind |-> "(", named |-> FALSE, whole |-> TRUE],
              [field |-> NoField, kind |-> "symbol", named |-> TRUE, whole |-> TRUE],
              [field |-> "elements", kind |-> "symbol", named |-> TRUE, whole |-> FALSE] } }

=============================================================================
