------------------------------ MODULE Lowering ------------------------------
(***************************************************************************)
(* Lowerer (migration/treesitter.rs): the typed graph that is built from a *)
(* Tree-sitter tree, as the terminals it prints, in order.                 *)
(*                                                                         *)
(* A handler looks up children of its node and hands each to the handler   *)
(* of the field it fills; the declaration of the product (schema/nodes.rs) *)
(* says in which order its fields are printed.  Fields that still have to  *)
(* be lowered wait on a stack, in that order.  The code looks fields up in *)
(* an order of its own, which only decides which of several errors is      *)
(* reported: one error of any handler is the error of the whole.           *)
(*                                                                         *)
(* A node of the tree: its kind, whether it is named and whether it is an  *)
(* extra, the field of its parent it is in, its children, and the atoms it *)
(* covers: it begins `from` atoms into its parent.  Layout is left out.    *)
(***************************************************************************)
EXTENDS Integers, Sequences
LOCAL INSTANCE SequencesExt
LOCAL INSTANCE TLC

CONSTANTS
  Parses,        \* trees, and for each the atoms of its text and how many are in the source
  Spellings      \* for each operator role, the operators in it

VARIABLES
  parse,         \* the parse that is lowered
  work,          \* the fields that still have to be lowered
  lowered,       \* the terminals so far
  outcome

---------------------------------------------------------------------------
(***************************************************************************)
(* What the handlers look up.                                              *)
(***************************************************************************)
children(n) == [i \in DOMAIN n.children |-> [n.children[i] EXCEPT !.from = @ + n.from]]

semantic_children(n) == SelectSeq(children(n), LAMBDA c : c.named /\ ~ c.extra)

FirstOf(nodes) == IF nodes = <<>> THEN <<>> ELSE <<Head(nodes)>>

optional_kind(n, kind) ==
  FirstOf(SelectSeq(children(n), LAMBDA c : ~ c.extra /\ c.kind = kind))

child_by_field(n, field) == FirstOf(SelectSeq(children(n), LAMBDA c : c.field = field))

Clauses == {"then_clause", "else_clause", "except_clause", "iteration_range", "loop_body"}

first_expression_child(n) ==
  FirstOf(SelectSeq(semantic_children(n), LAMBDA c : c.kind \notin Clauses))

---------------------------------------------------------------------------
(***************************************************************************)
(* Fields: what a field is lowered as, and from which node.                *)
(***************************************************************************)
Fields(as, nodes) == [i \in DOMAIN nodes |-> [as |-> as, node |-> nodes[i], pair |-> nodes[i].from]]

Marker(as, at) ==
  <<[as |-> as, node |-> [kind |-> as, named |-> TRUE, from |-> at, width |-> 0], pair |-> at]>>

\* An error, met when the field is lowered.
Unsupported == Marker("unsupported", 0)

Required(fields) == IF fields = <<>> THEN Unsupported ELSE fields

Field(as, n, name) == Required(Fields(as, child_by_field(n, name)))

Token(n, spelling) == Required(Fields(spelling, optional_kind(n, spelling)))

Value(n) == Required(Fields("Expr", first_expression_child(n)))

\* A product whose token is optional: nothing without the token.
Where(n, token, product) == IF optional_kind(n, token) = <<>> THEN <<>> ELSE Fields(product, <<n>>)

---------------------------------------------------------------------------
(***************************************************************************)
(* The products of schema/nodes.rs, with their fields as they are printed. *)
(***************************************************************************)
Cells ==
  [SourceFile |-> <<"bof", "cells", "eof">>,
   Cell       |-> <<"content", "semicolon", "eoc">>,
   Statement  |-> <<"content", "semicolon">>,
   Collection |-> <<"statements", "elements">>,
   Holder     |-> <<"muted", "value">>]

ClauseProducts ==
  [TypeAnnotation |-> <<"typical_value", "operator">>,
   ThenClause     |-> <<"then_token", "expr">>,
   ElseClause     |-> <<"else_token", "expr">>,
   RangeBoundFrom |-> <<"from_token", "value">>,
   RangeBoundTo   |-> <<"to_token", "value">>,
   WhenCondition  |-> <<"when_token", "condition">>,
   ListStep       |-> <<"list_token", "expr">>,
   DoStep         |-> <<"do_token", "statement">>,
   LoopBody       |-> <<"list_step", "do_step">>,
   OfClass        |-> <<"of_token", "parent">>,
   FromInstance   |-> <<"from_token", "instance">>,
   Except         |-> <<"except_token", "exception", "do_token", "value">>]

OperatorProducts ==
  [Adj        |-> <<"left_operand", "operator", "right_operand">>,
   Regular    |-> <<"left_operand", "operator", "right_operand">>,
   Member     |-> <<"receiver", "operator", "member">>,
   Index      |-> <<"receiver", "operator", "index">>,
   Prefix     |-> <<"operator", "operand">>,
   Postfix    |-> <<"operand", "operator">>,
   Simple     |-> <<"variable", "operator", "value">>,
   Parallel   |-> <<"argument_list", "operator", "value">>,
   Evaluated  |-> <<"evaluated_domain", "operator", "value">>,
   Augmented  |-> <<"target", "operator", "value">>,
   Method     |-> <<"method", "operator", "signature", "assign_op", "typical_value", "function">>,
   InstallOp  |-> <<"domain_expr", "assign_op", "typical_value", "function">>,
   InstallNew |-> <<"new_statement", "operator", "function">>,
   AssignOp   |-> <<"argument_expr", "operator", "value_expr">>,
   Option     |-> <<"key", "operator", "value">>]

StatementProducts ==
  [Variadic |-> <<"argument", "operator", "body">>,
   Lambda   |-> <<"arguments", "operator", "body">>,
   If       |-> <<"if_token", "condition", "then_clause", "else_clause">>,
   Bare     |-> <<"for_token", "variable", "condition", "body">>,
   Range    |-> <<"for_token", "variable", "lower_bound", "upper_bound", "condition", "body">>,
   In       |-> <<"for_token", "variable", "in_token", "collection", "condition", "body">>,
   While    |-> <<"while_token", "condition", "body">>,
   Try      |-> <<"try_token", "value", "on_success", "fallback">>,
   Quote    |-> <<"specifier", "symbol">>,
   New      |-> <<"new_token", "class", "parent_class", "instance">>,
   Keyword  |-> <<"keyword", "value">>]

\* The fields that a product is printed as.
Built(product, field) == FlattenSeq([i \in DOMAIN product |-> field[product[i]]])

---------------------------------------------------------------------------
(***************************************************************************)
(* Sequences and collections.                                              *)
(***************************************************************************)
Component(c) ==
  IF c.kind = "empty_component" THEN Fields("Empty", <<c>>)
  ELSE IF c.named /\ c.kind # "muted" THEN Fields("Expr", <<c>>) ELSE <<>>

\* Mutant of expr_pack: components that are empty are left out.
NoEmptyMutant(n) ==
  LET present == SelectSeq(children(n), LAMBDA c : ~ c.extra)
      values == SelectSeq(FlattenSeq([i \in DOMAIN present |-> Component(present[i])]),
                          LAMBDA value : value.as = "Expr")
      commas == Fields(",", SelectSeq(present, LAMBDA c : c.kind = ","))
  IN  IF values = <<>> \/ Len(values) > Len(commas) + 1 THEN Unsupported
      ELSE <<Head(values)>>
           \o FlattenSeq([i \in 1 .. Len(values) - 1 |-> <<commas[i], values[i + 1]>>])

\* Values and commas are collected apart, and have to alternate.
expr_pack(n) ==
  LET present == SelectSeq(children(n), LAMBDA c : ~ c.extra)
      values == FlattenSeq([i \in DOMAIN present |-> Component(present[i])])
      commas == Fields(",", SelectSeq(present, LAMBDA c : c.kind = ","))
  IN  IF commas = <<>> \/ Len(values) # Len(commas) + 1 THEN Unsupported
      ELSE <<Head(values)>>
           \o FlattenSeq([i \in DOMAIN commas |-> <<commas[i], values[i + 1]>>])

packed_content(n) ==
  LET expressions == SelectSeq(semantic_children(n), LAMBDA c : c.kind # "muted")
  IN  IF \E i \in DOMAIN n.children : n.children[i].kind = "," THEN expr_pack(n)
      ELSE IF Len(expressions) = 1 THEN Fields("Expr", expressions) ELSE Unsupported

Opening == [parenthesized_expression |-> "(", sequence |-> "(", array |-> "[",
            list |-> "{", angle_bar_list |-> "<|"]

ClosingOf == [parenthesized_expression |-> ")", sequence |-> ")", array |-> "]",
              list |-> "}", angle_bar_list |-> "|>"]

Statements(n) == SelectSeq(semantic_children(n), LAMBDA c : c.kind = "muted")

\* Mutant of HasElements: muted statements count as elements.
MutedMutant(n) ==
  \E i \in DOMAIN n.children :
    LET c == n.children[i]
    IN  ~ c.extra /\ (c.kind = "," \/ c.named)

HasElements(n) ==
  \E i \in DOMAIN n.children :
    LET c == n.children[i]
    IN  ~ c.extra /\ (c.kind \in {",", "empty_component"} \/ (c.named /\ c.kind # "muted"))

Elements(n) ==
  IF n.kind = "parenthesized_expression"
  THEN Fields("Expr", FirstOf(SelectSeq(semantic_children(n), LAMBDA c : c.kind # "muted")))
  ELSE IF HasElements(n) THEN packed_content(n) ELSE <<>>

\* delimiter_spans: a closer beyond the source was appended, and is missing.
delimited(n, contents) ==
  LET opening == optional_kind(n, Opening[n.kind])
      closing == optional_kind(n, ClosingOf[n.kind])
  IN  IF opening = <<>> \/ closing = <<>> THEN Unsupported
      ELSE Fields("Opening", opening) \o contents
           \o IF Head(closing).from >= parse.length THEN <<>>
              ELSE <<[as |-> "Closing", node |-> Head(closing), pair |-> Head(opening).from]>>

collection(n) ==
  LET statements == Fields("Statement", Statements(n))
  IN  delimited(n, IF n.kind = "parenthesized_expression"
                   THEN Built(Cells.Holder, [muted |-> statements, value |-> Elements(n)])
                   ELSE Built(Cells.Collection, [statements |-> statements,
                                                 elements |-> Elements(n)]))

statement(n) ==
  Built(Cells.Statement, [content |-> packed_content(n), semicolon |-> Token(n, ";")])

raw_string_literal(n) ==
  IF \A i \in DOMAIN n.children :
       \/ n.children[i].extra
       \/ n.children[i].kind \in {"///", "escape_sequence", "raw_string_content"}
  THEN Fields("RawStringLiteral", <<n>>) ELSE Unsupported

---------------------------------------------------------------------------
(***************************************************************************)
(* Collections that are read again, as targets or as parameters            *)
(* (parser/native.rs): without muted statements, and component by          *)
(* component.                                                              *)
(***************************************************************************)
IsSymbol(field) == field.as = "Expr" /\ field.node.kind = "symbol"

\* expr_pack_symbols: symbols only.
symbol_argument(field) ==
  IF field.as = "," THEN <<field>>
  ELSE IF IsSymbol(field) THEN Fields("Symbol", <<field.node>>) ELSE Unsupported

OperatorText(n) ==
  LET operator == child_by_field(n, "operator")
  IN  IF operator = <<>> THEN "" ELSE Head(operator).kind

\* Whether an expression lowers to Expr::Op.
IsOp(n) ==
  \/ n.kind \in {"prefix_expression", "postfix_expression"}
  \/ n.kind = "binary_expression" /\ OperatorText(n) \notin Spellings.AugmentedOperator

assignment_argument(field) ==
  IF field.as \in {",", "Empty"} THEN <<field>>
  ELSE IF IsSymbol(field) THEN Fields("Symbol", <<field.node>>)
  ELSE IF IsOp(field.node) \/ field.node.kind = "evaluated_assignment" THEN <<field>>
  ELSE Fields("AssignmentList", <<field.node>>)

Argument(as, field) ==
  IF as = "LambdaArguments" THEN symbol_argument(field) ELSE assignment_argument(field)

collection_contents(as, n) ==
  IF n.kind \notin DOMAIN Opening \/ Statements(n) # <<>> THEN Unsupported
  ELSE LET elements == Elements(n)
       IN  delimited(n, FlattenSeq([i \in DOMAIN elements |-> Argument(as, elements[i])]))

lambda_arguments(n) ==
  IF n.kind = "symbol" THEN Fields("Symbol", <<n>>) ELSE collection_contents("LambdaArguments", n)

---------------------------------------------------------------------------
(***************************************************************************)
(* Operators, assignments and functions.                                   *)
(***************************************************************************)
LeftOperand(n) ==
  Required(Fields("Expr", FirstOf(child_by_field(n, "left_operand") \o child_by_field(n, "left"))))

binary_expr(n) ==
  LET left == LeftOperand(n)
      right == Field("Expr", n, "right")
      spelled(role) == Field(role, n, "operator")
      text == OperatorText(n)
  IN  CASE text = "SPACE" ->
             Built(OperatorProducts.Adj,
                   [left_operand |-> left, operator |-> spelled("Adj"), right_operand |-> right])
        [] text \in Spellings.AugmentedOperator ->
             Built(OperatorProducts.Augmented,
                   [target |-> left, operator |-> spelled("AugmentedOperator"), value |-> right])
        [] text \in {".", ".?"} ->
             Built(OperatorProducts.Member,
                   [receiver |-> left, operator |-> spelled(text), member |-> right])
        [] text = "#" ->
             Built(OperatorProducts.Index,
                   [receiver |-> left, operator |-> spelled(text), index |-> right])
        [] OTHER ->
             Built(OperatorProducts.Regular,
                   [left_operand |-> left, operator |-> spelled("BinaryOperator"),
                    right_operand |-> right])

prefix_expr(n) ==
  Built(OperatorProducts.Prefix, [operator |-> Field("PrefixOperator", n, "operator"),
                                  operand |-> Field("Expr", n, "operand")])

postfix_expr(n) ==
  Built(OperatorProducts.Postfix, [operand |-> Field("Expr", n, "operand"),
                                   operator |-> Field("PostfixOperator", n, "operator")])

lambda_expression(n) ==
  Built(StatementProducts.Lambda,
        [arguments |-> Field("LambdaArguments", n, "parameters"),
         operator |-> Field("->", n, "operator"),
         body |-> Field("Expr", n, "body")])

\* An expression that has to lower to Expr::Op.
Target(n) ==
  LET left == child_by_field(n, "left")
  IN  IF left # <<>> /\ IsOp(Head(left)) THEN Fields("Expr", left) ELSE Unsupported

\* installation_value: an option is a type annotation and the function.
installation_value(n) ==
  LET right == child_by_field(n, "right")
  IN  IF right = <<>> THEN [typical_value |-> <<>>, function |-> Unsupported]
      ELSE IF Head(right).kind # "option" THEN [typical_value |-> <<>>,
                                                function |-> Fields("Expr", right)]
      ELSE [typical_value |-> Built(ClauseProducts.TypeAnnotation,
                                    [typical_value |-> Field("Expr", Head(right), "left"),
                                     operator |-> Field("=>", Head(right), "operator")]),
            function |-> Field("Expr", Head(right), "right")]

\* The operands of an application that is the target of an installation.
installation(n) ==
  LET left == child_by_field(n, "left")
      value == installation_value(n)
  IN  IF left # <<>> /\ IsOp(Head(left)) /\ OperatorText(Head(left)) = "SPACE"
      THEN Built(OperatorProducts.Method,
                 [method |-> LeftOperand(Head(left)),
                  operator |-> Field("Adj", Head(left), "operator"),
                  signature |-> Field("Expr", Head(left), "right"), assign_op |-> Field(":=", n,
                                                                                        "operator"),
                  typical_value |-> value.typical_value, function |-> value.function])
      ELSE Built(OperatorProducts.InstallOp,
                 [domain_expr |-> Target(n), assign_op |-> Field(":=", n, "operator"),
                  typical_value |-> value.typical_value, function |-> value.function])

AssignmentKinds ==
  {"assignment", "local_assignment", "binary_assignment", "prefix_assignment", "postfix_assignment",
   "binary_installation", "prefix_installation", "postfix_installation",
   "structured_binding", "local_structured_binding"}

assignment(n) ==
  LET value == Field("Expr", n, "right")
      spelled == Field(IF n.kind \in {"local_assignment",
                                      "local_structured_binding"} THEN ":=" ELSE "=",
                       n, "operator")
  IN  CASE n.kind \in {"assignment", "local_assignment"} ->
             Built(OperatorProducts.Simple, [variable |-> Field("Symbol", n, "left"),
                                             operator |-> spelled, value |-> value])
        [] n.kind \in {"binary_assignment", "prefix_assignment", "postfix_assignment"} ->
             Built(OperatorProducts.AssignOp, [argument_expr |-> Target(n), operator |-> spelled,
                                               value_expr |-> value])
        [] n.kind \in {"binary_installation", "prefix_installation", "postfix_installation"} ->
             installation(n)
        [] OTHER ->
             Built(OperatorProducts.Parallel,
                   [argument_list |-> Field("AssignmentList", n, "binding_pack"),
                    operator |-> spelled, value |-> value])

evaluated_assignment(n) ==
  Built(OperatorProducts.Evaluated,
        [evaluated_domain |-> Field("Expr", n, "left"), operator |-> Field("<-", n, "operator"),
         value |-> Field("Expr", n, "right")])

option(n) ==
  Built(OperatorProducts.Option,
        [key |-> Field("Expr", n, "left"), operator |-> Field("=>", n, "operator"),
         value |-> Field("Expr", n, "right")])

---------------------------------------------------------------------------
(***************************************************************************)
(* Clauses and statements.                                                 *)
(***************************************************************************)
then_clause(n) == Built(ClauseProducts.ThenClause, [then_token |-> Token(n, "then"),
                                                    expr |-> Value(n)])

else_clause(n) == Built(ClauseProducts.ElseClause, [else_token |-> Token(n, "else"),
                                                    expr |-> Value(n)])

if_statement(n) ==
  Built(StatementProducts.If,
        [if_token |-> Token(n, "if"), condition |-> Field("Expr", n, "condition"),
         then_clause |-> Required(Fields("ThenClause", optional_kind(n, "then_clause"))),
         else_clause |-> Fields("ElseClause", optional_kind(n, "else_clause"))])

list_step(n) ==
  Built(ClauseProducts.ListStep, [list_token |-> Token(n, "list"),
                                  expr |-> Field("Expr", n, "listed_value")])

do_step(n) ==
  Built(ClauseProducts.DoStep, [do_token |-> Token(n, "do"),
                                statement |-> Field("Expr", n, "ignored_value")])

loop_body(n) ==
  Built(ClauseProducts.LoopBody, [list_step |-> Where(n, "list", "ListStep"),
                                  do_step |-> Where(n, "do", "DoStep")])

when_condition(n) ==
  Built(ClauseProducts.WhenCondition, [when_token |-> Token(n, "when"),
                                       condition |-> Field("Expr", n, "filter")])

lower_bound(n) ==
  Built(ClauseProducts.RangeBoundFrom, [from_token |-> Token(n, "from"),
                                        value |-> Field("Expr", n, "range_start")])

upper_bound(n) ==
  Built(ClauseProducts.RangeBoundTo, [to_token |-> Token(n, "to"),
                                      value |-> Field("Expr", n, "range_end")])

\* iteration_domain: the product of the loop, and the fields of its domain.
IterationDomain(n) ==
  LET domain == optional_kind(n, "iteration_range")
  IN  IF domain = <<>> THEN [product |-> "Bare", fields |-> [none |-> <<>>]]
      ELSE IF optional_kind(Head(domain), "in") # <<>>
      THEN [product |-> "In",
            fields |-> [in_token |-> Token(Head(domain), "in"),
                        collection |-> Field("Expr", Head(domain), "iterated_collection")]]
      ELSE [product |-> "Range",
            fields |-> [lower_bound |-> Where(Head(domain), "from", "RangeBoundFrom"),
                        upper_bound |-> Where(Head(domain), "to", "RangeBoundTo")]]

for_loop(n) ==
  LET domain == IterationDomain(n)
  IN  Built(StatementProducts[domain.product],
            [for_token |-> Token(n, "for"), variable |-> Field("Symbol", n, "variable"),
             condition |-> Where(n, "when", "WhenCondition"),
             body |-> Required(Fields("LoopBody", optional_kind(n, "loop_body")))] @@ domain.fields)

while_loop(n) ==
  Built(StatementProducts.While,
        [while_token |-> Token(n, "while"), condition |-> Field("Expr", n, "condition"),
         body |-> Required(Fields("LoopBody", optional_kind(n, "loop_body")))])

\* The children that may hold the assignment of `new ... := ...`.
NewElements(n) ==
  child_by_field(n, "class")
  \o (IF optional_kind(n, "of") = <<>> THEN <<>> ELSE child_by_field(n, "parent"))
  \o (IF optional_kind(n, "from") = <<>> THEN <<>> ELSE child_by_field(n, "instance"))

\* new_statement_element: the left side of an assignment by `:=`.
new_statement_element(n, name) ==
  LET element == child_by_field(n, name)
  IN  IF element = <<>> \/ Head(element).kind = "assignment" THEN Unsupported
      ELSE IF Head(element).kind = "local_assignment" THEN Field("Expr", Head(element), "left")
      ELSE Fields("Expr", element)

of_class(n) ==
  Built(ClauseProducts.OfClass, [of_token |-> Token(n, "of"),
                                 parent |-> new_statement_element(n, "parent")])

from_instance(n) ==
  Built(ClauseProducts.FromInstance, [from_token |-> Token(n, "from"),
                                      instance |-> new_statement_element(n, "instance")])

\* The last assignment found decides what is installed.
new_statement(n) ==
  LET constructed ==
        Built(StatementProducts.New,
              [new_token |-> Token(n, "new"), class |-> new_statement_element(n, "class"),
               parent_class |-> Where(n, "of", "OfClass"), instance |-> Where(n, "from",
                                                                              "FromInstance")])
      assignments == SelectSeq(NewElements(n), LAMBDA element : element.kind = "local_assignment")
  IN  IF assignments = <<>> THEN constructed
      ELSE Built(OperatorProducts.InstallNew,
                 [new_statement |-> constructed,
                  operator |-> Field(":=", Last(assignments), "operator"),
                  function |-> Field("Expr", Last(assignments), "right")])

TryFallback ==
  [else_clause |-> "ElseClause", except_clause |-> "Except"]

try_statement(n) ==
  LET fallback == child_by_field(n, "fallback")
  IN  Built(StatementProducts.Try,
            [try_token |-> Token(n, "try"),
             value |-> Required(Fields("Expr", FirstOf(SelectSeq(semantic_children(n),
                         LAMBDA c : c.kind \notin {"then_clause", "else_clause",
                                                   "except_clause"})))),
             on_success |-> Fields("ThenClause", optional_kind(n, "then_clause")),
             fallback |-> IF fallback = <<>> THEN <<>>
                          ELSE IF Head(fallback).kind \notin DOMAIN TryFallback THEN Unsupported
                          ELSE Fields(TryFallback[Head(fallback).kind], fallback)])

except_do(n) ==
  Built(ClauseProducts.Except,
        [except_token |-> Token(n, "except"), exception |-> Field("Symbol", n, "exception"),
         do_token |-> Token(n, "do"), value |-> Value(n)])

quote_expression(n) ==
  LET quoted == child_by_field(n, "token")
      words == SelectSeq(children(n), LAMBDA c :
                 c.kind \in {"symbol", "local", "global", "threadVariable",
                             "threadLocal"} /\ <<c>> # quoted)
  IN  IF words = <<>> THEN Unsupported
      ELSE Built(StatementProducts.Quote,
                 [specifier |-> Fields(Head(words).kind, <<Head(words)>>),
                  symbol |-> Field("Quoted", n, "token")])

Profiling == {"elapsedTime", "elapsedTiming", "profile", "time", "timing"}

Debugging == {"TEST", "step", "finish", "shield", "breakpoint"}

debug_clause(n) ==
  LET keyword == child_by_field(n, "keyword")
  IN  IF keyword = <<>> \/ Head(keyword).kind \notin Profiling \cup Debugging THEN Unsupported
      ELSE Built(StatementProducts.Keyword,
                 [keyword |-> Fields(Head(keyword).kind, keyword),
                  value |-> IF Head(keyword).kind \in Profiling THEN Value(n)
                            ELSE Fields("Expr", first_expression_child(n))])

\* break, continue and return; catch, throw and trap need their value.
Controls ==
  [break_statement |-> "break", continue_statement |-> "continue", return_statement |-> "return"]

Handlers == [catch_statement |-> "catch", throw_statement |-> "throw", trap_statement |-> "trap"]

control(n) ==
  Built(StatementProducts.Keyword,
        [keyword |-> Token(n, Controls[n.kind]), value |-> Fields("Expr",
                                                                  first_expression_child(n))])

handler(n) ==
  Built(StatementProducts.Keyword, [keyword |-> Token(n, Handlers[n.kind]), value |-> Value(n)])

---------------------------------------------------------------------------
(***************************************************************************)
(* Expressions, cells and the file.                                        *)
(***************************************************************************)
\* An integer with a precision is made a FloatLiteral: the same terminal here.
Literals == [integer_literal |-> "IntegerLiteral", float_literal |-> "FloatLiteral"]

expr(n) ==
  CASE n.kind = "symbol"                                -> Fields("Symbol", <<n>>)
    [] n.kind \in DOMAIN Literals                       -> Fields(Literals[n.kind], <<n>>)
    [] n.kind = "string_literal"                        -> Fields("StringLiteral", <<n>>)
    [] n.kind = "raw_string_literal"                    -> raw_string_literal(n)
    [] n.kind \in DOMAIN Opening                        -> collection(n)
    [] n.kind = "binary_expression"                     -> binary_expr(n)
    [] n.kind = "prefix_expression"                     -> prefix_expr(n)
    [] n.kind = "postfix_expression"                    -> postfix_expr(n)
    [] n.kind = "lambda_expression"                     -> lambda_expression(n)
    [] n.kind \in AssignmentKinds                       -> assignment(n)
    [] n.kind = "evaluated_assignment"                  -> evaluated_assignment(n)
    [] n.kind = "option"                                -> option(n)
    [] n.kind = "if_statement"                          -> if_statement(n)
    [] n.kind = "for_loop"                              -> for_loop(n)
    [] n.kind = "while_loop"                            -> while_loop(n)
    [] n.kind = "try_statement"                         -> try_statement(n)
    [] n.kind = "quote_expression"                      -> quote_expression(n)
    [] n.kind = "new_statement"                         -> new_statement(n)
    [] n.kind \in DOMAIN Controls                       -> control(n)
    [] n.kind \in DOMAIN Handlers                       -> handler(n)
    [] n.kind = "debug_clause"                          -> debug_clause(n)
    [] OTHER                                            -> Unsupported

cell(n, eoc) ==
  LET child == semantic_children(n)
  IN  Built(Cells.Cell,
            IF n.kind = "muted"
            THEN [content |-> packed_content(n), semicolon |-> Token(n, ";"), eoc |-> eoc]
            ELSE [content |-> IF Len(child) # 1 THEN Unsupported
                              ELSE IF Head(child).kind = "naked_sequence"
                              THEN expr_pack(Head(child))
                              ELSE Fields("Expr", child),
                  semicolon |-> <<>>, eoc |-> eoc])

Cut(at, length) == IF at < length THEN at ELSE length

\* Mutant of eoc_offset: a cell ends where its node does.
NodeEndMutant(raw_cells, index) ==
  Cut(raw_cells[index].from + raw_cells[index].width - 1, parse.length)

\* A cell reaches to the next one.
eoc_offset(raw_cells, index) ==
  IF index < Len(raw_cells) THEN Cut(raw_cells[index + 1].from, parse.length) ELSE parse.length

source_file(root) ==
  LET raw_cells == semantic_children(root)
  IN  Built(Cells.SourceFile,
            [bof |-> Marker("BOF", 0),
             cells |-> FlattenSeq([index \in DOMAIN raw_cells |->
                         IF raw_cells[index].kind \in {"cell", "muted"}
                         THEN cell(raw_cells[index], Marker("EOC", eoc_offset(raw_cells, index)))
                         ELSE Unsupported]),
             eof |-> Marker("EOF", parse.length)])

---------------------------------------------------------------------------
(***************************************************************************)
(* Lowering: the handler of the first field runs, or its terminal is made. *)
(***************************************************************************)
Init ==
  /\ parse \in Parses
  /\ work = source_file(parse.tree)
  /\ lowered = <<>>
  /\ outcome = "lowering"

Lower(as, fields) ==
  /\ outcome = "lowering"
  /\ work # <<>> /\ Head(work).as = as
  /\ work' = fields \o Tail(work)
  /\ UNCHANGED <<parse, lowered, outcome>>

Node == Head(work).node

LowerExpr == Lower("Expr", expr(Node))

LowerStatement == Lower("Statement", statement(Node))

LowerArguments ==
  \/ Lower("LambdaArguments", lambda_arguments(Node))
  \/ Lower("AssignmentList", collection_contents("AssignmentList", Node))

LowerBranch ==
  \/ Lower("ThenClause", then_clause(Node))
  \/ Lower("ElseClause", else_clause(Node))
  \/ Lower("Except", except_do(Node))

LowerLoop ==
  \/ Lower("LoopBody", loop_body(Node))
  \/ Lower("ListStep", list_step(Node))
  \/ Lower("DoStep", do_step(Node))
  \/ Lower("WhenCondition", when_condition(Node))
  \/ Lower("RangeBoundFrom", lower_bound(Node))
  \/ Lower("RangeBoundTo", upper_bound(Node))

LowerNew ==
  \/ Lower("OfClass", of_class(Node))
  \/ Lower("FromInstance", from_instance(Node))

Products ==
  {"Expr", "Statement", "LambdaArguments", "AssignmentList", "ThenClause", "ElseClause", "Except",
   "LoopBody", "ListStep", "DoStep", "WhenCondition", "RangeBoundFrom", "RangeBoundTo",
   "OfClass", "FromInstance"}

\* Terminals that are made from a range, whatever node it is of.
Ranged == {"BOF", "EOC", "EOF", "Adj", "Empty", "Quoted", "Opening", "Closing",
           "StringLiteral", "RawStringLiteral"}

Leaves == [Symbol |-> "symbol", IntegerLiteral |-> "integer_literal",
           FloatLiteral |-> "float_literal"]

\* migrate: the terminal checks that the node is one of its own.
Migrates(as, n) ==
  CASE as \in Ranged              -> TRUE
    [] as \in DOMAIN Leaves       -> n.named /\ n.kind = Leaves[as]
    [] as \in DOMAIN Spellings    -> ~ n.named /\ n.kind \in Spellings[as]
    [] OTHER                      -> ~ n.named /\ n.kind = as

\* Mutant of Terminal: a literal reaches into the closer that was appended.
UnclippedMutant(field) ==
  [as |-> field.as, from |-> Cut(field.node.from, parse.length),
   to |-> field.node.from + field.node.width, pair |-> field.pair]

\* The range of the node, as far as it is in the source.
Terminal(field) ==
  [as |-> field.as, from |-> Cut(field.node.from, parse.length),
   to |-> Cut(field.node.from + field.node.width, parse.length), pair |-> field.pair]

Migrate ==
  /\ outcome = "lowering" /\ work # <<>>
  /\ Head(work).as \notin Products /\ Migrates(Head(work).as, Node)
  /\ lowered' = Append(lowered, Terminal(Head(work)))
  /\ work' = Tail(work)
  /\ UNCHANGED <<parse, outcome>>

\* A node that no rule is for, or that is not the terminal the field wants.
Reject ==
  /\ outcome = "lowering" /\ work # <<>>
  /\ Head(work).as \notin Products /\ ~ Migrates(Head(work).as, Node)
  /\ outcome' = "unsupported"
  /\ UNCHANGED <<parse, work, lowered>>

=============================================================================
