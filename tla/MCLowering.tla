----------------------------- MODULE MCLowering -----------------------------
(***************************************************************************)
(* Trees for TriviaTransfer.  The grammar is external: the kinds, fields   *)
(* and tokens are those that Lowerer looks for.                            *)
(***************************************************************************)
EXTENDS TriviaTransfer, TLC
LOCAL INSTANCE SequencesExt

Node0(kind, named, width, nodes) ==
  [kind |-> kind, named |-> named, extra |-> FALSE, field |-> "", from |-> 0,
   width |-> width, children |-> nodes]

T(spelling) == Node0(spelling, FALSE, 1, <<>>)

Leaf(kind) == Node0(kind, TRUE, 1, <<>>)

Nothing(kind) == Node0(kind, TRUE, 0, <<>>)

Comment == [Leaf("comment") EXCEPT !.extra = TRUE]

Tree(kind, nodes) ==
  LET begins[i \in 1 .. Len(nodes) + 1] ==
        IF i = 1 THEN 0 ELSE begins[i - 1] + nodes[i - 1].width
  IN  Node0(kind, TRUE, begins[Len(nodes) + 1],
            [i \in DOMAIN nodes |-> [nodes[i] EXCEPT !.from = begins[i]]] @@ <<>>)

In(field, n) == [n EXCEPT !.field = field]

Op(spelling) == In("operator", T(spelling))

X == Leaf("symbol")

Paren(a) == Tree("parenthesized_expression", <<T("("), a, T(")")>>)

Pair(kind, a, b) == Tree(kind, <<T(Opening[kind]), a, T(","), b, T(ClosingOf[kind])>>)

Muted(a) == Tree("muted", <<a, T(";")>>)

Str == Tree("string_literal", <<T("\""), Leaf("string_content"), Leaf("escape_sequence"), T("\"")>>)

Binary(left, a, op, b) == Tree("binary_expression",
                               <<In(left, a), In("operator", op), In("right", b)>>)

Assign(kind, left, a, op, b) == Tree(kind, <<In(left, a), Op(op), In("right", b)>>)

Lambda(parameters, b) ==
  Tree("lambda_expression", <<In("parameters", parameters), Op("->"), In("body", b)>>)

Then(a) == Tree("then_clause", <<T("then"), a>>)

Else(a) == Tree("else_clause", <<T("else"), a>>)

Body(steps) == Tree("loop_body", steps)

Do(a) == <<T("do"), In("ignored_value", a)>>

Listed(a) == <<T("list"), In("listed_value", a)>>

For(domain, when, body) ==
  Tree("for_loop", <<T("for"), In("variable", X)>> \o domain \o when \o <<body>>)

New(rest) == Tree("new_statement", <<T("new")>> \o rest)

Collections(a, b) ==
  { Paren(a), Pair("sequence", a, b), Pair("array", a, b), Pair("list", a, b),
   Pair("angle_bar_list", a, b),
    Tree("array", <<T("["), a, T("]")>>), Tree("list", <<T("{"), a, T("}")>>),
    Tree("sequence", <<T("("), T(")")>>), Tree("list", <<T("{"), T("}")>>),
    Tree("parenthesized_expression", <<T("("), Muted(a), T(")")>>),
    Tree("parenthesized_expression", <<T("("), Muted(a), b, T(")")>>),
    Tree("list", <<T("{"), Muted(a), Muted(X), b, T(","), X, T("}")>>),
    Tree("sequence", <<T("("), Tree("muted", <<X, T(","), a, T(";")>>), T(")")>>),
    Tree("sequence", <<T("("), a, T(","), Nothing("empty_component"), T(","), b, T(")")>>),
    Pair("list", Nothing("empty_component"), a), Pair("sequence", a, Nothing("empty_component")) }

Operators(a, b) ==
  { Binary("left_operand", a, T("+"), b), Binary("left", a, Nothing("SPACE"), b),
    Binary("left", a, T("."), b), Binary("left", a, T(".?"), b), Binary("left", a, T("#"), b),
    Binary("left", a, T("+="), b),
    Tree("prefix_expression", <<Op("-"), In("operand", a)>>),
    Tree("postfix_expression", <<In("operand", a), Op("!")>>),
    Assign("option", "left", a, "=>", b), Assign("evaluated_assignment", "left", a, "<-", b),
    Assign("assignment", "left", X, "=", b), Assign("local_assignment", "left", X, ":=", b),
    Assign("binary_assignment", "left", Binary("left", a, T("+"), X), "=", b),
    Assign("prefix_assignment", "left", Tree("prefix_expression", <<Op("-"), In("operand", a)>>),
           "=", b),
    Assign("binary_installation", "left", Binary("left", a, Nothing("SPACE"), X), ":=", b),
    Assign("binary_installation", "left", Binary("left", a, T("+"), X), ":=", b),
    Assign("postfix_installation", "left", Tree("postfix_expression",
                                                <<In("operand", a), Op("!")>>), ":=",
           Assign("option", "left", X, "=>", b)),
    Assign("binary_installation", "left", Binary("left", X, Nothing("SPACE"), X), ":=",
           Assign("option", "left", a, "=>", b)),
    Assign("structured_binding", "binding_pack", Pair("sequence", X, Nothing("empty_component")),
           "=", b),
    Assign("local_structured_binding", "binding_pack",
           Pair("sequence", Binary("left", a, T("#"), X), Pair("list", X, X)), ":=", b),
    Assign("structured_binding", "binding_pack",
           Pair("sequence", Assign("evaluated_assignment", "left", X, "<-", a), X), "=", b),
    Assign("structured_binding", "binding_pack", Paren(X), "=", b),
    Lambda(X, a), Lambda(Paren(X), a), Lambda(Pair("sequence", X, X), a),
    Lambda(Tree("sequence", <<T("("), T(")")>>), a) }

Ranging(bounds) == <<Tree("iteration_range", bounds)>>

Clausal(a, b) ==
  { Tree("if_statement", <<T("if"), In("condition", a), Then(b)>>),
    Tree("if_statement", <<T("if"), In("condition", X), Then(a), Else(b)>>),
    Tree("while_loop", <<T("while"), In("condition", a), Body(Do(b))>>),
    Tree("while_loop", <<T("while"), In("condition", X), Body(Listed(a) \o Do(b))>>),
    For(<<>>, <<>>, Body(Listed(a))),
    For(Ranging(<<T("in"), In("iterated_collection", a)>>), <<T("when"), In("filter", b)>>,
        Body(Do(X))),
    For(Ranging(<<T("from"), In("range_start", a), T("to"), In("range_end", b)>>), <<>>,
        Body(Do(X))),
    For(Ranging(<<T("to"), In("range_end", a)>>), <<T("when"), In("filter", X)>>, Body(Listed(b))),
    Tree("try_statement", <<T("try"), a>>),
    Tree("try_statement", <<T("try"), a, Then(b), In("fallback", Else(X))>>),
    Tree("try_statement", <<T("try"), X, In("fallback",
           Tree("except_clause", <<T("except"), In("exception", X), T("do"), a>>))>>) }

\* An assignment is the last operand of new: its value reaches as far as it can.
Words(a, b) ==
  { New(<<In("class", a)>>), New(<<In("class", X), T("of"), In("parent", a)>>),
    New(<<In("class", X), T("of"), In("parent", X), T("from"), In("instance", a)>>),
    New(<<In("class", X), T("from"), In("instance",
                                        Assign("local_assignment", "left", X, ":=", a))>>),
    Tree("break_statement", <<T("break"), a>>), Tree("continue_statement", <<T("continue")>>),
    Tree("return_statement", <<T("return"), a>>), Tree("throw_statement", <<T("throw"), a>>),
    Tree("catch_statement", <<T("catch"), a>>), Tree("trap_statement", <<T("trap"), a>>),
    Tree("quote_expression", <<T("symbol"), In("token", T("+"))>>),
    Tree("quote_expression", <<T("symbol"), In("token", T("symbol"))>>),
    Tree("quote_expression", <<T("local"), In("token", X)>>),
    Tree("debug_clause", <<In("keyword", T("time")), a>>),
    Tree("debug_clause", <<In("keyword", T("TEST"))>>),
    Tree("debug_clause", <<In("keyword", T("shield")), a>>),
    Str, Tree("raw_string_literal", <<T("///"), Leaf("raw_string_content"), T("///")>>),
    Leaf("integer_literal"), Leaf("float_literal") }

Expressions(a, b) == Collections(a, b) \cup Operators(a, b) \cup Clausal(a, b) \cup Words(a, b)

\* Trees the rules refuse.
Refused ==
  { Leaf("unknown"), Tree("list", <<T("{"), X, X, T("}")>>),
   Tree("sequence", <<T("("), X, X, T(","), X, T(")")>>),
    Tree("array", <<T("["), X>>), Lambda(Str, X), Lambda(Pair("sequence", X, Str), X),
    Lambda(Pair("sequence", X, Nothing("empty_component")), X),
    Lambda(Tree("parenthesized_expression", <<T("("), Muted(X), X, T(")")>>), X),
    Assign("structured_binding", "binding_pack", Paren(Str), "=", X),
    Assign("binary_assignment", "left", X, "=", X), Assign("binary_installation", "left", X, ":=",
                                                           X),
    Assign("assignment", "left", Str, "=", X), Assign("assignment", "left", X, ":=", X),
    Binary("right", X, T("+"), X), Binary("left", X, T("~"), X),
    New(<<In("class", Assign("assignment", "left", X, "=", X))>>),
    Tree("try_statement", <<T("try"), X, In("fallback", Then(X))>>),
    Tree("quote_expression", <<In("token", X)>>), Tree("debug_clause",
                                                       <<In("keyword", T("time"))>>),
    Tree("debug_clause", <<In("keyword", T("bare")), X>>), Tree("throw_statement", <<T("throw")>>),
    Tree("raw_string_literal", <<T("///"), Leaf("string_content"), T("///")>>) }

Nested ==
  { Paren(X), Pair("list", X, X), Pair("sequence", X, Nothing("empty_component")), Str,
    Tree("list", <<T("{"), T("}")>>),
    Tree("parenthesized_expression", <<T("("), Muted(X), X, T(")")>>),
    Binary("left", X, Nothing("SPACE"), X), Assign("option", "left", X, "=>", X),
    Assign("local_assignment", "left", X, ":=", X), Lambda(X, X),
    Tree("quote_expression", <<T("symbol"), In("token", X)>>) }

Cell(e) == Tree("cell", <<e>>)

File(cells) == Tree("source_file", cells)

Flat == Expressions(X, X)

Deep == UNION { Expressions(n, X) \cup Expressions(X, n) : n \in Nested }

---------------------------------------------------------------------------
Whole == {"string_literal", "raw_string_literal"}

RECURSIVE Atoms(_), Commented(_)

\* The lexer's atoms: the leaves, and literals as wholes.
Atoms(n) ==
  IF n.children = <<>> \/ n.kind \in Whole
  THEN IF n.width = 0 THEN <<>>
       ELSE <<[kind |-> n.kind, from |-> n.from, width |-> n.width, comment |-> n.extra]>>
  ELSE FlattenSeq([i \in DOMAIN n.children |->
         LET inner == Atoms(n.children[i])
         IN  [k \in DOMAIN inner |-> [inner[k] EXCEPT !.from = @ + n.from]]])

Insert(nodes, i) == SubSeq(nodes, 1, i) \o <<Comment>> \o SubSeq(nodes, i + 1, Len(nodes))

\* The tree with a comment between two children of any node.
Commented(n) ==
  IF n.children = <<>> \/ n.kind \in Whole THEN {}
  ELSE { In(n.field, Tree(n.kind, Insert(n.children, i))) : i \in 1 .. Len(n.children) - 1 }
       \cup UNION { { In(n.field, Tree(n.kind, [n.children EXCEPT ![i] = inner])) :
                        inner \in Commented(n.children[i]) } : i \in DOMAIN n.children }

AtEnds(root) == { File(<<Comment>> \o root.children), File(Append(root.children, Comment)) }

\* How many closers at the end of the view may be missing in the source, the
\* closer of a literal before those of the groups it is in.
Missing(list) ==
  LET last == CHOOSE k \in 0 .. Len(list) :
                /\ \A i \in k + 1 .. Len(list) : list[i].kind \in Closings
                /\ k = 0 \/ list[k].kind \notin Closings
      literal == last # 0 /\ list[last].kind = "string_literal"
  IN  0 .. Len(list) - last + (IF literal THEN 1 ELSE 0)

Within(list, length) ==
  LET kept == SelectSeq(list, LAMBDA atom : atom.from < length)
  IN  [i \in DOMAIN kept |-> [kept[i] EXCEPT !.width = Cut(kept[i].from + @,
                                                           length) - kept[i].from]] @@ <<>>

ParsesOf(root, program, own_line) ==
  LET list == Atoms(root)
      length == root.width
  IN  { [tree |-> root, length |-> length - k, program |-> program, own_line |-> own_line,
         atoms |-> Within(list, length - k)] : k \in Missing(list) }

Roots ==
  { File(<<Cell(e)>>) : e \in Flat \cup Deep }
    \cup { File(<<Muted(e), Cell(X)>>) : e \in Flat }
    \cup { File(<<Cell(Tree("naked_sequence", <<X, T(","), e>>)), Muted(X)>>) : e \in Flat }
    \cup { File(<<>>) }

Small ==
  { File(<<Cell(e), Muted(X)>>) : e \in Flat }
    \cup UNION { { File(<<Cell(e)>>) : e \in Collections(n, X) } : n \in Nested }

MCParses ==
  UNION { ParsesOf(root, TRUE, FALSE) : root \in Roots }
    \cup UNION { ParsesOf(root, TRUE, own_line) :
                   root \in UNION { Commented(small) \cup AtEnds(small) : small \in Small }, own_line \in BOOLEAN }
    \cup UNION { ParsesOf(File(<<Cell(e)>>), FALSE, FALSE) : e \in Refused }
    \cup ParsesOf(File(<<X>>), FALSE, FALSE) \cup ParsesOf(File(<<Tree("cell", <<X, X>>)>>), FALSE,
                                                           FALSE)

MCSpellings ==
  [BinaryOperator |-> {"+", "#"}, PrefixOperator |-> {"-"}, PostfixOperator |-> {"!"},
   AugmentedOperator |-> {"+="}]

=============================================================================
