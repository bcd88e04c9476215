--------------------------- MODULE MCSyntaxSchema ---------------------------
(***************************************************************************)
(* Small schemas for SyntaxSchema: one field over every stack of at most   *)
(* two functors; every graph of three categories over one leaf; token rows *)
(* in several orders; nested declarations and the cases the macro refuses. *)
(***************************************************************************)
EXTENDS SyntaxSchema
LOCAL INSTANCE SequencesExt

MCTokenName(spelling) ==
  CASE spelling \in {"+", "add"} -> "_Add"
    [] spelling \in {"+=", "add="} -> "_AddEql"
    [] OTHER -> "_" \o spelling

MCWords == {"add", "if"}
MCGrouped == {"", "(*)"}
MCSnakeCase(name) == name

---------------------------------------------------------------------------
\* Rows.
Row(spelling, roles, aug, precedence, binary, unary) ==
  [spelling |-> spelling, roles |-> roles, aug |-> aug, trivia |-> FALSE,
   slots |-> TRUE, precedence |-> precedence, binary |-> binary, strength |-> 12, unary |-> unary]

Bare(spelling) == [Row(spelling, {}, FALSE, 0, "_", None) EXCEPT !.slots = FALSE]

Assign == Row("=", {"infix"}, FALSE, 14, "R", None)
AssignLeft == Row("=", {"bin"}, FALSE, 14, "L", None)
Comma == Bare(",")
Plus == Row("+", {"bin", "pref"}, TRUE, 50, "L", None)
PlusBinary == Row("+", {"bin"}, FALSE, 50, "L", None)
PlusEquals == Row("+=", {"bin"}, FALSE, 14, "R", None)
Spaced == [Row(" ", {"bin"}, FALSE, 62, "R", None) EXCEPT !.trivia = TRUE]
Hash == Row("#", {"bin", "pref"}, FALSE, 70, "L", {61})
If == Row("if", {}, FALSE, 62, "own", None)
Bang == Row("!", {"post"}, FALSE, 72, "_", None)
Refused == { Row("!", {"post", "pref"}, FALSE, 72, "_", None), Row("!", {"post"}, FALSE, 72, "L", None),
             Row("-", {"bin"}, FALSE, 50, "_", None), Row("add", {"pref"}, FALSE, 50, "_", None),
             Row("(*)", {"bin"}, TRUE, 64, "L", None),
             [Row("-", {"bin"}, FALSE, 50, "L", None) EXCEPT !.slots = FALSE],
             Row("!", {"pref"}, FALSE, 72, "L", None), Row("if", {}, FALSE, 62, "_", {3}) }

\* Types.
Name(name) == [is |-> "name", name |-> name]
Tok(spelling) == [is |-> "token", spelling |-> spelling]
Of(wrapper, type) == [is |-> wrapper, of |-> type]
Inline(name, body) == [is |-> "inline", name |-> name, marked |-> FALSE, attrs |-> <<>>, body |-> body]
Braces(body) == [is |-> "braces", body |-> body]

\* Bodies and items.
Empty == [is |-> "empty"]
Field(name, type) == [name |-> name, positional |-> FALSE, type |-> type]
Positional(name, type) == [Field(name, type) EXCEPT !.positional = TRUE]
FieldList(list) == [is |-> "fields", list |-> list]
Tuple(types) == [is |-> "tuple", list |-> [i \in DOMAIN types |-> [type |-> types[i]]]]
Alt(name, type) == [name |-> name, type |-> type]
Alts(list) == [is |-> "variants", list |-> list]
Attr(of, arg) == [of |-> of, arg |-> arg]
Item(form, name, body) ==
  [form |-> form, name |-> name, marked |-> FALSE, attrs |-> <<>>, body |-> body, nested |-> FALSE]
Marked(item) == [item EXCEPT !.marked = TRUE]
With(item, attrs) == [item EXCEPT !.attrs = attrs]

Leaves == <<Item("strutuct", "Symbol", Empty)>>
Schema(tokens, list) == [rows |-> tokens, items |-> list]

---------------------------------------------------------------------------
\* One field of a recursive category, over every stack of wrappers.
Stacks(wrappers, type) ==
  LET once == { Of(w, type) : w \in wrappers }
  IN  {type} \cup once \cup { Of(w, t) : w \in wrappers, t \in once }

FieldSchema(form, mark, type) ==
  LET category == Item(IF form = "struct" THEN "enum" ELSE form, "Expr",
                       Alts(<<Alt(IF form = "struct" THEN "" ELSE "Symbol", Name("Symbol")),
                              Alt(IF form = "struct" THEN "" ELSE "Of", Name("Holder"))>>))
  IN  Schema(<<Comma>>, Leaves \o <<
        [category EXCEPT !.marked = mark],
        Item(form, "Holder", FieldList(<<Field("value", type), Field("comma", Of("question", Tok(",")))>>))>>)

FieldSchemas ==
  { FieldSchema("strutuct", mark, type) :
      mark \in BOOLEAN,
      type \in Stacks({"Vec", "Punctuated", "Delimited", "question", "star"}, Name("Expr")) }
  \cup { FieldSchema("struct", mark, type) :
      mark \in BOOLEAN,
      type \in Stacks({"Lines", "Punctuated", "Delimited", "question", "Box", "Option"}, Name("Expr")) }

\* Every containment between three categories and a leaf.
CategoryNames == <<"A", "B", "C">>

CategorySchema(contains, mark) ==
  Schema(<<>>, Leaves \o [i \in 1 .. 3 |->
    LET inside == SelectSeq(<<"Symbol", "A", "B", "C">>, LAMBDA n : n \in contains[i])
    IN  [Item("enum", CategoryNames[i], Alts([j \in DOMAIN inside |-> Alt("", Name(inside[j]))]))
           EXCEPT !.marked = mark]])

CategorySchemas ==
  { CategorySchema(<<a, b, c>>, TRUE) :
      a \in SUBSET {"Symbol", "B", "C"}, b \in SUBSET {"Symbol", "A", "C"},
      c \in SUBSET {"Symbol", "A", "B"} }

\* A type that two variants of one category wrap, and a chain of four.
TwoWays ==
  Schema(<<>>, Leaves \o <<
    Item("strutuct", "A", Alts(<<Alt("First", Name("Symbol")), Alt("Second", Of("star", Name("Symbol")))>>)),
    Item("enum", "B", Alts(<<Alt("", Name("A"))>>)),
    Item("enum", "C", Alts(<<Alt("", Name("B"))>>)),
    Item("enum", "D", Alts(<<Alt("", Name("C"))>>))>>)

---------------------------------------------------------------------------
\* Token rows, under schemas that refer to operator categories or do not.
TokenRows ==
  { <<Assign, Plus>>, <<Plus, Assign>>, <<Plus>>, <<AssignLeft, Plus, Hash>>,
    <<Assign, PlusEquals, Plus>>, <<Assign, Plus, PlusEquals>>, <<PlusEquals, AssignLeft, Plus>>,
    <<Assign, Bare("+="), Plus>>, <<Assign, Plus, Bare("+=")>>, <<Assign, Bare("+"), Plus, Bang, If>>,
    <<Bang, Assign, Plus, Spaced>>, <<If, Plus, Assign, Assign>> }
  \cup { <<Assign, PlusBinary, row>> : row \in Refused }

Uses(category) ==
  { <<Item("struct", "Use", FieldList(<<Field("operator", Name(category))>>))>>,
    <<Item("enum", "Use", Alts(<<Alt("", Name(category)), Alt("", Tok("+"))>>))>>,
    <<Item("enum", category, Alts(<<>>)), Item("struct", "Use", Tuple(<<Name(category)>>))>>,
    <<With(Item("strutuct", category, Empty), <<Attr("operator", category)>>)>> }

TokenSchemas ==
  { Schema(tokens, Leaves \o list) : tokens \in TokenRows,
    list \in UNION { Uses(c) : c \in ToSet(Categories) } }

---------------------------------------------------------------------------
\* Nested declarations, as in schema/nodes.rs, and what the macro refuses.
Expr ==
  Marked(Item("strutuct", "Expr", Alts(<<
    Alt("Op", Braces(Alts(<<
      Alt("Bin", Braces(FieldList(<<Field("left", Of("star", Name("Expr"))), Field("operator", Name("BinaryOperator")),
                                    Field("right", Of("star", Name("Expr")))>>))),
      Alt("Prefix", Braces(FieldList(<<Field("operator", Name("PrefixOperator")),
                                       Field("operand", Of("star", Name("Expr")))>>)))>>))),
    Alt("Quote", Braces(FieldList(<<Field("symbol", Name("Symbol"))>>))),
    Alt("Nothing", Braces(Empty)),
    Alt("Symbol", Name("Symbol"))>>)))

NestedItems ==
  { <<Expr>>,
    <<Expr, Item("strutuct", "Component", Alts(<<Alt("Expr", Of("star", Name("Expr"))), Alt("Op", Name("ExprOp"))>>)),
      Item("strutuct", "Arguments", Alts(<<Alt("Symbol", Name("Symbol")),
                                            Alt("Pack", Of("Punctuated", Name("Symbol")))>>)),
      With(Item("strutuct", "List", FieldList(<<Field("elements", Of("Delimited", Of("question", Name("Component"))))>>)),
           <<Attr("delimiter", "brace")>>)>>,
    <<Item("strutuct", "Owner", FieldList(<<Field("operator",
        Inline("Member", Alts(<<Alt("Dot", Tok("+")), Alt("Other", Name("Owner"))>>)))>>))>>,
    <<Marked(Item("enum", "Expr", Alts(<<Alt("", Name("Symbol")),
        Alt("", Inline("Application", Tuple(<<Name("Expr"),
                         Of("Delimited", Of("question", Of("Punctuated", Name("Expr"))))>>)))>>))),
      Item("struct", "Root", FieldList(<<
        Field("named", Inline("Nested", FieldList(<<Field("value", Name("Expr"))>>))),
        Positional("tuple", Inline("Pair", Tuple(<<Name("Expr"), Name("Symbol")>>)))>>))>> }

Faulty ==
  { <<Item("struct", "Use", FieldList(<<Field("value", Name("Absent"))>>))>>,
    <<Item("struct", "Use", FieldList(<<Field("value", Tok("absent"))>>))>>,
    <<Expr, Item("struct", "ExprOp", Empty)>>,
    <<With(Item("struct", "Late", Empty), <<Attr("comments", "")>>)>>,
    <<With(Item("struct", "Pair", Tuple(<<Name("Symbol")>>)), <<Attr("comments", "")>>)>>,
    <<With(Item("struct", "Pair", Tuple(<<Name("Symbol")>>)), <<Attr("cst", "pair")>>)>>,
    <<With(Item("struct", "Pair", FieldList(<<Field("a", Name("Symbol"))>>)),
           <<Attr("cst", "pair"), Attr("delimiter", "brace")>>)>>,
    <<With(Item("strutuct", "Both", Empty), <<Attr("leaf", "Adj"), Attr("operator", "PrefixOperator")>>)>>,
    <<With(Item("enum", "Full", Alts(<<Alt("", Name("Symbol"))>>)), <<Attr("operator", "PrefixOperator")>>)>>,
    <<Item("enum", "Many", Alts(<<Alt("", Of("Vec", Name("Symbol")))>>))>>,
    <<Item("enum", "Maybe", Alts(<<Alt("", Of("question", Name("Symbol")))>>))>>,
    <<With(Item("struct", "Node", FieldList(<<Field("a", Name("Symbol"))>>)), <<Attr("cst", "other")>>)>>,
    <<With(Item("struct", "Text", FieldList(<<Field("a", Of("Vec", Name("Symbol")))>>)), <<Attr("literal", "string")>>),
      With(Item("struct", "Number", Empty), <<Attr("leaf", "Float")>>)>> }

OtherSchemas ==
  { Schema(<<Assign, Plus>>, Leaves \o list) : list \in NestedItems \cup Faulty }

MCSources == FieldSchemas \cup CategorySchemas \cup {TwoWays} \cup TokenSchemas \cup OtherSchemas
=============================================================================
