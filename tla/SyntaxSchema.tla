---------------------------- MODULE SyntaxSchema ----------------------------
(***************************************************************************)
(* The syntax! macro (m2-syn-macros/src/syntax.rs and syntax/grammar.rs):  *)
(* from the items of a schema to the structs and enums it generates, the   *)
(* types their fields are stored in, and the From conversions between      *)
(* categories.                                                             *)
(*                                                                         *)
(* A schema is [rows, items].  An item has a form ("strutuct", "struct" or *)
(* "enum"), a name, a box mark, attributes and a body:                     *)
(*   [is |-> "empty"],                                                     *)
(*   [is |-> "fields", list |-> <<[name, positional, type], ...>>],        *)
(*   [is |-> "tuple", list |-> <<[type], ...>>],                           *)
(*   [is |-> "variants", list |-> <<[name, type], ...>>].                  *)
(* A type is a name, a token, a wrapper of a type, or a type declared in   *)
(* place, which has a body too; "braces" is the nested declaration of a    *)
(* variant, named after the declaration it stands in.                      *)
(***************************************************************************)
EXTENDS TokenTable
LOCAL INSTANCE SequencesExt

CONSTANTS Sources,       \* the schemas the macro is given
          SnakeCase(_)   \* to_snake_case

VARIABLES source,        \* the schema
          rows, items,   \* the token rows and the items still to read
          phase,         \* "tokens", "parse", "lower", "check", "close", "done", "refused"
          fault,         \* why it was refused
          table,         \* token definitions
          declarations,  \* hoisted and top-level declarations, in order
          structs, enums,
          paths          \* the conversion graph: every path found so far

vars == <<source, rows, items, phase, fault, table, declarations, structs, enums, paths>>

---------------------------------------------------------------------------
(***************************************************************************)
(* Types.  A type expression is a stack of functors over one base name.    *)
(***************************************************************************)
FunctorOf == [Vec |-> "repeated", Lines |-> "repeated", Punctuated |-> "punctuated",
              Delimited |-> "delimited", Option |-> "optional", Box |-> "boxed",
              question |-> "optional", star |-> "boxed"]

Wrappers == DOMAIN FunctorOf

RECURSIVE Chain(_), Resolved(_), InPlaceIn(_)

Chain(type) ==
  CASE type.is = "token"      -> [functors |-> <<>>, base |-> TokenName(type.spelling)]
    [] type.is \in Wrappers   -> LET inner == Chain(type.of)
                                 IN  [inner EXCEPT !.functors = <<FunctorOf[type.is]>> \o @]
    [] OTHER                  -> [functors |-> <<>>, base |-> type.name]

\* Every Token![...] spells a declared token.
Resolved(type) ==
  CASE type.is = "token"    -> \E i \in DOMAIN table : table[i].spelling = type.spelling
    [] type.is \in Wrappers -> Resolved(type.of)
    [] OTHER                -> TRUE

\* The type declared in place in a type, if there is one.
InPlaceIn(type) ==
  CASE type.is \in {"inline", "braces"} -> <<type>>
    [] type.is \in Wrappers -> InPlaceIn(type.of)
    [] OTHER -> <<>>

---------------------------------------------------------------------------
(***************************************************************************)
(* Declarations: what is declared in place is hoisted, innermost first,    *)
(* before the declaration it stands in, which keeps its name.              *)
(***************************************************************************)
Has(attrs, of) == \E i \in DOMAIN attrs : attrs[i].of = of
Argument(attrs, of) == SelectSeq(attrs, LAMBDA a : a.of = of)[1].arg

WrapperAttrs(attrs) == SelectSeq(attrs, LAMBDA a : a.of \in {"cst", "delimiter", "literal"})

Entries(item) == IF item.body.is = "empty" THEN <<>> ELSE item.body.list

\* A variant's nested declaration is named after the declaration it stands in.
PayloadName(item, entry) ==
  LET type == InPlaceIn(entry.type)[1]
  IN  IF type.is = "braces" THEN item.name \o entry.name ELSE type.name

Nested(item, entry) ==
  LET type == InPlaceIn(entry.type)[1]
  IN  [form |-> item.form, name |-> PayloadName(item, entry), body |-> type.body, nested |-> TRUE,
       marked |-> type.is = "inline" /\ type.marked,
       attrs |-> IF type.is = "inline" THEN WrapperAttrs(type.attrs) ELSE <<>>]

RECURSIVE Naming(_, _)
Naming(type, name) ==
  CASE type.is \in Wrappers             -> [type EXCEPT !.of = Naming(@, name)]
    [] type.is \in {"inline", "braces"} -> [is |-> "name", name |-> name]
    [] OTHER                            -> type

HasInPlace(item) == \E i \in DOMAIN Entries(item) : InPlaceIn(Entries(item)[i].type) # <<>>

\* The declarations standing in an item, and the item that names them instead.
Inner(item) ==
  LET holders == SelectSeq(Entries(item), LAMBDA entry : InPlaceIn(entry.type) # <<>>)
  IN  [i \in DOMAIN holders |-> Nested(item, holders[i])]

Outer(item) ==
  [item EXCEPT !.body.list = [i \in DOMAIN @ |->
    IF InPlaceIn(@[i].type) = <<>> THEN @[i]
    ELSE [@[i] EXCEPT !.type = Naming(@, PayloadName(item, item.body.list[i]))]]]

Product(body) ==
  [is |-> "product", style |-> IF body.is = "tuple" THEN "tuple" ELSE "named",
   fields |-> IF body.is = "empty" THEN <<>>
              ELSE [i \in DOMAIN body.list |->
                     [chain |-> Chain(body.list[i].type),
                      name |-> IF body.is = "tuple" THEN "" ELSE body.list[i].name,
                      positional |-> body.is = "tuple" \/ body.list[i].positional]]]

Sum(body, operator) ==
  [is |-> "sum", operator |-> operator,
   variants |-> IF body.is = "empty" THEN <<>>
                ELSE [i \in DOMAIN body.list |->
                       [chain |-> Chain(body.list[i].type), name |-> body.list[i].name]]]

LeafNames == {"Symbol", "Empty", "Adj", "EOC", "BOF", "EOF", "FloatLiteral", "IntegerLiteral"}

InferredLeafKind(name) == IF name \in LeafNames THEN name ELSE "Ident"

LeafKind(item) ==
  IF Has(item.attrs, "leaf") THEN Argument(item.attrs, "leaf") ELSE InferredLeafKind(item.name)

Operator(attrs) == IF Has(attrs, "operator") THEN Argument(attrs, "operator") ELSE ""

\* Only an item of its own can be a leaf or, empty, an operator category.
IsAtom(item) == item.body.is = "empty" /\ ~ item.nested

Expression(item) ==
  CASE IsAtom(item) /\ item.form = "strutuct" /\ Has(item.attrs, "operator") ->
         Sum(item.body, Operator(item.attrs))
    [] IsAtom(item)              -> [is |-> "leaf", leaf |-> LeafKind(item)]
    [] item.body.is = "variants" -> Sum(item.body, IF item.form = "enum" THEN Operator(item.attrs) ELSE "")
    [] OTHER                     -> Product(item.body)

\* An enum and an empty strutuct keep none of the other attributes.
Declaration(item) ==
  [name |-> item.name, expression |-> Expression(item), boxed |-> item.marked,
   attrs |-> IF (item.form = "enum" /\ ~ item.nested) \/ (IsAtom(item) /\ item.form = "strutuct")
             THEN <<>> ELSE item.attrs]

(***************************************************************************)
(* What does not parse.  The plain forms have no Option<T> and no T* and   *)
(* write `?` once, at the end of a field's type or of a wrapper's element. *)
(***************************************************************************)
RECURSIVE PlainType(_, _)
PlainType(type, optional) ==
  CASE type.is = "question"           -> optional /\ PlainType(type.of, FALSE)
    [] type.is \in {"Option", "star"} -> FALSE
    [] type.is \in Wrappers           -> PlainType(type.of, TRUE)
    [] OTHER                          -> TRUE

Parses(item) ==
  /\ \A i \in DOMAIN Entries(item) :
       /\ Resolved(Entries(item)[i].type)
       /\ item.form # "strutuct" => PlainType(Entries(item)[i].type, item.body.is # "variants")
  \* One wrapping attribute at most, and only on named fields.
  /\ item.body.is \in {"fields", "tuple"} /\ WrapperAttrs(item.attrs) # <<>> =>
       item.body.is = "fields" /\ Len(WrapperAttrs(item.attrs)) = 1
  /\ ~ (IsAtom(item) /\ item.form = "strutuct" /\ Has(item.attrs, "leaf") /\ Has(item.attrs, "operator"))

---------------------------------------------------------------------------
(***************************************************************************)
(* Lowering one declaration to a struct or an enum.                        *)
(***************************************************************************)
Shape(chain) == [functors |-> chain.functors, base |-> chain.base]

\* lower_field_shape: the elements of a sequence are plain syntax types.
Plain(chain) ==
  \A i \in DOMAIN chain.functors : chain.functors[i] \in {"repeated", "punctuated"} => i = Len(chain.functors)

\* lower_field takes every `?` outside the other functors as one.
RECURSIVE Stripped(_)
Stripped(functors) ==
  IF functors # <<>> /\ Head(functors) = "optional" THEN Stripped(Tail(functors)) ELSE functors

FieldShape(chain) ==
  LET rest == Stripped(chain.functors)
  IN  [functors |-> (IF rest = chain.functors THEN <<>> ELSE <<"optional">>) \o rest,
       base |-> chain.base]

LowerFields(expression) ==
  [i \in DOMAIN expression.fields |->
    [name |-> expression.fields[i].name,
     positional |-> expression.fields[i].positional,
     shape |-> FieldShape(expression.fields[i].chain)]]

WrapperOf(attrs) ==
  IF Has(attrs, "delimiter") THEN "delimiter" ELSE IF Has(attrs, "literal") THEN "literal" ELSE "none"

Struct(d, fields, leaf, style) ==
  [name |-> d.name, fields |-> fields, leaf |-> leaf, style |-> style,
   wrapper |-> WrapperOf(d.attrs), boxed |-> d.boxed, comments |-> Has(d.attrs, "comments"),
   kind |-> IF leaf = "" /\ Has(d.attrs, "cst") THEN Argument(d.attrs, "cst") ELSE SnakeCase(d.name)]

LoweredStruct(d) ==
  IF d.expression.is = "leaf"
  THEN [Struct(d, <<>>, d.expression.leaf, "named") EXCEPT !.wrapper = "none"]
  ELSE Struct(d, LowerFields(d.expression), "", d.expression.style)

\* A punctuated variant is a tuple struct of its own, under the variant's name;
\* a variant without a name has the name of what it wraps.
PunctuatedPayloads(variants) ==
  LET payloads == SelectSeq(variants, LAMBDA v : v.chain.functors # <<>> /\ Head(v.chain.functors) = "punctuated")
  IN  [i \in DOMAIN payloads |->
        Struct([name |-> payloads[i].name, boxed |-> FALSE, attrs |-> <<>>],
               <<[name |-> "", positional |-> TRUE, shape |-> Shape(payloads[i].chain)]>>, "", "tuple")]

Variant(v) ==
  [name |-> IF v.name = "" THEN v.chain.base ELSE v.name,
   shape |-> IF v.chain.functors # <<>> /\ Head(v.chain.functors) = "punctuated"
             THEN [functors |-> <<>>, base |-> v.name] ELSE Shape(v.chain)]

OperatorEnum(name, category) ==
  LET tokens == OperatorVariants(table, category)
  IN  [name |-> name, operator |-> category, boxed |-> FALSE,
       variants |-> [i \in DOMAIN tokens |->
         [name |-> tokens[i].name, shape |-> [functors |-> <<>>, base |-> tokens[i].name]]]]

LoweredEnum(d) ==
  IF d.expression.operator # "" THEN OperatorEnum(d.name, d.expression.operator)
  ELSE [name |-> d.name, operator |-> "", boxed |-> d.boxed,
        variants |-> [i \in DOMAIN d.expression.variants |-> Variant(d.expression.variants[i])]]

LoweringFault(d) ==
  CASE d.expression.is = "product" ->
         IF \A i \in DOMAIN d.expression.fields : Plain(d.expression.fields[i].chain)
         THEN "none" ELSE "element"
    [] d.expression.is = "sum" ->
         IF d.expression.operator # "" /\ d.expression.variants # <<>> THEN "operator_variants"
         ELSE IF \E i \in DOMAIN d.expression.variants :
                   LET v == d.expression.variants[i] IN v.name = "" /\ v.chain.functors # <<>>
              THEN "unnamed_variant"
         ELSE IF \A i \in DOMAIN d.expression.variants : Plain(d.expression.variants[i].chain)
              THEN "none" ELSE "element"
    [] OTHER -> "none"

---------------------------------------------------------------------------
(***************************************************************************)
(* Facts of the whole schema.                                              *)
(***************************************************************************)
Shapes(ss, es) ==
  UNION { { d.fields[i].shape : i \in DOMAIN d.fields } : d \in ToSet(ss) }
    \cup UNION { { d.variants[i].shape : i \in DOMAIN d.variants } : d \in ToSet(es) }

References(ss, es) == { shape.base : shape \in Shapes(ss, es) }

\* Mutant of Completed: only the fields of structs call for a category.
FieldsOnlyMutant(ss, es) ==
  LET missing == SelectSeq(Categories, LAMBDA c :
        c \in References(ss, <<>>) /\ \A i \in DOMAIN es : es[i].name # c)
  IN  es \o [i \in DOMAIN missing |-> OperatorEnum(missing[i], missing[i])]

\* A category declared without variants gets them, one that is only referred
\* to is declared.
Completed(ss, es) ==
  LET filled == [i \in DOMAIN es |->
        IF es[i].name \in ToSet(Categories) /\ es[i].variants = <<>> /\ es[i].operator = ""
        THEN OperatorEnum(es[i].name, es[i].name) ELSE es[i]]
      missing == SelectSeq(Categories, LAMBDA c :
        c \in References(ss, es) /\ \A i \in DOMAIN es : es[i].name # c)
  IN  filled \o [i \in DOMAIN missing |-> OperatorEnum(missing[i], missing[i])]

Names == [i \in DOMAIN table |-> table[i].name]
           \o [i \in DOMAIN structs |-> structs[i].name]
           \o [i \in DOMAIN enums |-> enums[i].name]

Boxed == { d.name : d \in { d \in ToSet(structs) \cup ToSet(enums) : d.boxed } }

---------------------------------------------------------------------------
(***************************************************************************)
(* Storage.  A marked type is boxed where it would be stored inline; a     *)
(* Vec and a Box already are indirect, a Punctuated keeps its first value  *)
(* inline.                                                                 *)
(***************************************************************************)
Indirect == {"boxed", "repeated"}

RECURSIVE Stored(_, _, _), Converted(_, _), StorageElement(_), Wrapped(_), FromCursor(_, _)

\* Mutant of Stored: a Punctuated counts as indirect.
PunctuatedIndirectMutant(functors, marked, indirect) ==
  IF functors = <<>> THEN IF marked /\ ~ indirect THEN <<"boxed">> ELSE <<>>
  ELSE <<Head(functors)>>
         \o Stored(Tail(functors), marked, indirect \/ Head(functors) \in Indirect \cup {"punctuated"})

Stored(functors, marked, indirect) ==
  IF functors = <<>> THEN IF marked /\ ~ indirect THEN <<"boxed">> ELSE <<>>
  ELSE <<Head(functors)>>
         \o Stored(Tail(functors), marked, indirect \/ Head(functors) \in Indirect)

StoredShape(shape) == Stored(shape.functors, shape.base \in Boxed, FALSE)

(***************************************************************************)
(* convert_value: what the constructor stores, given the declared type.    *)
(***************************************************************************)
Same(functors, stored) == functors = stored /\ \A i \in DOMAIN stored : stored[i] # "boxed"

\* Mutant of Converted: a delimited value is stored as it is given.
DelimitedAsIsMutant(functors, stored) ==
  CASE Same(functors, stored)                      -> functors
    [] functors = <<>> /\ stored = <<"boxed">>     -> stored
    [] /\ functors # <<>> /\ stored # <<>>
       /\ Head(functors) = Head(stored)
       /\ Head(functors) \notin {"boxed", "delimited"} ->
         <<Head(stored)>> \o Converted(Tail(functors), Tail(stored))
    [] OTHER -> functors

Converted(functors, stored) ==
  CASE Same(functors, stored)                      -> functors
    [] functors = <<>> /\ stored = <<"boxed">>     -> stored
    [] /\ functors # <<>> /\ stored # <<>>
       /\ Head(functors) = Head(stored)
       /\ Head(functors) # "boxed" ->
         <<Head(stored)>> \o Converted(Tail(functors), Tail(stored))
    [] OTHER -> functors

(***************************************************************************)
(* migrate and migrate_from_cursor: what a field is migrated to.           *)
(***************************************************************************)
StorageElement(stored) ==
  IF stored = <<>> \/ Head(stored) = "boxed" THEN stored ELSE StorageElement(Tail(stored))

Wrapped(stored) ==
  IF stored # <<>> /\ Head(stored) = "boxed" THEN <<"boxed">> \o Wrapped(Tail(stored)) ELSE <<>>

Unsupported == <<"unsupported">>

FromCursor(functors, marked) ==
  CASE functors = <<>> -> Wrapped(Stored(<<>>, marked, FALSE))
    [] Head(functors) = "boxed" ->
         LET inner == FromCursor(Tail(functors), marked)
         IN  IF inner = Unsupported THEN inner ELSE <<"boxed">> \o inner
    [] functors \in {<<"optional">>, <<"punctuated">>, <<"optional", "punctuated">>} ->
         functors \o Wrapped(Stored(<<>>, marked, FALSE))
    [] functors = <<"repeated">> -> functors \o Wrapped(Stored(<<>>, marked, TRUE))
    [] OTHER -> Unsupported

RECURSIVE IsSequence(_)
IsSequence(functors) ==
  /\ functors # <<>>
  /\ \/ Head(functors) \in {"repeated", "punctuated"}
     \/ Head(functors) \in {"boxed", "optional"} /\ IsSequence(Tail(functors))

\* Mutant of Migrated: the element is wrapped as if it stood in the struct.
InlineElementMutant(functors, marked) ==
  LET element == Wrapped(Stored(<<>>, marked, FALSE))
  IN  IF functors # <<>> /\ Head(functors) = "delimited"
      THEN <<"delimited">> \o FromCursor(Tail(functors), marked)
      ELSE IF functors = <<>> \/ Head(functors) = "boxed" THEN element
      ELSE IF Head(functors) = "optional" /\ IsSequence(Tail(functors))
      THEN <<"optional", functors[2]>> \o element
      ELSE <<Head(functors)>> \o element

\* An Option<Vec<T>> is gathered like a Vec<T>.
Migrated(functors, marked) ==
  LET element == Wrapped(StorageElement(Stored(functors, marked, FALSE)))
  IN  IF functors # <<>> /\ Head(functors) = "delimited"
      THEN <<"delimited">> \o FromCursor(Tail(functors), marked)
      ELSE IF functors = <<>> \/ Head(functors) = "boxed" THEN element
      ELSE IF Head(functors) = "optional" /\ ~ IsSequence(Tail(functors)) THEN <<"optional">> \o element
      ELSE IF Head(functors) = "optional" /\ functors[2] = "punctuated"
      THEN <<"optional", "punctuated">> \o element
      ELSE IF Head(functors) = "punctuated" THEN <<"punctuated">> \o element
      ELSE <<"repeated">> \o element

ContentsUnsupported(shape) ==
  /\ shape.functors # <<>>
  /\ Head(shape.functors) = "delimited"
  /\ FromCursor(Tail(shape.functors), shape.base \in Boxed) = Unsupported

---------------------------------------------------------------------------
(***************************************************************************)
(* Conversions.  A path from a type to a category is the variants a value  *)
(* is wrapped in, innermost first.  A round of the closure combines the    *)
(* paths known at its start.                                               *)
(***************************************************************************)
Edges ==
  UNION { { [source |-> d.variants[i].shape.base, target |-> d.name,
             via |-> << <<d.name, d.variants[i].name>> >>] : i \in DOMAIN d.variants }
          : d \in ToSet(enums) }

\* Mutant of Combined: a path is cut one step short of the number of categories.
ShortPathsMutant(known) ==
  { [source |-> pair[1].source, target |-> pair[2].target, via |-> pair[1].via \o pair[2].via]
    : pair \in { pair \in known \X known :
        /\ pair[1].target = pair[2].source
        /\ pair[1].source # pair[2].target
        /\ Len(pair[1].via) + Len(pair[2].via) < Len(enums) } }

Combined(known) ==
  { [source |-> pair[1].source, target |-> pair[2].target, via |-> pair[1].via \o pair[2].via]
    : pair \in { pair \in known \X known :
        /\ pair[1].target = pair[2].source
        /\ pair[1].source # pair[2].target
        /\ Len(pair[1].via) + Len(pair[2].via) <= Len(enums) } }

\* Mutant of Changed: a round that found nothing new counts as a change.
AlwaysMutant(known, found) == TRUE

Changed(known, found) == ~ found \subseteq known

PathsFrom(s, t) == { p \in paths : p.source = s /\ p.target = t }

\* From<s> for t is generated when there is one way to wrap an s into a t.
Conversions ==
  { <<p.source, p.target>> : p \in { p \in paths : Cardinality(PathsFrom(p.source, p.target)) = 1 } }

---------------------------------------------------------------------------
Init ==
  /\ source \in Sources /\ rows = source.rows /\ items = source.items
  /\ phase = "tokens" /\ fault = "none"
  /\ table = <<>> /\ declarations = <<>> /\ structs = <<>> /\ enums = <<>>
  /\ paths = {}

Refuse(reason) ==
  /\ phase' = "refused" /\ fault' = reason
  /\ UNCHANGED <<source, rows, items, table, declarations, structs, enums, paths>>

(***************************************************************************)
(* TokenDefinitions::new, one row at a time.                               *)
(***************************************************************************)
ReadRow ==
  /\ phase = "tokens" /\ rows # <<>>
  /\ \E rule \in {AugmentedRule(source.rows)} :
       /\ ~ RowRefused(table, Head(rows), rule)
       /\ table' = WithRow(table, Head(rows), rule)
  /\ rows' = Tail(rows)
  /\ UNCHANGED <<source, items, phase, fault, declarations, structs, enums, paths>>

RefuseRow ==
  /\ phase = "tokens" /\ rows # <<>>
  /\ RowRefused(table, Head(rows), AugmentedRule(source.rows))
  /\ Refuse("token")

EndOfRows ==
  /\ phase = "tokens" /\ rows = <<>>
  /\ phase' = "parse"
  /\ UNCHANGED <<source, rows, items, fault, table, declarations, structs, enums, paths>>

(***************************************************************************)
(* grammar::parse, one item at a time.                                     *)
(***************************************************************************)
Hoist ==
  /\ phase = "parse" /\ items # <<>>
  /\ HasInPlace(Head(items))
  /\ items' = Inner(Head(items)) \o <<Outer(Head(items))>> \o Tail(items)
  /\ UNCHANGED <<source, rows, phase, fault, table, declarations, structs, enums, paths>>

Declare ==
  /\ phase = "parse" /\ items # <<>>
  /\ ~ HasInPlace(Head(items)) /\ Parses(Head(items))
  /\ declarations' = Append(declarations, Declaration(Head(items)))
  /\ items' = Tail(items)
  /\ UNCHANGED <<source, rows, phase, fault, table, structs, enums, paths>>

RefuseItem ==
  /\ phase = "parse" /\ items # <<>>
  /\ ~ HasInPlace(Head(items)) /\ ~ Parses(Head(items))
  /\ Refuse("syntax")

EndOfItems ==
  /\ phase = "parse" /\ items = <<>>
  /\ phase' = "lower"
  /\ UNCHANGED <<source, rows, fault, items, table, declarations, structs, enums, paths>>

(***************************************************************************)
(* Lowerer::lower, one declaration at a time.                              *)
(***************************************************************************)
LowerStruct ==
  /\ phase = "lower" /\ declarations # <<>>
  /\ Head(declarations).expression.is # "sum"
  /\ LoweringFault(Head(declarations)) = "none"
  /\ structs' = Append(structs, LoweredStruct(Head(declarations)))
  /\ declarations' = Tail(declarations)
  /\ UNCHANGED <<source, rows, items, phase, fault, table, enums, paths>>

LowerSum ==
  /\ phase = "lower" /\ declarations # <<>>
  /\ Head(declarations).expression.is = "sum"
  /\ LoweringFault(Head(declarations)) = "none"
  /\ structs' = structs \o PunctuatedPayloads(Head(declarations).expression.variants)
  /\ enums' = Append(enums, LoweredEnum(Head(declarations)))
  /\ declarations' = Tail(declarations)
  /\ UNCHANGED <<source, rows, items, phase, fault, table, paths>>

RefuseDeclaration ==
  /\ phase = "lower" /\ declarations # <<>>
  /\ LoweringFault(Head(declarations)) # "none"
  /\ Refuse(LoweringFault(Head(declarations)))

CompleteCategories ==
  /\ phase = "lower" /\ declarations = <<>>
  /\ enums' = Completed(structs, enums)
  /\ phase' = "check"
  /\ UNCHANGED <<source, rows, items, fault, table, declarations, structs, paths>>

(***************************************************************************)
(* Syntax::expand: declared_names, validate_references, expand_struct.     *)
(***************************************************************************)
CheckFault ==
  IF ~ IsInjective(Names) THEN "duplicate"
  ELSE IF ~ References(structs, enums) \subseteq ToSet(Names) THEN "undeclared"
  ELSE IF \E d \in ToSet(structs) : d.comments /\ (d.leaf # "" \/ d.style = "tuple") THEN "comments"
  ELSE IF \E d \in ToSet(structs) : \E i \in DOMAIN d.fields : ContentsUnsupported(d.fields[i].shape)
  THEN "contents"
  ELSE "none"

Expand ==
  /\ phase = "check" /\ CheckFault = "none"
  /\ paths' = Edges /\ phase' = "close"
  /\ UNCHANGED <<source, rows, items, fault, table, declarations, structs, enums>>

RefuseSchema ==
  /\ phase = "check" /\ CheckFault # "none"
  /\ Refuse(CheckFault)

\* expand_conversions: rounds until one finds nothing new.
CloseRound ==
  /\ phase = "close" /\ Changed(paths, Combined(paths))
  /\ paths' = paths \cup Combined(paths)
  /\ UNCHANGED <<source, rows, items, phase, fault, table, declarations, structs, enums>>

EmitConversions ==
  /\ phase = "close" /\ ~ Changed(paths, Combined(paths))
  /\ phase' = "done"
  /\ UNCHANGED <<source, rows, items, fault, table, declarations, structs, enums, paths>>

Next ==
  \/ ReadRow \/ RefuseRow \/ EndOfRows
  \/ Hoist \/ Declare \/ RefuseItem \/ EndOfItems
  \/ LowerStruct \/ LowerSum \/ RefuseDeclaration \/ CompleteCategories
  \/ Expand \/ RefuseSchema
  \/ CloseRound \/ EmitConversions

\* The macro is one sequential computation: it is run to its end.
Spec == Init /\ [][Next]_vars /\ WF_vars(Next)

---------------------------------------------------------------------------
(***************************************************************************)
(* Properties.                                                             *)
(***************************************************************************)

\* An augmented form parses like the assignment it abbreviates, however the
\* table came by its name: declared by a row of its own, before or after, or
\* only derived (insert_definition keeps one definition per name).
AugmentedBindsLikeAssignment ==
  phase \in {"parse", "lower", "check", "close", "done"} =>
    \A i \in DOMAIN source.rows :
      source.rows[i].aug =>
        \E j \in DOMAIN table : /\ table[j].spelling = source.rows[i].spelling \o "="
                                /\ table[j].rule = AugmentedRule(source.rows)

\* The names a schema declares and uses, wherever they stand in it.
RECURSIVE DeclaredBy(_), UsedBy(_), BaseNames(_)

Within(item) == ToSet(IF HasInPlace(item) THEN Inner(item) ELSE <<>>)

DeclaredBy(item) == {item.name} \cup UNION { DeclaredBy(inner) : inner \in Within(item) }

BaseNames(type) ==
  CASE type.is \in Wrappers -> BaseNames(type.of)
    [] type.is = "name"     -> {type.name}
    [] OTHER                -> {}

UsedBy(item) ==
  UNION { BaseNames(Entries(item)[i].type) : i \in DOMAIN Entries(item) }
    \cup UNION { UsedBy(inner) : inner \in Within(item) }

\* A schema is refused for a name it uses only when nothing in it declares
\* that name, before or after, at top level or in place, and it is no operator
\* category: complete_operator_categories and hoisting supply the rest.
RefusedOnlyUndeclared ==
  fault = "undeclared" =>
    \E item \in ToSet(source.items) : \E name \in UsedBy(item) :
      /\ name \notin ToSet(Categories)
      /\ \A other \in ToSet(source.items) : name \notin DeclaredBy(other)

\* The ways to wrap an s into a t that enter no category twice.
RECURSIVE SimpleChains(_, _, _)
SimpleChains(s, t, entered) ==
  LET first == { e \in Edges : e.source = s /\ e.target \notin entered }
  IN  { e.via : e \in { e \in first : e.target = t } }
        \cup UNION { { e.via \o rest : rest \in SimpleChains(e.target, t, entered \cup {e.target}) }
                     : e \in { e \in first : e.target # t } }

Enums == { d.name : d \in ToSet(enums) }

RECURSIVE ReachedFrom(_, _)
ReachedFrom(names, steps) ==
  LET further == names \cup { step[2] : step \in { step \in steps : step[1] \in names } }
  IN  IF further = names THEN names ELSE ReachedFrom(further, steps)

Cyclic(steps) == \E step \in steps : step[1] \in ReachedFrom({step[2]}, steps)

Containment == { <<edge.source, edge.target>> : edge \in Edges }

\* A conversion between a type and a category is generated only if there is
\* exactly one chain of variants from the one to the other, and always then
\* unless categories contain one another (expand_conversions closes the graph
\* by rounds, up to a length, and counts what it found).
ConversionsUnambiguous ==
  phase = "done" =>
    \A t \in Enums : \A s \in ToSet(Names) \ {t} :
      LET chains == Cardinality(SimpleChains(s, t, {}))
      IN  /\ <<s, t>> \in Conversions => chains = 1
          /\ chains = 1 /\ ~ Cyclic(Containment) => <<s, t>> \in Conversions

Fields == UNION { { d.fields[i].shape : i \in DOMAIN d.fields } : d \in ToSet(structs) }

\* What is stored inline in what, declared (marked types and indirections
\* apart) and generated.
Owned ==
  UNION { { <<d.name, d.fields[i].shape>> : i \in DOMAIN d.fields } : d \in ToSet(structs) }
    \cup UNION { { <<d.name, d.variants[i].shape>> : i \in DOMAIN d.variants } : d \in ToSet(enums) }

InlineSteps(owned, Functors(_)) ==
  { <<o[1], o[2].base>> : o \in { o \in owned : ToSet(Functors(o[2])) \cap Indirect = {} } }

Unmarked == { o \in Owned : o[2].base \notin Boxed }

\* A schema in which every circle of declarations passes a marked type or an
\* indirection generates types of finite size (stored_shape).
MarkedTypesAreFinite ==
  phase = "done" /\ ~ Cyclic(InlineSteps(Unmarked, LAMBDA shape : shape.functors))
    => ~ Cyclic(InlineSteps(Owned, StoredShape))

\* Constructors accept the declared types and store what the struct declares
\* (convert_value against stored_shape, through every functor).
ConstructorsStore ==
  phase = "done" =>
    \A shape \in Fields : Converted(shape.functors, StoredShape(shape)) = StoredShape(shape)

\* The shapes the schema chapter of the book names.
DocumentedShapes ==
  LET contents == {<<>>, <<"optional">>, <<"repeated">>, <<"punctuated">>, <<"optional", "punctuated">>}
  IN  contents \cup {<<"boxed">>, <<"optional", "boxed">>} \cup { <<"delimited">> \o c : c \in contents }

\* The value migration builds for a documented shape has the type the field is
\* stored in: the migrating code and the type declaration decide separately
\* where a box goes.
MigrationStores ==
  phase = "done" =>
    \A shape \in Fields :
      shape.functors \in DocumentedShapes =>
        Migrated(shape.functors, shape.base \in Boxed) = StoredShape(shape)

\* Boxes stand where the size of a type needs them, and in the same place in
\* the type, in what constructors build and in what migration builds.
BoxesAgree == MarkedTypesAreFinite /\ ConstructorsStore /\ MigrationStores

\* The closure of the conversion graph stops also where categories contain
\* one another, and every expansion ends.
Ends == <>(phase \in {"done", "refused"})
=============================================================================
