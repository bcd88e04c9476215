----------------------------- MODULE TokenTable -----------------------------
(***************************************************************************)
(* The tokens { ... } stage of a schema (m2-syn-macros/src/tokens.rs and   *)
(* roles.rs): rows of spellings with parser roles and strengths become the *)
(* token definitions the generated code and the native parser look up.     *)
(* A row has one spelling: the source's grouping of spellings that share   *)
(* their metadata is notation.                                             *)
(***************************************************************************)
EXTENDS Naturals, Sequences, FiniteSets

CONSTANTS TokenName(_),  \* the type name composed from a spelling
          Words,         \* the spellings that begin with a letter
          Grouped        \* the empty spelling and the grouped one, (*)

None == {}

(***************************************************************************)
(* Roles.  A row's slots are (precedence, binary, unary); the second is    *)
(* "L", "R", a strength of its own or "_".                                 *)
(***************************************************************************)
NoRule == [role |-> "none"]

Rule(role, precedence, binary, unary) ==
  [role |-> role, precedence |-> precedence, binary |-> binary, unary |-> unary]

BinaryStrength(row) ==
  CASE row.binary = "L" -> {row.precedence}
    [] row.binary = "R" -> {IF row.precedence = 0 THEN 0 ELSE row.precedence - 1}
    [] row.binary = "_" -> None
    [] OTHER            -> {row.strength}

Role(row) ==
  CASE row.roles = {}              -> IF BinaryStrength(row) = None THEN "precedence" ELSE "unary"
    [] row.roles = {"bin"}         -> "binary"
    [] row.roles = {"pref"}        -> "prefix"
    [] row.roles = {"bin", "pref"} -> "prefix_binary"
    [] row.roles = {"post"}        -> "postfix"
    [] row.roles = {"infix"}       -> "infix"
    [] OTHER                       -> "several"

UnusedSlot(row) ==
  \/ Role(row) \in {"precedence", "postfix"} /\ BinaryStrength(row) \cup row.unary # None
  \/ Role(row) \in {"binary", "infix", "unary"} /\ row.unary # None
  \/ Role(row) = "prefix" /\ BinaryStrength(row) # None

\* A row with neither roles nor slots has no rule.
HasRule(row) == row.roles # {} \/ row.slots

Unresolved(row) ==
  /\ HasRule(row)
  /\ \/ ~ row.slots
     \/ Role(row) = "several"
     \/ Role(row) \in {"binary", "prefix_binary", "infix"} /\ BinaryStrength(row) = None
     \/ UnusedSlot(row)

Strength(slot) == IF slot = None THEN 0 ELSE CHOOSE n \in slot : TRUE

\* A prefix operator binds at its own precedence unless the third slot says otherwise.
Resolve(row) ==
  IF ~ HasRule(row) THEN NoRule
  ELSE Rule(Role(row), row.precedence, Strength(BinaryStrength(row)),
            IF Role(row) \in {"prefix", "prefix_binary"}
            THEN Strength(IF row.unary = None THEN {row.precedence} ELSE row.unary)
            ELSE 0)

AugmentedForm(rule) ==
  IF rule.role \in {"binary", "infix", "prefix_binary"}
  THEN Rule("binary", rule.precedence, rule.binary, 0)
  ELSE NoRule

\* The rule of augmented assignment is the one of the row that declares `=`.
AugmentedRule(rows) ==
  IF \E i \in DOMAIN rows : rows[i].spelling = "="
  THEN LET first == CHOOSE i \in DOMAIN rows :
             /\ rows[i].spelling = "="
             /\ \A j \in 1 .. i - 1 : rows[j].spelling # "="
       IN  AugmentedForm(Resolve(rows[first]))
  ELSE NoRule

---------------------------------------------------------------------------
(***************************************************************************)
(* Definitions.  A name declared again keeps its definition, which takes   *)
(* the rule it had not.                                                    *)
(***************************************************************************)
RawKind(row) ==
  IF row.trivia THEN "whitespace" ELSE IF row.spelling \in Words THEN "ident" ELSE "punct"

Definition(row) ==
  [name |-> TokenName(row.spelling), spelling |-> row.spelling, rule |-> Resolve(row),
   raw |-> RawKind(row), augmented |-> FALSE]

AugmentedDefinition(row, rule) ==
  [name |-> TokenName(row.spelling \o "="), spelling |-> row.spelling \o "=", rule |-> rule,
   raw |-> "punct", augmented |-> TRUE]

Conflicts(table, d) ==
  \E i \in DOMAIN table :
    /\ table[i].name = d.name
    /\ \/ table[i].spelling # d.spelling
       \/ table[i].raw # d.raw
       \/ NoRule \notin {table[i].rule, d.rule} /\ table[i].rule # d.rule

\* Mutant of Inserted: a name declared again keeps its definition as it was.
KeepFirstMutant(table, d) ==
  IF \E i \in DOMAIN table : table[i].name = d.name THEN table ELSE Append(table, d)

Inserted(table, d) ==
  IF \E i \in DOMAIN table : table[i].name = d.name
  THEN [i \in DOMAIN table |->
         IF table[i].name = d.name /\ table[i].rule = NoRule
         THEN [table[i] EXCEPT !.rule = d.rule] ELSE table[i]]
  ELSE Append(table, d)

\* What the table refuses of one row, and what the row adds to it.
RowRefused(table, row, rule) ==
  \/ Unresolved(row)
  \/ Conflicts(table, Definition(row))
  \/ row.aug /\ \/ rule = NoRule
                \/ row.spelling \in Grouped
                \/ Conflicts(Inserted(table, Definition(row)), AugmentedDefinition(row, rule))

WithRow(table, row, rule) ==
  LET plain == Inserted(table, Definition(row))
  IN  IF row.aug THEN Inserted(plain, AugmentedDefinition(row, rule)) ELSE plain

---------------------------------------------------------------------------
(***************************************************************************)
(* Operator categories are derived from the table.                         *)
(***************************************************************************)
Categories == <<"PrefixOperator", "BinaryOperator", "PostfixOperator", "AugmentedOperator">>

IsOperator(d, category) ==
  CASE category = "PrefixOperator"  -> d.rule.role \in {"prefix", "prefix_binary"}
    [] category = "BinaryOperator"  -> d.rule.role \in {"binary", "prefix_binary"}
    [] category = "PostfixOperator" -> d.rule.role = "postfix"
    [] OTHER                        -> d.augmented

OperatorVariants(table, category) ==
  SelectSeq(table, LAMBDA d : IsOperator(d, category))
=============================================================================
