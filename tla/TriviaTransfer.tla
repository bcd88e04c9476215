--------------------------- MODULE TriviaTransfer ---------------------------
(***************************************************************************)
(* TriviaTransfer (migration/trivia_transfer.rs): comments are not part of *)
(* the tree that is lowered.  They are taken from the raw atoms the lexer  *)
(* gives them to, keyed by the atom's range, and placed on the terminals   *)
(* of the typed graph with the same range.                                 *)
(***************************************************************************)
EXTENDS Lowering, FiniteSets
LOCAL INSTANCE SequencesExt

VARIABLES
  transfer,    \* the comments not placed yet, by their owner
  placed       \* for each terminal the walk has visited, the comments it was given

vars == <<parse, work, lowered, outcome, transfer, placed>>

---------------------------------------------------------------------------
(***************************************************************************)
(* The lexer's atoms and their comments, settled and framed as Framing and *)
(* TokenStream have it.                                                    *)
(***************************************************************************)
atoms == parse.atoms

Comments == { i \in DOMAIN atoms : atoms[i].comment }

Tokens == DOMAIN atoms \ Comments

Greatest(S) == CHOOSE n \in S : \A m \in S : m <= n

Openings == {"(", "[", "{", "<|"}

Closings == {")", "]", "}", "|>"}

Nesting(from, to) ==
  Cardinality({ i \in from .. to : atoms[i].kind \in Openings })
  - Cardinality({ i \in from .. to : atoms[i].kind \in Closings })

OpeningOf(closing) ==
  Greatest({ i \in 1 .. closing : atoms[i].kind \in Openings /\ Nesting(i, closing) = 0 })

Bounds(i) == <<atoms[i].from, atoms[i].from + atoms[i].width>>

\* The comment goes with the token in front of it.
Behind(previous) ==
  IF atoms[previous].kind \in Openings THEN <<"opening", Bounds(previous)>>
  ELSE IF atoms[previous].kind \in Closings THEN <<"closing", Bounds(OpeningOf(previous))>>
  ELSE <<"terminal", Bounds(previous)>>

CellStarts == { c.from : c \in ToSet(semantic_children(parse.tree)) }

\* Or, on lines of its own, with the cell behind it or behind the last cell.
Owner(comment) ==
  LET before == { i \in Tokens : i < comment }
      after == { i \in Tokens : i > comment }
      next == CHOOSE i \in after : \A j \in after : i <= j
  IN  IF after = {} /\ (before = {} \/ (parse.own_line /\ Nesting(1, comment) = 0)) THEN <<"file",
                                                                                           <<>>>>
      ELSE IF after # {} /\ atoms[next].from \in CellStarts /\ (before = {} \/ parse.own_line)
      THEN <<"cell", <<atoms[next].from>>>>
      ELSE Behind(Greatest(before))

from_source ==
  [owner \in { Owner(i) : i \in Comments } |-> SetToSortSeq({ i \in Comments : Owner(i) = owner },
                                                            <)]

---------------------------------------------------------------------------
(***************************************************************************)
(* The walk: every terminal takes what is its own.  A delimiter is visited *)
(* as a whole after what it encloses; its comments have keys of their own, *)
(* so that they can be taken here as its two ends are printed.             *)
(***************************************************************************)
\* Mutant of Keys: only where a terminal starts is compared.
StartMutant(terminal) ==
  { owner \in DOMAIN transfer :
      \/ terminal.as = "Closing" /\ owner[1] = "closing" /\ owner[2][1] = terminal.pair
      \/ terminal.as = "Opening" /\ owner[1] = "opening" /\ owner[2][1] = terminal.from
      \/ /\ terminal.as \notin {"Opening", "Closing"}
         /\ owner[1] = "terminal" /\ owner[2][1] = terminal.from }

Keys(terminal) ==
  DOMAIN transfer \cap
    {CASE terminal.as = "Closing" -> <<"closing", <<terminal.pair, terminal.pair + 1>>>>
       [] terminal.as = "Opening" -> <<"opening", <<terminal.from, terminal.to>>>>
       [] OTHER                   -> <<"terminal", <<terminal.from, terminal.to>>>>}

StartsCell(index) == index > 1 /\ lowered[index - 1].as \in {"BOF",
                                                             "EOC"} /\ lowered[index].as # "EOF"

CellKeys(index) ==
  IF StartsCell(index) THEN DOMAIN transfer \cap {<<"cell", <<lowered[index].from>>>>} ELSE {}

Taken(keys) == IF keys = {} THEN <<>> ELSE transfer[CHOOSE key \in keys : TRUE]

Collect ==
  /\ outcome = "lowering" /\ work = <<>>
  /\ outcome' = "placing"
  /\ transfer' = from_source
  /\ UNCHANGED <<parse, work, lowered, placed>>

Visit ==
  LET index == Len(placed) + 1
  IN  /\ outcome = "placing" /\ index <= Len(lowered)
      /\ \E cell_keys \in {CellKeys(index)}, keys \in {Keys(lowered[index])} :
           /\ placed' = Append(placed, [lead |-> Taken(cell_keys), trail |-> Taken(keys)])
           /\ transfer' = [owner \in DOMAIN transfer \ (cell_keys \cup keys) |-> transfer[owner]]
      /\ UNCHANGED <<parse, work, lowered, outcome>>

\* set_closing_comments: what follows the last cell goes in front of the end.
Close ==
  /\ outcome = "placing" /\ Len(placed) = Len(lowered)
  /\ outcome' = "lowered"
  /\ placed' = [placed EXCEPT ![Len(placed)].lead = Taken(DOMAIN transfer \cap {<<"file", <<>>>>})]
  /\ transfer' = <<>>
  /\ UNCHANGED <<parse, work, lowered>>

TransferInit == Init /\ transfer = <<>> /\ placed = <<>>

NoTransfer == UNCHANGED <<transfer, placed>>

Next ==
  \/ LowerExpr /\ NoTransfer
  \/ LowerStatement /\ NoTransfer
  \/ LowerArguments /\ NoTransfer
  \/ LowerBranch /\ NoTransfer
  \/ LowerLoop /\ NoTransfer
  \/ LowerNew /\ NoTransfer
  \/ Migrate /\ NoTransfer
  \/ Reject /\ NoTransfer
  \/ Collect
  \/ Visit
  \/ Close

Spec == TransferInit /\ [][Next]_vars

---------------------------------------------------------------------------
(***************************************************************************)
(* Correctness.                                                            *)
(***************************************************************************)
(***************************************************************************)
(* Type invariant: terminals lie in the source, and every terminal the     *)
(* walk has passed was asked once.                                         *)
(***************************************************************************)
TypeOK ==
  /\ outcome \in {"lowering", "unsupported", "placing", "lowered"}
  /\ \A i \in DOMAIN lowered :
       /\ lowered[i].as \notin Products
       /\ 0 <= lowered[i].from /\ lowered[i].from <= lowered[i].to /\ lowered[i].to <= parse.length
  /\ Len(placed) <= Len(lowered)
  /\ outcome \in {"placing", "lowered"} => work = <<>>

Units(from, to) == [k \in 1 .. to - from |-> from + k]

(***************************************************************************)
(* The clause that is known to lose its value (except_do looks for the     *)
(* first expression, and finds the exception).                             *)
(***************************************************************************)
HasExcept == \E i \in DOMAIN lowered : lowered[i].as = "except"

TokenUnits ==
  SelectSeq(Units(0, parse.length),
            LAMBDA u : \E i \in Tokens : Bounds(i)[1] < u /\ u <= Bounds(i)[2])

LoweredUnits == FlattenSeq([i \in DOMAIN lowered |-> Units(lowered[i].from, lowered[i].to)])

(***************************************************************************)
(* Every token of the source is in the typed graph once, and printed in    *)
(* its place; an appended closer is not.                                   *)
(***************************************************************************)
TokensKept == outcome = "lowered" /\ ~ HasExcept => LoweredUnits = TokenUnits

(***************************************************************************)
(* The same of every construct.                                            *)
(***************************************************************************)
AllTokensKept == outcome = "lowered" => LoweredUnits = TokenUnits

(***************************************************************************)
(* Comments and tokens together are printed as they were written: each     *)
(* comment is placed, on one terminal, and on the right side of it.        *)
(***************************************************************************)
CommentUnits(comments) ==
  FlattenSeq([k \in DOMAIN comments |-> Units(Bounds(comments[k])[1], Bounds(comments[k])[2])])

CommentsKept ==
  outcome = "lowered" /\ ~ HasExcept =>
    FlattenSeq([i \in DOMAIN lowered |->
      CommentUnits(placed[i].lead) \o Units(lowered[i].from, lowered[i].to)
        \o CommentUnits(placed[i].trail)]) = Units(0, parse.length)

(***************************************************************************)
(* Nothing of the source is lost, doubled or moved on its way through the  *)
(* typed graph.                                                            *)
(***************************************************************************)
TextKept == TokensKept /\ CommentsKept

(***************************************************************************)
(* Cells tile the source: what is printed between two ends of cells lies   *)
(* between them in the source, and the last one ends with it.              *)
(***************************************************************************)
Ends == { i \in DOMAIN lowered : lowered[i].as \in {"BOF", "EOC", "EOF"} }

CellsTile ==
  outcome = "lowered" =>
    /\ \A i \in DOMAIN lowered, end \in Ends :
         /\ i < end => lowered[i].to <= lowered[end].from
         /\ end < i => lowered[end].to <= lowered[i].from
    /\ \E end \in Ends : lowered[end].from = parse.length
         /\ lowered[end].as = IF \A other \in Ends : lowered[other].as # "EOC" THEN "EOF" ELSE "EOC"

(***************************************************************************)
(* Every construct of a program has a rule, but a collection in braces     *)
(* as the body of a loop: loop_body takes it for the keyword list.         *)
(***************************************************************************)
ProgramsLower ==
  outcome = "unsupported" /\ parse.program => Head(work).as = "list"

(***************************************************************************)
(* Every construct of a program has a rule.                                *)
(***************************************************************************)
AllProgramsLower == outcome = "unsupported" => ~ parse.program

=============================================================================
