---------------------------- MODULE CellFraming ----------------------------
(***************************************************************************)
(* What the shell front end relies on when it cuts a cell out of its       *)
(* buffer and goes on with the rest: how lexing and framing a text         *)
(* (frame_recovering, end_span) and parsing its first cell agree with the  *)
(* text itself, with its first cell alone, and with a longer text.         *)
(***************************************************************************)
EXTENDS CellParser

\* Submitted text ends in a line feed.
Whole(text) == text = <<>> \/ EndsWithNewline(text)

\* Text that cannot be lexed has something unfinished in it, and text that can
\* has when there is something to parse.
ASSUME CodeAssumption ==
  \A t \in Texts : Whole(t) =>
    Unfinished(t) = ~ (/\ Frame(t).fatal = "none"
                       /\ ~ HasCell(Frame(t)) \/ FirstOutcome(t) = "empty")

\* Nothing but layout comes after the only cell.
ASSUME OnlyCellAssumption ==
  \A t \in Texts :
    Frame(t).fatal = "none" /\ CellComplete(Frame(t)) /\ ~ HasFollowing(Frame(t))
      /\ ~ Frame(t).diagnosed /\ FirstOutcome(t) = "syntax" /\ ~ MixesComments(t) =>
        \A p \in Frame(t).cells[1].end + 1 .. Len(t) : t[p] \in Layout

\* A fatal error that more text cannot repair stays when there is more text,
\* and so does the error of a first cell that is ended, except while a block
\* comment is open.
Hopeless(t) ==
  \/ Frame(t).fatal # "none" /\ Frame(t).fatal \notin IncompleteLexErrors
  \/ /\ Frame(t).fatal = "none" /\ HasCell(Frame(t))
     /\ FirstOutcome(t) \notin {"empty", "syntax"}
     /\ ErrorState(Frame(t), FirstOutcome(t)) = "Invalid"

ASSUME HopelessAssumption ==
  \A t \in Texts : Whole(t) =>
    \A n \in 0 .. Len(t) :
      LET front == SubSeq(t, 1, n)
      IN  Whole(front) /\ Hopeless(front) =>
            Hopeless(t) \/ Frame(t).fatal \in IncompleteLexErrors

=============================================================================
