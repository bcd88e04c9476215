--------------------------- MODULE EditedDocument ---------------------------
(***************************************************************************)
(* What RealtimeParser (migration/treesitter.rs) promises of a document    *)
(* that is edited: "The update is transactional" (treesitter.rs:167).      *)
(* There is no tree that is edited and parsed again here, and there are no *)
(* intermediate steps: an edit that succeeds makes of the document what a  *)
(* fresh parse of the new text is, at once, and one that fails leaves      *)
(* everything as it was.  IncrementalTree implements this.                 *)
(***************************************************************************)
EXTENDS Naturals

CONSTANTS
  Parses,       \* for each text, the document that a parse from nothing makes of it
  Accepted,     \* the texts that have one without an error
  OneEditAway,  \* for each text, the texts that one edit makes of it
  Length,       \* for each text, its length in bytes
  Failures

VARIABLES
  document,     \* its source and what was made of it
  changed,      \* the ranges of bytes reported as changed by the last edit
  result        \* of the last call, or "running"

vars == <<document, changed, result>>

Within(range, text) == range[1] <= range[2] /\ range[2] <= Length[text]

\* What a parse from nothing makes of its source.
Fresh(parsed) == parsed.source \in Accepted /\ parsed = Parses[parsed.source]

Init ==
  /\ Fresh(document)
  /\ changed = {}
  /\ result = "ok"

Call ==
  /\ result # "running" /\ result' = "running"
  /\ UNCHANGED <<document, changed>>

\* An edit outside the buffer fails without a step in between.
Refuse ==
  /\ result' \in Failures
  /\ UNCHANGED <<document, changed>>

Succeed ==
  /\ result = "running" /\ result' = "ok"
  /\ Fresh(document') /\ document'.source \in OneEditAway[document.source]
  /\ \A range \in changed' : Within(range, document'.source)

Next == Call \/ Refuse \/ Succeed

Spec == Init /\ [][Next]_vars

=============================================================================
