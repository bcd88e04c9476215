--------------------------- MODULE MCTokenStorage ---------------------------
(***************************************************************************)
(* Model checking of TokenStorage, and of its refinement of TokenValues:   *)
(* a stream's value is what can be read from its cell down.  It is kept in *)
(* a variable of its own so that TLC computes it once for each state.      *)
(***************************************************************************)
EXTENDS TokenStorage, TLC

VARIABLE value

RECURSIVE ValueOf(_)
ValueOf(c) ==
  [i \in DOMAIN heap[c] |->
     IF heap[c][i].atom
     THEN [atom |-> TRUE]
     ELSE [atom |-> FALSE, kind |-> heap[c][i].kind, open |-> heap[c][i].open,
           stream |-> ValueOf(heap[c][i].stream)]]

Reading == [x \in Roots |-> IF root[x] = NoCell THEN NoCell ELSE ValueOf(root[x])]

MCInit == Init /\ value = Reading
MCNext == Next /\ value' = Reading'
MCSpec == MCInit /\ [][MCNext]_<<vars, value>>

Values == INSTANCE TokenValues WITH Absent <- NoCell, value <- value,
                                    position <- position, kin <- kin

(***************************************************************************)
(* Sharing cannot be observed: streams and cursors behave as if each owned *)
(* its tokens (token_stream.rs:699).                                       *)
(***************************************************************************)
StreamsAreValues == Values!Spec

Symmetry == Permutations(Cells) \cup Permutations(Streams) \cup Permutations(Cursors)

=============================================================================
