---------------------------- MODULE TokenStorage ----------------------------
(***************************************************************************)
(* The storage behind TokenStream (lex/token_stream.rs) and ParseStream    *)
(* (parser/parse.rs).  A stream is a counted reference to a cell that      *)
(* holds its trees; a group's contents are a stream of their own, so a     *)
(* cell refers to further cells.  Forking copies the reference only.  A    *)
(* change goes through data_mut (Arc::make_mut) in every stream on the way *)
(* to the one it changes: a cell with a single reference is changed in     *)
(* place, any other one is copied first, and the copy refers to the same   *)
(* cells below.                                                            *)
(*                                                                         *)
(* References are counted by looking at them; a cell nothing refers to is  *)
(* freed by the step that drops the last reference, and reads as an empty  *)
(* stream.  Of a cell only the trees are kept: its comments travel with    *)
(* them (see TokenStream) and are reached by the same data_mut.            *)
(***************************************************************************)
EXTENDS Naturals, Sequences, FiniteSets

CONSTANTS Streams, Cursors,    \* the values of type TokenStream and ParseStream
          Cells,               \* places in the heap; bounds it
          Kinds,               \* delimiters
          NoCell,
          MaxTrees             \* bounds the trees in the heap when one is pushed

ASSUME StorageAssumption ==
  /\ Streams \cap Cursors = {}
  /\ NoCell \notin Cells

VARIABLES heap,      \* cell |-> the trees of its TokenStreamData
          root,      \* the cell a stream or cursor refers to, or NoCell
          position,  \* ParseStream::position
          kin        \* history: the cursors forked from one ParseStream::new

vars == <<heap, root, position, kin>>

Roots == Streams \cup Cursors

Tree ==
  [atom : {TRUE}, kind : {NoCell}, open : {FALSE}, stream : {NoCell}]
    \cup [atom : {FALSE}, kind : Kinds, open : BOOLEAN, stream : Cells]

Empty == <<>>

Atom == [atom |-> TRUE, kind |-> NoCell, open |-> FALSE, stream |-> NoCell]

Group(kind, open, cell) ==
  [atom |-> FALSE, kind |-> kind, open |-> open, stream |-> cell]

LastTree(trees) == trees[Len(trees)]

(***************************************************************************)
(* The cells found by following `next`, a set of cells for each cell, from *)
(* those in `from`.                                                        *)
(***************************************************************************)
ClosedUnder(next, S) == \A c \in S : next[c] \subseteq S

Closure(next, from) ==
  { c \in Cells : \A S \in SUBSET Cells : from \subseteq S /\ ClosedUnder(next, S) => c \in S }

Below(h) == [c \in Cells |-> { h[c][i].stream : i \in 1 .. Len(h[c]) } \ {NoCell}]

Live(h, r) == Closure(Below(h), { r[x] : x \in Roots } \ {NoCell})

\* Dropping the last reference to a cell frees it, and so on below it.
Freed(h, r) ==
  LET live == Live(h, r)
  IN  [c \in Cells |-> IF c \in live THEN h[c] ELSE Empty]

\* The cells whose contents stream or cursor x reads.
Seen(x) == Closure(Below(heap), {root[x]} \ {NoCell})

\* Mutant of Shared: the references of cursors do not count.
CursorsForgottenMutant(c) ==
  \/ \E x, y \in Streams : x # y /\ root[x] = c /\ root[y] = c
  \/ \E x \in Streams, d \in Cells : root[x] = c /\ c \in Below(heap)[d]
  \/ \E d, e \in Cells : \E i \in 1 .. Len(heap[d]), j \in 1 .. Len(heap[e]) :
       heap[d][i].stream = c /\ heap[e][j].stream = c /\ (d # e \/ i # j)

\* Arc::strong_count is more than one.
Shared(c) ==
  \/ \E x, y \in Roots : x # y /\ root[x] = c /\ root[y] = c
  \/ \E x \in Roots, d \in Cells : root[x] = c /\ c \in Below(heap)[d]
  \/ \E d, e \in Cells : \E i \in 1 .. Len(heap[d]), j \in 1 .. Len(heap[e]) :
       heap[d][i].stream = c /\ heap[e][j].stream = c /\ (d # e \/ i # j)

(***************************************************************************)
(* Where an operation goes from a stream: nowhere, into its last group     *)
(* while that is unclosed, or into its last group in any case.             *)
(***************************************************************************)
Nowhere == [c \in Cells |-> {}]

\* Mutant of IntoUnclosed: closed groups take further trees too.
IntoClosedMutant ==
  [c \in Cells |-> IF heap[c] # <<>> /\ ~ LastTree(heap[c]).atom
                   THEN {LastTree(heap[c]).stream} ELSE {}]

IntoUnclosed ==
  [c \in Cells |-> IF heap[c] # <<>> /\ LastTree(heap[c]).open
                   THEN {LastTree(heap[c]).stream} ELSE {}]

IntoLast ==
  [c \in Cells |-> IF heap[c] # <<>> /\ ~ LastTree(heap[c]).atom
                   THEN {LastTree(heap[c]).stream} ELSE {}]

Path(x, way) == Closure(way, {root[x]})

\* Mutant of Copied: the reference a copy adds to the cell below is missed.
CountedBeforeMutant(x, way) == { c \in Path(x, way) : Shared(c) }

(***************************************************************************)
(* make_mut copies the shared cells; the copy of one cell is a second      *)
(* reference to the next, which is then copied as well.                    *)
(***************************************************************************)
Copied(x, way) == Closure(way, { c \in Path(x, way) : Shared(c) })

Copies(x, way) ==
  { f \in [Copied(x, way) -> Cells \ Live(heap, root)] :
      \A c, d \in Copied(x, way) : f[c] = f[d] => c = d }

Moved(f, c) == IF c \in DOMAIN f THEN f[c] ELSE c

Redirected(f, way, c, data) ==
  IF way[c] = {} THEN data
  ELSE [data EXCEPT ![Len(data)].stream = Moved(f, LastTree(heap[c]).stream)]

\* The heap once the cell `at` of the path holds `data`.
Rewritten(path, way, f, at, data) ==
  [d \in Cells |->
     IF \E c \in path : Moved(f, c) = d
     THEN LET c == CHOOSE c \in path : Moved(f, c) = d
          IN  Redirected(f, way, c, IF c = at THEN data ELSE heap[c])
     ELSE heap[d]]

\* A change of stream x; `others` says where every other root refers to after
\* it.  (Quantifying over one heap makes TLC compute it once.)
Change(x, way, at, data, others) ==
  \E f \in Copies(x, way) :
    \E h \in {Rewritten(Path(x, way), way, f, at, data)} :
      /\ root' = [others EXCEPT ![x] = Moved(f, root[x])]
      /\ heap' = Freed(h, [others EXCEPT ![x] = Moved(f, root[x])])
      /\ UNCHANGED <<position, kin>>

----------------------------------------------------------------------------
Has(x) == root[x] # NoCell

Fresh == Cells \ Live(heap, root)

Init ==
  /\ heap = [c \in Cells |-> Empty]
  /\ root = [x \in Roots |-> NoCell]
  /\ position = [k \in Cursors |-> 0]
  /\ kin = [k \in Cursors |-> {k}]

\* TokenStream::new.
New(x) ==
  /\ ~ Has(x)
  /\ \E c \in Fresh : root' = [root EXCEPT ![x] = c]
  /\ UNCHANGED <<heap, position, kin>>

\* TokenStream::fork and clone.
Fork(x, y) ==
  /\ Has(x) /\ ~ Has(y)
  /\ root' = [root EXCEPT ![y] = root[x]]
  /\ UNCHANGED <<heap, position, kin>>

\* The trees in the heap.
Places == UNION { {c} \X (1 .. Len(heap[c])) : c \in Cells }

Pushed(x, tree, others) ==
  \E at \in Path(x, IntoUnclosed) :
    /\ IntoUnclosed[at] = {}
    /\ Cardinality(Places) < MaxTrees
    /\ Change(x, IntoUnclosed, at, Append(heap[at], tree), others)

\* push of an identifier, literal or punctuation.
Push(x) ==
  /\ Has(x)
  /\ Pushed(x, Atom, root)

\* push of a TokenGroup made of stream y, which moves into it.
PushGroup(x, y, kind, open) ==
  /\ x # y /\ Has(x) /\ Has(y)
  /\ Pushed(x, Group(kind, open, root[y]), [root EXCEPT ![y] = NoCell])

\* The streams of the path whose last group this call could close.
Completable(x, kind) ==
  { c \in Path(x, IntoLast) : /\ heap[c] # <<>>
                              /\ LastTree(heap[c]).open
                              /\ LastTree(heap[c]).kind = kind }

(***************************************************************************)
(* complete_last_group: the innermost unclosed group of the kind, looked   *)
(* for through closed ones too; data_mut runs on the whole path even when  *)
(* it finds none.                                                          *)
(***************************************************************************)
CompleteLastGroup(x, kind) ==
  /\ Has(x)
  /\ \/ /\ Completable(x, kind) = {}
        /\ Change(x, IntoLast, root[x], heap[root[x]], root)
     \/ \E at \in Completable(x, kind) :
          /\ Closure(IntoLast, IntoLast[at]) \cap Completable(x, kind) = {}
          /\ Change(x, IntoLast, at,
                    [heap[at] EXCEPT ![Len(heap[at])].open = FALSE], root)

WithoutLast(trees) == SubSeq(trees, 1, Len(trees) - 1)

\* pop, the tree being dropped.
Pop(x) ==
  /\ Has(x)
  /\ Change(x, Nowhere, root[x], WithoutLast(heap[root[x]]), root)

\* pop of a group, whose stream the caller keeps as y (into_stream).
PopStream(x, y) ==
  /\ Has(x) /\ ~ Has(y)
  /\ heap[root[x]] # <<>> /\ ~ LastTree(heap[root[x]]).atom
  /\ Change(x, Nowhere, root[x], WithoutLast(heap[root[x]]),
            [root EXCEPT ![y] = LastTree(heap[root[x]]).stream])

----------------------------------------------------------------------------
\* ParseStream::new, which takes the stream.
Open(k, x) ==
  /\ ~ Has(k) /\ Has(x)
  /\ root' = [root EXCEPT ![k] = root[x], ![x] = NoCell]
  /\ position' = [position EXCEPT ![k] = 0]
  /\ UNCHANGED <<heap, kin>>

\* Mutant of ForkCursor: the fork reads a copy of the tokens.
CopyingForkMutant(k, l) ==
  /\ Has(k) /\ ~ Has(l)
  /\ \E c \in Fresh : /\ root' = [root EXCEPT ![l] = c]
                      /\ heap' = [heap EXCEPT ![c] = heap[root[k]]]
  /\ position' = [position EXCEPT ![l] = position[k]]
  /\ kin' = [m \in Cursors |-> IF m \in kin[k] \cup {l} THEN kin[k] \cup {l} ELSE kin[m]]

\* ParseStream::fork.
ForkCursor(k, l) ==
  /\ Has(k) /\ ~ Has(l)
  /\ root' = [root EXCEPT ![l] = root[k]]
  /\ position' = [position EXCEPT ![l] = position[k]]
  /\ kin' = [m \in Cursors |-> IF m \in kin[k] \cup {l} THEN kin[k] \cup {l} ELSE kin[m]]
  /\ UNCHANGED heap

Trees(k) == heap[root[k]]

Remaining(k) == Has(k) /\ position[k] < Len(Trees(k))

\* next: a clone of the token, which the caller drops here.
NextToken(k) ==
  /\ Remaining(k)
  /\ position' = [position EXCEPT ![k] = @ + 1]
  /\ UNCHANGED <<heap, root, kin>>

\* next on a group, whose contents the caller goes on with as x.
NextGroup(k, x) ==
  /\ Remaining(k) /\ ~ Has(x)
  /\ ~ Trees(k)[position[k] + 1].atom
  /\ root' = [root EXCEPT ![x] = Trees(k)[position[k] + 1].stream]
  /\ position' = [position EXCEPT ![k] = @ + 1]
  /\ UNCHANGED <<heap, kin>>

\* TokenStream::parse: the remaining tokens become a stream of their own.
Collect(k, x) ==
  /\ Has(k) /\ ~ Has(x)
  /\ \E c \in Fresh :
       /\ root' = [root EXCEPT ![x] = c]
       /\ heap' = [heap EXCEPT ![c] = SubSeq(Trees(k), position[k] + 1, Len(Trees(k)))]
  /\ position' = [position EXCEPT ![k] = Len(Trees(k))]
  /\ UNCHANGED kin

\* Mutant of AdvanceTo: without its assertion.
UncheckedMutant(k, l) ==
  /\ Has(k) /\ Has(l)
  /\ position' = [position EXCEPT ![k] = position[l]]
  /\ UNCHANGED <<heap, root, kin>>

\* Mutant of AdvanceTo: resumes at the last token the other cursor read.
RereadMutant(k, l) ==
  /\ Has(k) /\ Has(l) /\ root[k] = root[l]
  /\ position' = [position EXCEPT ![k] = position[l] - 1]
  /\ UNCHANGED <<heap, root, kin>>

\* advance_to asserts that both cursors share their storage.
AdvanceTo(k, l) ==
  /\ Has(k) /\ Has(l) /\ root[k] = root[l]
  /\ position' = [position EXCEPT ![k] = position[l]]
  /\ UNCHANGED <<heap, root, kin>>

\* The end of a stream's or cursor's life.
Drop(x) ==
  /\ Has(x)
  /\ root' = [root EXCEPT ![x] = NoCell]
  /\ heap' = Freed(heap, root')
  /\ IF x \in Cursors
     THEN /\ position' = [position EXCEPT ![x] = 0]
          /\ kin' = [m \in Cursors |-> IF m = x THEN {x} ELSE kin[m] \ {x}]
     ELSE UNCHANGED <<position, kin>>

Next ==
  \/ \E x \in Streams : \/ New(x)
                        \/ Push(x)
                        \/ Pop(x)
                        \/ \E kind \in Kinds : CompleteLastGroup(x, kind)
  \/ \E x, y \in Streams : \/ Fork(x, y)
                           \/ PopStream(x, y)
                           \/ \E kind \in Kinds, open \in BOOLEAN : PushGroup(x, y, kind, open)
  \/ \E k \in Cursors, x \in Streams : Open(k, x) \/ NextGroup(k, x) \/ Collect(k, x)
  \/ \E k \in Cursors : NextToken(k)
  \/ \E k, l \in Cursors : ForkCursor(k, l) \/ AdvanceTo(k, l)
  \/ \E x \in Roots : Drop(x)

Spec == Init /\ [][Next]_vars

----------------------------------------------------------------------------
TypeOK ==
  /\ heap \in [Cells -> Seq(Tree)]
  /\ root \in [Roots -> Cells \cup {NoCell}]
  /\ position \in [Cursors -> Nat]
  /\ kin \in [Cursors -> SUBSET Cursors]

\* What x reads, in this state and in the next.
Untouched(x) ==
  /\ root'[x] = root[x]
  /\ \A c \in Seen(x) : heap'[c] = heap[c]

\* x exists before and after the step.
Lives(x) == Has(x) /\ root'[x] # NoCell

(***************************************************************************)
(* "Mutating either stream preserves the other stream" (fork,              *)
(* token_stream.rs:739): a step changes what at most one stream or cursor  *)
(* reads, however deep the storage it shares with others.                  *)
(***************************************************************************)
OthersUntouched ==
  [][\A x, y \in Roots : x # y /\ Lives(x) /\ Lives(y) => Untouched(x) \/ Untouched(y)]_vars

(***************************************************************************)
(* A ParseStream is a "cursor over one immutable token stream"             *)
(* (parse.rs:248): while it lives its tokens do not change, whatever       *)
(* becomes of the streams that share them.                                 *)
(***************************************************************************)
TokensImmutable ==
  [][\A k \in Cursors : Lives(k) => Untouched(k)]_vars

(***************************************************************************)
(* A cursor never stands past the end of its tokens, wherever it was       *)
(* advanced to; ExactSizeIterator and every slice of the remaining tokens  *)
(* rely on it (parse.rs:405).                                              *)
(***************************************************************************)
PositionsInTokens ==
  \A k \in Cursors : Has(k) => position[k] <= Len(Trees(k))

(***************************************************************************)
(* advance_to never panics for a cursor and its forks (parse.rs:289): they *)
(* share their storage for as long as they live.                           *)
(***************************************************************************)
ForksShareStorage ==
  \A k \in Cursors : \A l \in kin[k] : Has(k) /\ Has(l) => root[k] = root[l]

(***************************************************************************)
(* Sharing cannot be seen: neither by whom a step does not concern, nor by *)
(* a cursor.                                                               *)
(***************************************************************************)
SharingUnseen == OthersUntouched /\ TokensImmutable

(***************************************************************************)
(* A cursor stands in its tokens, and may be moved to any of its forks.    *)
(***************************************************************************)
CursorsSound == PositionsInTokens /\ ForksShareStorage

=============================================================================
