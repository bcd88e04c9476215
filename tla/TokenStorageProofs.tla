------------------------- MODULE TokenStorageProofs -------------------------
(***************************************************************************)
(* Proofs about TokenStorage, for any heap and any number of streams and   *)
(* cursors: copying by reference counts never lets a change of one stream  *)
(* be seen through another, however deep the storage they share.           *)
(*                                                                         *)
(* The argument does not follow paths.  The cells a stream reads are the   *)
(* least closed set around its root (ClosureLeast); the cells a change     *)
(* writes in place have one reference each, on the path of the change, so  *)
(* the live cells without them are a closed set around every other root    *)
(* (OthersAvoidWritten).                                                   *)
(***************************************************************************)
EXTENDS TokenStorage, SequenceTheorems, TLAPS

----------------------------------------------------------------------------
(* Closures. *)

\* A closure contains what it starts from.
LEMMA ClosureStart ==
  ASSUME NEW next, NEW from, NEW c \in Cells, c \in from
  PROVE  c \in Closure(next, from)
BY DEF Closure

\* A closure is the least closed set around what it starts from.
LEMMA ClosureLeast ==
  ASSUME NEW next, NEW from, NEW S \in SUBSET Cells, from \subseteq S, ClosedUnder(next, S)
  PROVE  Closure(next, from) \subseteq S
BY DEF Closure

\* A closure is closed.
LEMMA ClosureClosed ==
  ASSUME NEW next, NEW from, \A c \in Cells : next[c] \subseteq Cells
  PROVE  ClosedUnder(next, Closure(next, from))
<1>1. SUFFICES ASSUME NEW c \in Closure(next, from), NEW d \in next[c],
                      NEW S \in SUBSET Cells, from \subseteq S, ClosedUnder(next, S)
               PROVE  d \in Cells /\ d \in S
  BY DEF ClosedUnder, Closure
<1>2. c \in S
  BY <1>1 DEF Closure
<1>3. c \in Cells
  BY <1>1 DEF Closure
<1>. QED  BY <1>1, <1>2, <1>3 DEF ClosedUnder

\* Every cell of a closure but those it starts from is found from another.
LEMMA ClosurePredecessor ==
  ASSUME NEW next, NEW from \in SUBSET Cells, \A c \in Cells : next[c] \subseteq Cells,
         NEW d \in Closure(next, from), d \notin from
  PROVE  \E c \in Closure(next, from) : d \in next[c]
<1>1. SUFFICES ASSUME \A c \in Closure(next, from) : d \notin next[c]
               PROVE  FALSE
  OBVIOUS
<1>. DEFINE S == Closure(next, from) \ {d}
<1>2. S \in SUBSET Cells /\ from \subseteq S
  BY ClosureStart DEF Closure
<1>3. ClosedUnder(next, S)
  BY <1>1, ClosureClosed DEF ClosedUnder
<1>. QED  BY <1>2, <1>3, ClosureLeast

----------------------------------------------------------------------------
(* The shape of the heap. *)

\* The cells below a cell are cells.
LEMMA BelowCells ==
  ASSUME TypeOK, NEW c \in Cells
  PROVE  Below(heap)[c] \subseteq Cells
<1>1. heap[c] \in Seq(Tree)
  BY DEF TypeOK
<1>2. \A i \in 1 .. Len(heap[c]) : heap[c][i] \in Tree
  BY <1>1
<1>3. \A t \in Tree : t.stream \in Cells \cup {NoCell}
  BY DEF Tree
<1>. QED  BY <1>2, <1>3 DEF Below

\* The ways an operation can go.
Ways == {Nowhere, IntoUnclosed, IntoLast}

\* Wherever an operation goes, it goes to the stream of the last group.
LEMMA WayFacts ==
  ASSUME TypeOK, StorageAssumption, NEW way \in Ways, NEW c \in Cells, NEW d \in way[c]
  PROVE  /\ Len(heap[c]) \in 1 .. Len(heap[c])
         /\ ~ heap[c][Len(heap[c])].atom
         /\ heap[c][Len(heap[c])].stream = d
         /\ d \in Cells
         /\ d \in Below(heap)[c]
<1>1. heap[c] \in Seq(Tree)
  BY DEF TypeOK
<1>2. heap[c] # <<>> /\ d = LastTree(heap[c]).stream
      /\ (LastTree(heap[c]).open \/ ~ LastTree(heap[c]).atom)
  BY DEF Ways, Nowhere, IntoUnclosed, IntoLast
<1>3. Len(heap[c]) \in 1 .. Len(heap[c])
  BY <1>1, <1>2
<1>4. heap[c][Len(heap[c])] \in Tree
  BY <1>1, <1>3
<1>5. ~ heap[c][Len(heap[c])].atom /\ heap[c][Len(heap[c])].stream \in Cells
  BY <1>2, <1>4 DEF Tree, LastTree
<1>. QED  BY <1>2, <1>3, <1>5 DEF LastTree, Below, StorageAssumption

----------------------------------------------------------------------------
(* What a change writes. *)

\* The cells a change of x writes in place.
InPlace(x, way) == Path(x, way) \ Copied(x, way)

\* The live cells it leaves alone.
Kept(x, way) == Live(heap, root) \ InPlace(x, way)

\* The assumptions on a change, as every operation meets them.
ChangeOK(x, way, at, data, others) ==
  /\ x \in Roots /\ root[x] \in Cells
  /\ way \in Ways
  /\ at \in Cells
  /\ data \in Seq(Tree)
  /\ way[at] # {} => Len(data) \in 1 .. Len(data) /\ ~ data[Len(data)].atom
  /\ others \in [Roots -> Cells \cup {NoCell}]

\* A cell written in place has one reference: it is the root of x, or the
\* last tree of a cell on the path refers to it.
LEMMA InPlaceUnshared ==
  ASSUME TypeOK, StorageAssumption, NEW x \in Roots, root[x] \in Cells, NEW way \in Ways,
         NEW c \in InPlace(x, way)
  PROVE  /\ ~ Shared(c)
         /\ c \in Cells
         /\ \/ c = root[x]
            \/ \E d \in Path(x, way) : d \in Cells /\ c \in way[d]
<1>1. \A d \in Cells : way[d] \subseteq Cells
  BY WayFacts
<1>2. c \in Path(x, way) /\ c \in Cells /\ c \notin Copied(x, way)
  BY DEF InPlace, Path, Closure
<1>3. ~ Shared(c)
  BY <1>2, ClosureStart DEF Copied
<1>4. ASSUME c # root[x]
      PROVE  \E d \in Path(x, way) : d \in Cells /\ c \in way[d]
  <2>1. \E d \in Closure(way, {root[x]}) : c \in way[d]
    BY <1>1, <1>2, <1>4, ClosurePredecessor DEF Path
  <2>. QED  BY <2>1 DEF Path, Closure
<1>. QED  BY <1>2, <1>3, <1>4

\* The live cells a change does not write in place are closed under
\* references, and every root but that of x refers to one of them.
LEMMA OthersAvoidWritten ==
  ASSUME TypeOK, StorageAssumption, NEW x \in Roots, root[x] \in Cells, NEW way \in Ways
  PROVE  /\ ClosedUnder(Below(heap), Kept(x, way))
         /\ \A y \in Roots : y # x /\ root[y] # NoCell => root[y] \in Kept(x, way)
<1>. DEFINE live == Live(heap, root)
<1>1. \A c \in Cells : Below(heap)[c] \subseteq Cells
  BY BelowCells
<1>2. ClosedUnder(Below(heap), live)
  BY <1>1, ClosureClosed DEF Live
<1>3. ASSUME NEW c \in Kept(x, way), NEW d \in Below(heap)[c]
      PROVE  d \in Kept(x, way)
  <2>1. c \in Cells /\ c \in live /\ c \notin InPlace(x, way)
    BY <1>3 DEF Kept, Live, Closure
  <2>2. d \in live
    BY <1>2, <1>3, <2>1 DEF ClosedUnder
  <2>3. SUFFICES ASSUME d \in InPlace(x, way) PROVE FALSE
    BY <2>2 DEF Kept
  <2>4. ~ Shared(d)
    BY <2>3, InPlaceUnshared
  <2>5. CASE d = root[x]
    BY <1>3, <2>1, <2>4, <2>5 DEF Shared
  <2>6. CASE d # root[x]
    <3>1. PICK e \in Path(x, way) : e \in Cells /\ d \in way[e]
      BY <2>3, <2>6, InPlaceUnshared
    <3>2. /\ Len(heap[e]) \in 1 .. Len(heap[e])
          /\ heap[e][Len(heap[e])].stream = d
      BY <3>1, WayFacts
    <3>3. PICK i \in 1 .. Len(heap[c]) : heap[c][i].stream = d
      BY <1>3, <2>1 DEF Below
    <3>4. c = e
      BY <2>1, <2>4, <3>1, <3>2, <3>3 DEF Shared
    <3>5. c \in Copied(x, way)
      BY <2>1, <3>1, <3>4 DEF InPlace
    <3>6. ClosedUnder(way, Copied(x, way))
      <4>1. \A b \in Cells : way[b] \subseteq Cells
        BY WayFacts
      <4>. QED  BY <4>1, ClosureClosed DEF Copied
    <3>7. d \in Copied(x, way)
      BY <3>1, <3>4, <3>5, <3>6 DEF ClosedUnder
    <3>. QED  BY <2>3, <3>7 DEF InPlace
  <2>. QED  BY <2>5, <2>6
<1>4. ASSUME NEW y \in Roots, y # x, root[y] # NoCell
      PROVE  root[y] \in Kept(x, way)
  <2>1. root[y] \in Cells
    BY <1>4 DEF TypeOK
  <2>2. root[y] \in live
    BY <1>4, <2>1, ClosureStart DEF Live
  <2>3. SUFFICES ASSUME root[y] \in InPlace(x, way) PROVE FALSE
    BY <2>2 DEF Kept
  <2>4. ~ Shared(root[y])
    BY <2>3, InPlaceUnshared
  <2>5. root[y] # root[x]
    BY <1>4, <2>4 DEF Shared
  <2>6. PICK e \in Path(x, way) : e \in Cells /\ root[y] \in way[e]
    BY <2>3, <2>5, InPlaceUnshared
  <2>7. root[y] \in Below(heap)[e]
    BY <2>6, WayFacts
  <2>. QED  BY <2>4, <2>6, <2>7 DEF Shared
<1>. QED  BY <1>3, <1>4 DEF ClosedUnder

\* A change writes nothing else.
LEMMA KeptUnwritten ==
  ASSUME NEW x \in Roots, NEW way, NEW f \in Copies(x, way), NEW at, NEW data,
         NEW c \in Kept(x, way)
  PROVE  Rewritten(Path(x, way), way, f, at, data)[c] = heap[c]
<1>1. c \in Cells /\ c \in Live(heap, root) /\ c \notin InPlace(x, way)
  BY DEF Kept, Live, Closure
<1>2. DOMAIN f = Copied(x, way) /\ \A d \in Copied(x, way) : f[d] \notin Live(heap, root)
  BY DEF Copies
<1>3. \A d \in Path(x, way) : Moved(f, d) # c
  BY <1>1, <1>2 DEF Moved, InPlace
<1>. QED  BY <1>1, <1>3 DEF Rewritten

\* Freeing what no root refers to any more keeps what a root reads, when the
\* cells it reads are as they were.
LEMMA FreedKeepsReach ==
  ASSUME NEW h, NEW r, NEW y \in Roots, r[y] = root[y], root[y] # NoCell,
         NEW S \in SUBSET Cells, ClosedUnder(Below(heap), S), root[y] \in S,
         \A c \in S : h[c] = heap[c]
  PROVE  \A c \in Seen(y) : c \in Cells /\ Freed(h, r)[c] = heap[c]
<1>1. Seen(y) \subseteq S
  BY ClosureLeast DEF Seen
<1>2. ASSUME NEW T \in SUBSET Cells, { r[z] : z \in Roots } \ {NoCell} \subseteq T,
             ClosedUnder(Below(h), T)
      PROVE  Seen(y) \subseteq T
  <2>1. \A c \in S : Below(h)[c] = Below(heap)[c]
    BY DEF Below
  <2>2. ClosedUnder(Below(heap), S \cap T)
    BY <1>2, <2>1 DEF ClosedUnder
  <2>3. root[y] \in S \cap T
    BY <1>2
  <2>4. Seen(y) \subseteq S \cap T
    BY <2>2, <2>3, ClosureLeast DEF Seen
  <2>. QED  BY <2>4
<1>3. Seen(y) \subseteq Live(h, r)
  <2>1. Seen(y) \subseteq Cells
    BY DEF Seen, Closure
  <2>. QED  BY <1>2, <2>1 DEF Live, Closure
<1>. QED  BY <1>1, <1>3 DEF Freed

\* A change of x is not seen from any other root.
LEMMA ChangeUnseen ==
  ASSUME TypeOK, StorageAssumption, NEW x, NEW way, NEW at, NEW data, NEW others,
         ChangeOK(x, way, at, data, others), Change(x, way, at, data, others),
         NEW y \in Roots, y # x, root[y] # NoCell, others[y] = root[y]
  PROVE  Untouched(y)
<1>1. x \in Roots /\ root[x] \in Cells /\ way \in Ways /\ others \in [Roots -> Cells \cup {NoCell}]
  BY DEF ChangeOK
<1>2. PICK f \in Copies(x, way) :
        LET h == Rewritten(Path(x, way), way, f, at, data)
            r == [others EXCEPT ![x] = Moved(f, root[x])]
        IN  root' = r /\ heap' = Freed(h, r)
  BY DEF Change
<1>. DEFINE h == Rewritten(Path(x, way), way, f, at, data)
            r == [others EXCEPT ![x] = Moved(f, root[x])]
<1>3. r[y] = root[y]
  BY <1>1
<1>4. ClosedUnder(Below(heap), Kept(x, way)) /\ root[y] \in Kept(x, way)
  BY <1>1, OthersAvoidWritten
<1>5. Kept(x, way) \in SUBSET Cells
  BY DEF Kept, Live, Closure
<1>6. \A c \in Kept(x, way) : h[c] = heap[c]
  BY <1>1, KeptUnwritten
<1>7. \A c \in Seen(y) : Freed(h, r)[c] = heap[c]
  <2>1. SUFFICES ASSUME NEW g, g = h, NEW q, q = r
                 PROVE  \A c \in Seen(y) : Freed(g, q)[c] = heap[c]
    OBVIOUS
  <2>2. q[y] = root[y] /\ \A c \in Kept(x, way) : g[c] = heap[c]
    BY <1>3, <1>6, <2>1
  <2>. HIDE DEF h, r
  <2>. QED  BY <1>4, <1>5, <2>2, FreedKeepsReach
<1>. QED  BY <1>2, <1>3, <1>7 DEF Untouched

----------------------------------------------------------------------------
(* Types. *)

\* Replacing the contents of the last group of a sequence of trees.
LEMMA LastReplaced ==
  ASSUME NEW data \in Seq(Tree), NEW e \in Cells,
         Len(data) \in 1 .. Len(data), ~ data[Len(data)].atom
  PROVE  [data EXCEPT ![Len(data)].stream = e] \in Seq(Tree)
<1>1. data[Len(data)] \in [atom : {FALSE}, kind : Kinds, open : BOOLEAN, stream : Cells]
  <2>1. data[Len(data)] \in Tree
    OBVIOUS
  <2>. QED  BY <2>1 DEF Tree
<1>2. [data[Len(data)] EXCEPT !.stream = e] \in Tree
  BY <1>1 DEF Tree
<1>. QED  BY <1>2

\* Freeing cells keeps the type of the heap.
LEMMA FreedTyped ==
  ASSUME NEW h \in [Cells -> Seq(Tree)], NEW r
  PROVE  Freed(h, r) \in [Cells -> Seq(Tree)]
<1>1. Empty \in Seq(Tree)
  BY DEF Empty
<1>. QED  BY <1>1 DEF Freed

\* A change keeps the type of the heap and of the roots.
LEMMA ChangeTyped ==
  ASSUME TypeOK, StorageAssumption, NEW x, NEW way, NEW at, NEW data, NEW others,
         ChangeOK(x, way, at, data, others), Change(x, way, at, data, others)
  PROVE  TypeOK'
<1>1. x \in Roots /\ root[x] \in Cells /\ way \in Ways /\ data \in Seq(Tree)
      /\ others \in [Roots -> Cells \cup {NoCell}]
  BY DEF ChangeOK
<1>2. PICK f \in Copies(x, way) :
        LET h == Rewritten(Path(x, way), way, f, at, data)
            r == [others EXCEPT ![x] = Moved(f, root[x])]
        IN  root' = r /\ heap' = Freed(h, r)
  BY DEF Change
<1>3. \A c \in Cells : Moved(f, c) \in Cells
  BY DEF Moved, Copies
<1>4. ASSUME NEW c \in Cells, NEW new \in Seq(Tree),
             way[c] # {} => Len(new) \in 1 .. Len(new) /\ ~ new[Len(new)].atom
      PROVE  Redirected(f, way, c, new) \in Seq(Tree)
  <2>1. CASE way[c] = {}
    BY <2>1, <1>4 DEF Redirected
  <2>2. CASE way[c] # {}
    <3>1. PICK d \in way[c] : d \in Cells /\ LastTree(heap[c]).stream = d
      BY <1>1, <2>2, WayFacts DEF LastTree
    <3>2. Moved(f, LastTree(heap[c]).stream) \in Cells
      BY <1>3, <3>1
    <3>. QED  BY <1>4, <2>2, <3>2, LastReplaced DEF Redirected
  <2>. QED  BY <2>1, <2>2
<1>5. ASSUME NEW c \in Cells
      PROVE  /\ Redirected(f, way, c, heap[c]) \in Seq(Tree)
             /\ c = at => Redirected(f, way, c, data) \in Seq(Tree)
  <2>1. heap[c] \in Seq(Tree)
    BY DEF TypeOK
  <2>2. way[c] # {} => Len(heap[c]) \in 1 .. Len(heap[c]) /\ ~ heap[c][Len(heap[c])].atom
    BY <1>1, WayFacts
  <2>3. c = at /\ way[c] # {} => Len(data) \in 1 .. Len(data) /\ ~ data[Len(data)].atom
    BY DEF ChangeOK
  <2>4. Redirected(f, way, c, heap[c]) \in Seq(Tree)
    BY <1>4, <2>1, <2>2
  <2>5. c = at => Redirected(f, way, c, data) \in Seq(Tree)
    BY <1>1, <1>4, <2>3
  <2>. QED  BY <2>4, <2>5
<1>6. Path(x, way) \subseteq Cells
  BY DEF Path, Closure
<1>7. Rewritten(Path(x, way), way, f, at, data) \in [Cells -> Seq(Tree)]
  <2>1. SUFFICES ASSUME NEW d \in Cells
                 PROVE  Rewritten(Path(x, way), way, f, at, data)[d] \in Seq(Tree)
    BY DEF Rewritten
  <2>2. CASE \E c \in Path(x, way) : Moved(f, c) = d
    <3>1. PICK c \in Path(x, way) :
            Rewritten(Path(x, way), way, f, at, data)[d]
              = Redirected(f, way, c, IF c = at THEN data ELSE heap[c])
      BY <2>2 DEF Rewritten
    <3>. QED  BY <1>5, <1>6, <3>1
  <2>3. CASE ~ \E c \in Path(x, way) : Moved(f, c) = d
    BY <2>3 DEF Rewritten, TypeOK
  <2>. QED  BY <2>2, <2>3
<1>8. heap' \in [Cells -> Seq(Tree)]
  BY <1>2, <1>7, FreedTyped
<1>9. root' \in [Roots -> Cells \cup {NoCell}]
  BY <1>1, <1>2, <1>3
<1>10. position' = position /\ kin' = kin
  BY DEF Change
<1>. QED  BY <1>8, <1>9, <1>10 DEF TypeOK

----------------------------------------------------------------------------
(* The operations. *)

\* The step changes what stream x reads and nothing that another living
\* stream or cursor reads.
Changing(x) ==
  \E way, at, data, others :
    /\ ChangeOK(x, way, at, data, others)
    /\ Change(x, way, at, data, others)
    /\ \A y \in Roots \ {x} : Has(y) /\ others[y] # NoCell => others[y] = root[y]
    /\ \A k \in Cursors : others[k] = root[k]

\* A root that is there refers to a cell, whose trees are a sequence.
LEMMA Rooted ==
  ASSUME TypeOK, NEW x \in Roots, Has(x)
  PROVE  root[x] \in Cells /\ heap[root[x]] \in Seq(Tree)
BY DEF TypeOK, Has

\* A stream is no cursor.
LEMMA StreamFacts ==
  ASSUME StorageAssumption, NEW x \in Streams
  PROVE  x \in Roots /\ x \notin Cursors
BY DEF StorageAssumption, Roots

\* Appending a tree is a change of the stream.
LEMMA PushedChanging ==
  ASSUME TypeOK, StorageAssumption, NEW x \in Streams, Has(x), NEW tree \in Tree,
         NEW others \in [Roots -> Cells \cup {NoCell}], Pushed(x, tree, others),
         \A y \in Roots \ {x} : Has(y) /\ others[y] # NoCell => others[y] = root[y],
         \A k \in Cursors : others[k] = root[k]
  PROVE  Changing(x)
<1>1. PICK at \in Path(x, IntoUnclosed) :
        IntoUnclosed[at] = {} /\ Change(x, IntoUnclosed, at, Append(heap[at], tree), others)
  BY DEF Pushed
<1>2. at \in Cells /\ heap[at] \in Seq(Tree)
  BY DEF Path, Closure, TypeOK
<1>3. Append(heap[at], tree) \in Seq(Tree)
  BY <1>2
<1>4. ChangeOK(x, IntoUnclosed, at, Append(heap[at], tree), others)
  BY <1>1, <1>2, <1>3, Rooted, StreamFacts DEF ChangeOK, Ways
<1>. QED  BY <1>1, <1>4 DEF Changing

\* push of a token.
LEMMA PushChanging ==
  ASSUME TypeOK, StorageAssumption, NEW x \in Streams, Push(x)
  PROVE  Changing(x)
<1>1. Atom \in Tree
  BY DEF Atom, Tree
<1>2. root \in [Roots -> Cells \cup {NoCell}]
  BY DEF TypeOK
<1>. QED  BY <1>1, <1>2, PushedChanging DEF Push

\* push of a group made of stream y, which ends.
LEMMA PushGroupChanging ==
  ASSUME TypeOK, StorageAssumption, NEW x \in Streams, NEW y \in Streams,
         NEW kind \in Kinds, NEW open \in BOOLEAN, PushGroup(x, y, kind, open)
  PROVE  Changing(x)
<1>1. root[y] \in Cells
  BY Rooted, StreamFacts DEF PushGroup
<1>2. Group(kind, open, root[y]) \in Tree
  BY <1>1 DEF Group, Tree
<1>. DEFINE others == [root EXCEPT ![y] = NoCell]
<1>3. others \in [Roots -> Cells \cup {NoCell}]
  BY DEF TypeOK
<1>4. \A z \in Roots \ {x} : Has(z) /\ others[z] # NoCell => others[z] = root[z]
  BY DEF TypeOK
<1>5. \A k \in Cursors : others[k] = root[k]
  BY StreamFacts DEF TypeOK, Roots
<1>. QED  BY <1>2, <1>3, <1>4, <1>5, PushedChanging DEF PushGroup

\* complete_last_group.
LEMMA CompleteChanging ==
  ASSUME TypeOK, StorageAssumption, NEW x \in Streams, NEW kind \in Kinds,
         CompleteLastGroup(x, kind)
  PROVE  Changing(x)
<1>1. root \in [Roots -> Cells \cup {NoCell}] /\ Has(x) /\ x \in Roots
      /\ root[x] \in Cells /\ IntoLast \in Ways
  BY Rooted, StreamFacts DEF TypeOK, CompleteLastGroup, Ways
<1>2. CASE Completable(x, kind) = {} /\ Change(x, IntoLast, root[x], heap[root[x]], root)
  <2>1. heap[root[x]] \in Seq(Tree)
    BY <1>1, Rooted
  <2>2. IntoLast[root[x]] # {} =>
          Len(heap[root[x]]) \in 1 .. Len(heap[root[x]]) /\ ~ heap[root[x]][Len(heap[root[x]])].atom
    BY <1>1, WayFacts
  <2>3. ChangeOK(x, IntoLast, root[x], heap[root[x]], root)
    BY <1>1, <2>1, <2>2 DEF ChangeOK
  <2>. QED  BY <1>1, <1>2, <2>3 DEF Changing
<1>3. CASE \E at \in Completable(x, kind) :
             Change(x, IntoLast, at, [heap[at] EXCEPT ![Len(heap[at])].open = FALSE], root)
  <2>1. PICK at \in Completable(x, kind) :
          Change(x, IntoLast, at, [heap[at] EXCEPT ![Len(heap[at])].open = FALSE], root)
    BY <1>3
  <2>2. at \in Cells /\ heap[at] # <<>> /\ LastTree(heap[at]).open
    BY DEF Completable, Path, Closure
  <2>3. heap[at] \in Seq(Tree)
    BY <2>2 DEF TypeOK
  <2>4. Len(heap[at]) \in 1 .. Len(heap[at])
    BY <2>2, <2>3
  <2>5. heap[at][Len(heap[at])] \in Tree
    BY <2>3, <2>4
  <2>6. heap[at][Len(heap[at])] \in [atom : {FALSE}, kind : Kinds, open : BOOLEAN, stream : Cells]
    BY <2>2, <2>5 DEF LastTree, Tree
  <2>. DEFINE last == [heap[at][Len(heap[at])] EXCEPT !.open = FALSE]
              data == [heap[at] EXCEPT ![Len(heap[at])] = last]
  <2>7. last \in Tree /\ ~ last.atom
    BY <2>6 DEF Tree
  <2>8. data \in Seq(Tree) /\ Len(data) = Len(heap[at]) /\ data[Len(heap[at])] = last
    <3>. HIDE DEF last
    <3>. QED  BY <2>3, <2>4, <2>7
  <2>9. ChangeOK(x, IntoLast, at, data, root)
    <3>. HIDE DEF data, last
    <3>. QED  BY <1>1, <2>2, <2>4, <2>7, <2>8 DEF ChangeOK
  <2>10. Change(x, IntoLast, at, data, root)
    BY <2>1
  <2>. QED
    <3>. HIDE DEF data
    <3>. QED  BY <1>1, <2>9, <2>10 DEF Changing
<1>. QED  BY <1>2, <1>3 DEF CompleteLastGroup

\* The trees of a stream without the last.
LEMMA WithoutLastTyped ==
  ASSUME NEW trees \in Seq(Tree)
  PROVE  WithoutLast(trees) \in Seq(Tree)
<1>1. CASE trees = <<>>
  <2>1. WithoutLast(trees) = <<>>
    BY <1>1 DEF WithoutLast
  <2>. QED  BY <2>1
<1>2. CASE trees # <<>>
  BY <1>2 DEF WithoutLast
<1>. QED  BY <1>1, <1>2

\* pop of a tree that is dropped, or of a group that goes on as stream y.
LEMMA PopChanging ==
  ASSUME TypeOK, StorageAssumption, NEW x \in Streams,
         Pop(x) \/ \E y \in Streams : PopStream(x, y)
  PROVE  Changing(x)
<1>1. root \in [Roots -> Cells \cup {NoCell}] /\ Has(x) /\ x \in Roots
      /\ root[x] \in Cells /\ heap[root[x]] \in Seq(Tree)
  BY Rooted, StreamFacts DEF TypeOK, Pop, PopStream
<1>2. WithoutLast(heap[root[x]]) \in Seq(Tree)
  BY <1>1, WithoutLastTyped
<1>3. Nowhere \in Ways /\ Nowhere[root[x]] = {}
  BY <1>1 DEF Ways, Nowhere
<1>4. \A others \in [Roots -> Cells \cup {NoCell}] :
        ChangeOK(x, Nowhere, root[x], WithoutLast(heap[root[x]]), others)
  BY <1>1, <1>2, <1>3 DEF ChangeOK
<1>5. CASE Pop(x)
  BY <1>1, <1>4, <1>5 DEF Changing, Pop
<1>6. ASSUME NEW y \in Streams, PopStream(x, y)
      PROVE  Changing(x)
  <2>. DEFINE others == [root EXCEPT ![y] = LastTree(heap[root[x]]).stream]
  <2>1. LastTree(heap[root[x]]) \in Tree /\ ~ LastTree(heap[root[x]]).atom
    <3>1. Len(heap[root[x]]) \in 1 .. Len(heap[root[x]])
      BY <1>1, <1>6 DEF PopStream
    <3>. QED  BY <1>1, <1>6, <3>1 DEF PopStream, LastTree
  <2>2. LastTree(heap[root[x]]).stream \in Cells
    BY <2>1 DEF Tree
  <2>3. others \in [Roots -> Cells \cup {NoCell}]
    BY <1>1, <2>2
  <2>4. \A z \in Roots \ {x} : Has(z) /\ others[z] # NoCell => others[z] = root[z]
    BY <1>1, <1>6 DEF PopStream, Has
  <2>5. \A k \in Cursors : others[k] = root[k]
    BY <1>1, StreamFacts DEF Roots
  <2>6. Change(x, Nowhere, root[x], WithoutLast(heap[root[x]]), others)
    BY <1>6 DEF PopStream
  <2>. QED
    <3>. HIDE DEF others
    <3>. QED  BY <1>4, <2>3, <2>4, <2>5, <2>6 DEF Changing
<1>. QED  BY <1>5, <1>6

\* What a changing step leaves as it was.
LEMMA ChangingFacts ==
  ASSUME TypeOK, StorageAssumption, NEW x \in Streams, Changing(x)
  PROVE  /\ TypeOK'
         /\ \A y \in Roots : y # x /\ Lives(y) => Untouched(y)
         /\ \A k \in Cursors : root'[k] = root[k]
         /\ UNCHANGED <<position, kin>>
<1>1. PICK way, at, data, others :
        /\ ChangeOK(x, way, at, data, others)
        /\ Change(x, way, at, data, others)
        /\ \A y \in Roots \ {x} : Has(y) /\ others[y] # NoCell => others[y] = root[y]
        /\ \A k \in Cursors : others[k] = root[k]
  BY DEF Changing
<1>2. TypeOK'
  BY <1>1, ChangeTyped
<1>3. \A y \in Roots \ {x} : root'[y] = others[y]
  BY <1>1 DEF Change, ChangeOK
<1>4. ASSUME NEW y \in Roots, y # x, Lives(y)
      PROVE  Untouched(y)
  <2>1. others[y] = root[y] /\ root[y] # NoCell
    BY <1>1, <1>3, <1>4 DEF Lives, Has
  <2>. QED  BY <1>1, <1>4, <2>1, ChangeUnseen
<1>5. \A k \in Cursors : root'[k] = root[k]
  BY <1>1, <1>3, StreamFacts DEF Roots
<1>6. UNCHANGED <<position, kin>>
  BY <1>1 DEF Change
<1>. QED  BY <1>2, <1>4, <1>5, <1>6

\* The steps that change a stream.
StreamStep(x) ==
  \/ Push(x)
  \/ Pop(x)
  \/ \E kind \in Kinds : CompleteLastGroup(x, kind)
  \/ \E y \in Streams : \/ PopStream(x, y)
                        \/ \E kind \in Kinds, open \in BOOLEAN : PushGroup(x, y, kind, open)

LEMMA StreamStepChanging ==
  ASSUME TypeOK, StorageAssumption, NEW x \in Streams, StreamStep(x)
  PROVE  Changing(x)
BY PushChanging, PopChanging, CompleteChanging, PushGroupChanging DEF StreamStep

\* A stream or cursor reads live cells only.
LEMMA SeenLive ==
  ASSUME TypeOK, NEW y \in Roots, Has(y)
  PROVE  Seen(y) \subseteq Live(heap, root)
<1>1. ClosedUnder(Below(heap), Live(heap, root))
  BY BelowCells, ClosureClosed DEF Live
<1>2. root[y] \in Live(heap, root)
  BY Rooted, ClosureStart DEF Live, Has
<1>3. Live(heap, root) \in SUBSET Cells
  BY DEF Live, Closure
<1>4. {root[y]} \ {NoCell} \subseteq Live(heap, root)
  BY <1>2
<1>. QED  BY <1>1, <1>3, <1>4, ClosureLeast DEF Seen

\* A step that leaves the heap and every root that stays alone touches nothing.
LEMMA SameHeapUntouched ==
  ASSUME UNCHANGED heap, NEW y \in Roots, root'[y] = root[y]
  PROVE  Untouched(y)
BY DEF Untouched

\* A living root refers to one of the cells it reads.
LEMMA RootSeen ==
  ASSUME TypeOK, NEW y \in Roots, Has(y)
  PROVE  root[y] \in Seen(y)
BY Rooted, ClosureStart DEF Seen, Has

\* Dropping one root is not seen from the others.
LEMMA DropUntouched ==
  ASSUME TypeOK, NEW x \in Roots, Drop(x), NEW y \in Roots, y # x, Has(y)
  PROVE  Untouched(y)
<1>1. root' = [root EXCEPT ![x] = NoCell] /\ heap' = Freed(heap, root')
  BY DEF Drop
<1>2. root'[y] = root[y] /\ root[y] # NoCell
  BY <1>1 DEF TypeOK, Has
<1>3. ClosedUnder(Below(heap), Cells) /\ root[y] \in Cells
  BY BelowCells, Rooted DEF ClosedUnder
<1>4. SUFFICES ASSUME NEW r, r = root'
               PROVE  \A c \in Seen(y) : Freed(heap, r)[c] = heap[c]
  BY <1>1, <1>2 DEF Untouched
<1>5. r[y] = root[y]
  BY <1>2, <1>4
<1>. QED  BY <1>2, <1>3, <1>5, FreedKeepsReach

----------------------------------------------------------------------------
(* The steps that do not write what anyone reads. *)

QuietStep ==
  \/ \E x \in Streams : New(x)
  \/ \E x, y \in Streams : Fork(x, y)
  \/ \E k \in Cursors, x \in Streams : Open(k, x) \/ NextGroup(k, x) \/ Collect(k, x)
  \/ \E k \in Cursors : NextToken(k)
  \/ \E k, l \in Cursors : ForkCursor(k, l) \/ AdvanceTo(k, l)
  \/ \E x \in Roots : Drop(x)

LEMMA NextSteps ==
  ASSUME Next
  PROVE  (\E x \in Streams : StreamStep(x)) \/ QuietStep
BY DEF Next, StreamStep, QuietStep

\* Trees of a sequence of trees.
LEMMA TreeFacts ==
  ASSUME TypeOK, NEW k \in Cursors, Has(k), NEW i \in Nat, i < Len(Trees(k)),
         ~ Trees(k)[i + 1].atom
  PROVE  Trees(k)[i + 1].stream \in Cells
<1>1. Trees(k) \in Seq(Tree)
  BY Rooted DEF Trees, Roots
<1>2. Trees(k)[i + 1] \in Tree
  BY <1>1
<1>. QED  BY <1>2 DEF Tree

\* They keep the types.
LEMMA QuietTyped ==
  ASSUME TypeOK, StorageAssumption, QuietStep
  PROVE  TypeOK'
<1>. USE DEF TypeOK
<1>1. ASSUME NEW x \in Streams, New(x) PROVE TypeOK'
  BY <1>1 DEF New, Fresh
<1>2. ASSUME NEW x \in Streams, NEW y \in Streams, Fork(x, y) PROVE TypeOK'
  BY <1>2, StreamFacts DEF Fork
<1>3. ASSUME NEW k \in Cursors, NEW x \in Streams, Open(k, x) PROVE TypeOK'
  BY <1>3, StreamFacts DEF Open
<1>4. ASSUME NEW k \in Cursors, NEW x \in Streams, NextGroup(k, x) PROVE TypeOK'
  <2>1. position[k] \in Nat /\ Trees(k)[position[k] + 1].stream \in Cells
    BY <1>4, TreeFacts DEF NextGroup, Remaining
  <2>2. x \in Roots /\ root' \in [Roots -> Cells \cup {NoCell}]
    BY <1>4, <2>1, StreamFacts DEF NextGroup
  <2>3. position' \in [Cursors -> Nat]
    BY <1>4, <2>1 DEF NextGroup
  <2>4. UNCHANGED <<heap, kin>>
    BY <1>4 DEF NextGroup
  <2>. QED  BY <2>2, <2>3, <2>4
<1>5. ASSUME NEW k \in Cursors, NEW x \in Streams, Collect(k, x) PROVE TypeOK'
  <2>1. Trees(k) \in Seq(Tree) /\ position[k] \in Nat
    BY <1>5, Rooted DEF Trees, Roots, Collect
  <2>2. SubSeq(Trees(k), position[k] + 1, Len(Trees(k))) \in Seq(Tree)
    BY <2>1
  <2>3. PICK c \in Cells :
          /\ root' = [root EXCEPT ![x] = c]
          /\ heap' = [heap EXCEPT ![c] = SubSeq(Trees(k), position[k] + 1, Len(Trees(k)))]
    BY <1>5 DEF Collect, Fresh
  <2>4. position' \in [Cursors -> Nat] /\ kin' = kin
    BY <1>5, <2>1 DEF Collect
  <2>. HIDE DEF Trees
  <2>. QED  BY <2>2, <2>3, <2>4
<1>6. ASSUME NEW k \in Cursors, NextToken(k) PROVE TypeOK'
  BY <1>6 DEF NextToken
<1>7. ASSUME NEW k \in Cursors, NEW l \in Cursors, ForkCursor(k, l) PROVE TypeOK'
  BY <1>7 DEF ForkCursor, Roots
<1>8. ASSUME NEW k \in Cursors, NEW l \in Cursors, AdvanceTo(k, l) PROVE TypeOK'
  BY <1>8 DEF AdvanceTo
<1>9. ASSUME NEW x \in Roots, Drop(x) PROVE TypeOK'
  <2>1. heap' \in [Cells -> Seq(Tree)] /\ root' \in [Roots -> Cells \cup {NoCell}]
    BY <1>9, FreedTyped DEF Drop
  <2>2. CASE x \in Cursors
    <3>1. position' = [position EXCEPT ![x] = 0]
          /\ kin' = [m \in Cursors |-> IF m = x THEN {x} ELSE kin[m] \ {x}]
      BY <1>9, <2>2 DEF Drop
    <3>2. position' \in [Cursors -> Nat]
      BY <3>1
    <3>3. kin' \in [Cursors -> SUBSET Cursors]
      BY <2>2, <3>1
    <3>. QED  BY <2>1, <3>2, <3>3
  <2>3. CASE x \notin Cursors
    BY <1>9, <2>1, <2>3 DEF Drop
  <2>. QED  BY <2>2, <2>3
<1>. QED  BY <1>1, <1>2, <1>3, <1>4, <1>5, <1>6, <1>7, <1>8, <1>9 DEF QuietStep

\* No stream or cursor that stays sees one of them.
LEMMA QuietUntouched ==
  ASSUME TypeOK, StorageAssumption, QuietStep, NEW y \in Roots, Lives(y)
  PROVE  Untouched(y)
<1>1. Has(y) /\ root'[y] # NoCell
  BY DEF Lives
<1>2. ASSUME NEW x \in Streams, New(x) PROVE Untouched(y)
  BY <1>1, <1>2, SameHeapUntouched DEF New, Has, TypeOK
<1>3. ASSUME NEW x \in Streams, NEW z \in Streams, Fork(x, z) PROVE Untouched(y)
  BY <1>1, <1>3, SameHeapUntouched DEF Fork, Has, TypeOK
<1>4. ASSUME NEW k \in Cursors, NEW x \in Streams, Open(k, x) PROVE Untouched(y)
  BY <1>1, <1>4, SameHeapUntouched, StreamFacts DEF Open, Has, TypeOK
<1>5. ASSUME NEW k \in Cursors, NEW x \in Streams, NextGroup(k, x) PROVE Untouched(y)
  BY <1>1, <1>5, SameHeapUntouched DEF NextGroup, Has, TypeOK
<1>6. ASSUME NEW k \in Cursors, NEW x \in Streams, Collect(k, x) PROVE Untouched(y)
  <2>1. PICK c \in Fresh :
          /\ root' = [root EXCEPT ![x] = c]
          /\ heap' = [heap EXCEPT ![c] = SubSeq(Trees(k), position[k] + 1, Len(Trees(k)))]
    BY <1>6 DEF Collect
  <2>2. y # x
    BY <1>1, <1>6 DEF Collect
  <2>3. root'[y] = root[y]
    BY <2>1, <2>2 DEF TypeOK
  <2>4. \A d \in Seen(y) : d # c
    BY <1>1, <2>1, SeenLive DEF Fresh
  <2>5. \A d \in Seen(y) : heap'[d] = heap[d]
    BY <2>1, <2>4 DEF TypeOK, Seen, Closure
  <2>. QED  BY <2>3, <2>5 DEF Untouched
<1>7. ASSUME NEW k \in Cursors, NextToken(k) PROVE Untouched(y)
  BY <1>7, SameHeapUntouched DEF NextToken
<1>8. ASSUME NEW k \in Cursors, NEW l \in Cursors, ForkCursor(k, l) PROVE Untouched(y)
  BY <1>1, <1>8, SameHeapUntouched DEF ForkCursor, Has, TypeOK
<1>9. ASSUME NEW k \in Cursors, NEW l \in Cursors, AdvanceTo(k, l) PROVE Untouched(y)
  BY <1>9, SameHeapUntouched DEF AdvanceTo
<1>10. ASSUME NEW x \in Roots, Drop(x) PROVE Untouched(y)
  <2>1. y # x
    BY <1>1, <1>10 DEF Drop, TypeOK
  <2>. QED  BY <1>1, <1>10, <2>1, DropUntouched
<1>. QED  BY <1>2, <1>3, <1>4, <1>5, <1>6, <1>7, <1>8, <1>9, <1>10 DEF QuietStep

----------------------------------------------------------------------------
(* The theorems. *)

\* The storage keeps its types.
THEOREM StorageTyped == Spec => []TypeOK
<1>1. Init => TypeOK
  BY DEF Init, TypeOK, Empty
<1>2. TypeOK /\ StorageAssumption /\ [Next]_vars => TypeOK'
  <2>1. SUFFICES ASSUME TypeOK, StorageAssumption, [Next]_vars PROVE TypeOK'
    OBVIOUS
  <2>2. CASE UNCHANGED vars
    BY <2>1, <2>2 DEF TypeOK, vars
  <2>3. CASE Next
    BY <2>1, <2>3, NextSteps, StreamStepChanging, ChangingFacts, QuietTyped
  <2>. QED  BY <2>1, <2>2, <2>3
<1>. QED  BY <1>1, <1>2, StorageAssumption, PTL DEF Spec

\* One stream at most is changed by a step.
LEMMA StepUntouched ==
  ASSUME TypeOK, StorageAssumption, Next
  PROVE  \/ \A y \in Roots : Lives(y) => Untouched(y)
         \/ \E x \in Streams : \A y \in Roots : y # x /\ Lives(y) => Untouched(y)
<1>1. CASE QuietStep
  BY <1>1, QuietUntouched
<1>2. ASSUME NEW x \in Streams, StreamStep(x)
      PROVE  \A y \in Roots : y # x /\ Lives(y) => Untouched(y)
  BY <1>2, StreamStepChanging, ChangingFacts
<1>. QED  BY <1>1, <1>2, NextSteps

\* A change of one stream or cursor preserves every other one, whatever
\* storage they share (fork, token_stream.rs:739).
THEOREM ForksIndependent == Spec => OthersUntouched
<1>1. TypeOK /\ StorageAssumption /\ [Next]_vars =>
        [\A x, y \in Roots : x # y /\ Lives(x) /\ Lives(y) => Untouched(x) \/ Untouched(y)]_vars
  BY StepUntouched
<1>. QED  BY <1>1, StorageTyped, StorageAssumption, PTL DEF Spec, OthersUntouched

\* The tokens of a ParseStream never change (parse.rs:248).
THEOREM CursorsImmutable == Spec => TokensImmutable
<1>1. TypeOK /\ StorageAssumption /\ [Next]_vars =>
        [\A k \in Cursors : Lives(k) => Untouched(k)]_vars
  BY StepUntouched, StreamFacts DEF Roots
<1>. QED  BY <1>1, StorageTyped, StorageAssumption, PTL DEF Spec, TokensImmutable

\* A living cursor that is not touched keeps its tokens.
LEMMA TreesKept ==
  ASSUME TypeOK, NEW k \in Cursors, Has(k), Untouched(k)
  PROVE  Trees(k)' = Trees(k) /\ root'[k] = root[k]
BY RootSeen DEF Untouched, Trees, Roots

\* No cursor stands past the end of its tokens (parse.rs:405).
THEOREM CursorsInTokens == Spec => []PositionsInTokens
<1>. DEFINE Inv == TypeOK /\ PositionsInTokens
<1>1. Init => PositionsInTokens
  BY DEF Init, PositionsInTokens, Has, Roots
<1>2. TypeOK /\ TypeOK' /\ StorageAssumption /\ PositionsInTokens /\ [Next]_vars => PositionsInTokens'
  <2>1. SUFFICES ASSUME TypeOK, TypeOK', StorageAssumption, PositionsInTokens, [Next]_vars,
                        NEW m \in Cursors, Has(m)'
                 PROVE  (position[m] <= Len(Trees(m)))'
    BY DEF PositionsInTokens
  <2>2. m \in Roots /\ \A x \in Streams : x # m
    BY <2>1, StreamFacts DEF Roots
  <2>3. Has(m) => /\ Len(Trees(m)) \in Nat
                  /\ position[m] \in Nat
                  /\ position[m] <= Len(Trees(m))
    BY <2>1, <2>2, Rooted DEF PositionsInTokens, TypeOK, Trees
  <2>4. ASSUME Has(m), Untouched(m), position'[m] = position[m]
        PROVE  (position[m] <= Len(Trees(m)))'
    BY <2>1, <2>3, <2>4, TreesKept
  <2>5. CASE UNCHANGED vars
    BY <2>1, <2>3, <2>5 DEF vars, Has, Trees
  <2>6. ASSUME NEW x \in Streams, StreamStep(x)
        PROVE  (position[m] <= Len(Trees(m)))'
    <3>1. Changing(x)
      BY <2>1, <2>6, StreamStepChanging
    <3>2. root'[m] = root[m] /\ position' = position
      BY <2>1, <3>1, ChangingFacts
    <3>3. Lives(m)
      BY <2>1, <3>2 DEF Lives, Has
    <3>4. Untouched(m)
      BY <2>1, <2>2, <3>1, <3>3, ChangingFacts
    <3>. QED  BY <2>4, <3>2, <3>3, <3>4 DEF Lives
  <2>7. CASE QuietStep
    <3>1. Has(m) => Untouched(m)
      BY <2>1, <2>2, <2>7, QuietUntouched DEF Lives, Has
    <3>2. ASSUME Has(m), position'[m] = position[m]
          PROVE  (position[m] <= Len(Trees(m)))'
      BY <2>4, <3>1, <3>2
    <3>3. ASSUME NEW x \in Streams, New(x) PROVE (position[m] <= Len(Trees(m)))'
      BY <2>1, <2>2, <3>2, <3>3 DEF New, Has, TypeOK
    <3>4. ASSUME NEW x \in Streams, NEW y \in Streams, Fork(x, y)
          PROVE  (position[m] <= Len(Trees(m)))'
      BY <2>1, <2>2, <3>2, <3>4 DEF Fork, Has, TypeOK
    <3>5. ASSUME NEW k \in Cursors, NEW x \in Streams, Open(k, x)
          PROVE  (position[m] <= Len(Trees(m)))'
      <4>1. CASE m = k
        <5>1. position'[m] = 0
          BY <2>1, <3>5, <4>1 DEF Open, TypeOK
        <5>2. Len(Trees(m)') \in Nat
          <6>1. root'[m] \in Cells /\ heap' \in [Cells -> Seq(Tree)]
            BY <2>1, <2>2 DEF Has, TypeOK
          <6>2. heap'[root'[m]] \in Seq(Tree)
            BY <6>1
          <6>. QED  BY <6>2 DEF Trees
        <5>. QED  BY <5>1, <5>2
      <4>2. CASE m # k
        BY <2>1, <2>2, <3>2, <3>5, <4>2 DEF Open, Has, TypeOK
      <4>. QED  BY <4>1, <4>2
    <3>6. ASSUME NEW k \in Cursors, NEW x \in Streams, NextGroup(k, x)
          PROVE  (position[m] <= Len(Trees(m)))'
      <4>1. root'[m] = root[m] /\ Has(m) /\ heap' = heap
        BY <2>1, <2>2, <3>6 DEF NextGroup, Has, TypeOK
      <4>2. position'[m] = position[m] \/ (m = k /\ position'[m] = position[m] + 1)
        BY <2>1, <3>6 DEF NextGroup, TypeOK
      <4>3. m = k => position[m] < Len(Trees(m))
        BY <3>6 DEF NextGroup, Remaining
      <4>4. Trees(m)' = Trees(m)
        BY <4>1 DEF Trees
      <4>. QED  BY <2>3, <4>1, <4>2, <4>3, <4>4
    <3>7. ASSUME NEW k \in Cursors, NEW x \in Streams, Collect(k, x)
          PROVE  (position[m] <= Len(Trees(m)))'
      <4>1. root'[m] = root[m]
        BY <2>1, <2>2, <3>7 DEF Collect, TypeOK
      <4>2. Has(m)
        BY <2>1, <4>1 DEF Has
      <4>3. Trees(m)' = Trees(m)
        BY <2>1, <3>1, <4>2, TreesKept
      <4>4. position'[m] = position[m] \/ (m = k /\ position'[m] = Len(Trees(m)))
        BY <2>1, <3>7 DEF Collect, TypeOK
      <4>. QED  BY <2>3, <4>2, <4>3, <4>4
    <3>8. ASSUME NEW k \in Cursors, NextToken(k) PROVE (position[m] <= Len(Trees(m)))'
      <4>1. root' = root /\ heap' = heap
        BY <3>8 DEF NextToken
      <4>2. Has(m) /\ Trees(m)' = Trees(m)
        BY <2>1, <4>1 DEF Has, Trees
      <4>3. position'[m] = position[m] \/ (m = k /\ position'[m] = position[m] + 1)
        BY <2>1, <3>8 DEF NextToken, TypeOK
      <4>4. m = k => position[m] < Len(Trees(m))
        BY <3>8 DEF NextToken, Remaining
      <4>. QED  BY <2>3, <4>2, <4>3, <4>4
    <3>9. ASSUME NEW k \in Cursors, NEW l \in Cursors, ForkCursor(k, l)
          PROVE  (position[m] <= Len(Trees(m)))'
      <4>1. heap' = heap /\ Has(k)
        BY <3>9 DEF ForkCursor
      <4>2. CASE m = l
        <5>1. root'[m] = root[k] /\ position'[m] = position[k]
          BY <2>1, <2>2, <3>9, <4>2 DEF ForkCursor, TypeOK
        <5>2. position[k] <= Len(Trees(k))
          BY <2>1, <4>1 DEF PositionsInTokens
        <5>. QED  BY <4>1, <5>1, <5>2 DEF Trees
      <4>3. CASE m # l
        BY <2>1, <2>2, <3>2, <3>9, <4>3 DEF ForkCursor, Has, TypeOK
      <4>. QED  BY <4>2, <4>3
    <3>10. ASSUME NEW k \in Cursors, NEW l \in Cursors, AdvanceTo(k, l)
           PROVE  (position[m] <= Len(Trees(m)))'
      <4>1. heap' = heap /\ root' = root /\ root[k] = root[l] /\ Has(l)
        BY <3>10 DEF AdvanceTo
      <4>2. Has(m) /\ Trees(m)' = Trees(m)
        BY <2>1, <4>1 DEF Has, Trees
      <4>3. position'[m] = position[m] \/ (m = k /\ position'[m] = position[l])
        BY <2>1, <3>10 DEF AdvanceTo, TypeOK
      <4>4. position[l] <= Len(Trees(l))
        BY <2>1, <4>1 DEF PositionsInTokens
      <4>5. m = k => Trees(m) = Trees(l)
        BY <4>1 DEF Trees
      <4>. QED  BY <2>3, <4>2, <4>3, <4>4, <4>5
    <3>11. ASSUME NEW x \in Roots, Drop(x) PROVE (position[m] <= Len(Trees(m)))'
      <4>1. x # m /\ Has(m)
        BY <2>1, <2>2, <3>11 DEF Drop, Has, TypeOK
      <4>2. position'[m] = position[m]
        BY <2>1, <3>11, <4>1 DEF Drop, TypeOK
      <4>. QED  BY <3>2, <4>1, <4>2
    <3>. QED  BY <2>7, <3>3, <3>4, <3>5, <3>6, <3>7, <3>8, <3>9, <3>10, <3>11 DEF QuietStep
  <2>. QED  BY <2>1, <2>5, <2>6, <2>7, NextSteps
<1>. QED  BY <1>1, <1>2, StorageTyped, StorageAssumption, PTL DEF Spec

----------------------------------------------------------------------------
(* Cursors forked from one another. *)

\* The histories hold no cursor that ended but its own.
KinAlive ==
  \A l \in Cursors : ~ Has(l) => kin[l] = {l} /\ \A m \in Cursors \ {l} : l \notin kin[m]

\* advance_to never panics for a cursor and its forks (parse.rs:289), as they
\* share their storage for as long as they live.
THEOREM AdvanceAccepted == Spec => []ForksShareStorage
<1>1. Init => KinAlive /\ ForksShareStorage
  BY DEF Init, KinAlive, ForksShareStorage, Has, Roots
<1>2. TypeOK /\ StorageAssumption /\ KinAlive /\ ForksShareStorage /\ [Next]_vars
        => (KinAlive /\ ForksShareStorage)'
  <2>1. SUFFICES ASSUME TypeOK, StorageAssumption, KinAlive, ForksShareStorage, [Next]_vars
                 PROVE  (KinAlive /\ ForksShareStorage)'
    OBVIOUS
  <2>2. \A m \in Cursors : m \in Roots /\ m \notin Streams
    BY <2>1, StreamFacts DEF Roots
  <2>3. ASSUME kin' = kin, \A m \in Cursors : root'[m] = root[m]
        PROVE  (KinAlive /\ ForksShareStorage)'
    <3>1. KinAlive'
      BY <2>1, <2>3 DEF KinAlive, Has
    <3>2. ASSUME NEW m \in Cursors, NEW n \in kin'[m], root'[m] # NoCell, root'[n] # NoCell
          PROVE  root'[m] = root'[n]
      <4>1. n \in kin[m] /\ n \in Cursors
        BY <2>1, <2>3, <3>2 DEF TypeOK
      <4>. QED  BY <2>1, <2>3, <3>2, <4>1 DEF ForksShareStorage, Has
    <3>. QED  BY <3>1, <3>2 DEF ForksShareStorage, Has
  <2>4. CASE UNCHANGED vars
    BY <2>3, <2>4 DEF vars
  <2>5. ASSUME NEW x \in Streams, StreamStep(x)
        PROVE  (KinAlive /\ ForksShareStorage)'
    BY <2>1, <2>3, <2>5, StreamStepChanging, ChangingFacts
  <2>6. CASE QuietStep
    <3>1. ASSUME NEW x \in Streams, New(x) PROVE (KinAlive /\ ForksShareStorage)'
      BY <2>1, <2>2, <2>3, <3>1 DEF New, TypeOK
    <3>2. ASSUME NEW x \in Streams, NEW y \in Streams, Fork(x, y)
          PROVE  (KinAlive /\ ForksShareStorage)'
      BY <2>1, <2>2, <2>3, <3>2 DEF Fork, TypeOK
    <3>3. ASSUME NEW k \in Cursors, NEW x \in Streams, Open(k, x)
          PROVE  (KinAlive /\ ForksShareStorage)'
      <4>1. kin' = kin /\ ~ Has(k)
            /\ \A m \in Cursors : m # k => root'[m] = root[m]
        BY <2>1, <2>2, <3>3 DEF Open, TypeOK
      <4>2. KinAlive'
        BY <2>1, <4>1 DEF KinAlive, Has
      <4>3. ASSUME NEW m \in Cursors, NEW n \in kin'[m], root'[m] # NoCell, root'[n] # NoCell
            PROVE  root'[m] = root'[n]
        <5>1. n \in kin[m] /\ n \in Cursors
          BY <2>1, <4>1, <4>3 DEF TypeOK
        <5>2. kin[k] = {k} /\ \A l \in Cursors \ {k} : k \notin kin[l]
          BY <2>1, <4>1 DEF KinAlive
        <5>3. CASE m = k \/ n = k
          BY <5>1, <5>2, <5>3
        <5>4. CASE m # k /\ n # k
          BY <2>1, <4>1, <4>3, <5>1, <5>4 DEF ForksShareStorage, Has
        <5>. QED  BY <5>3, <5>4
      <4>. QED  BY <4>2, <4>3 DEF ForksShareStorage, Has
    <3>4. ASSUME NEW k \in Cursors, NEW x \in Streams, NextGroup(k, x)
          PROVE  (KinAlive /\ ForksShareStorage)'
      BY <2>1, <2>2, <2>3, <3>4 DEF NextGroup, TypeOK
    <3>5. ASSUME NEW k \in Cursors, NEW x \in Streams, Collect(k, x)
          PROVE  (KinAlive /\ ForksShareStorage)'
      BY <2>1, <2>2, <2>3, <3>5 DEF Collect, TypeOK
    <3>6. ASSUME NEW k \in Cursors, NextToken(k) PROVE (KinAlive /\ ForksShareStorage)'
      BY <2>3, <3>6 DEF NextToken
    <3>7. ASSUME NEW k \in Cursors, NEW l \in Cursors, ForkCursor(k, l)
          PROVE  (KinAlive /\ ForksShareStorage)'
      <4>. DEFINE all == kin[k] \cup {l}
      <4>1. Has(k) /\ ~ Has(l) /\ k # l /\ root'[l] = root[k]
            /\ \A m \in Cursors : m # l => root'[m] = root[m]
        BY <2>1, <2>2, <3>7 DEF ForkCursor, Has, TypeOK
      <4>2. \A m \in Cursors : kin'[m] = IF m \in all THEN all ELSE kin[m]
        BY <3>7 DEF ForkCursor
      <4>3. kin[l] = {l} /\ \A m \in Cursors \ {l} : l \notin kin[m]
        BY <2>1, <4>1 DEF KinAlive
      <4>4. all \subseteq Cursors
        BY <2>1 DEF TypeOK
      <4>5. \A m \in all : root'[m] # NoCell => root'[m] = root[k]
        <5>1. SUFFICES ASSUME NEW m \in all, m # l, root'[m] # NoCell
                       PROVE  root'[m] = root[k]
          BY <4>1
        <5>2. m \in Cursors /\ m \in kin[k] /\ root'[m] = root[m] /\ Has(m)
          BY <4>1, <4>4, <5>1 DEF Has
        <5>. QED  BY <2>1, <4>1, <5>2 DEF ForksShareStorage
      <4>6. KinAlive'
        <5>1. SUFFICES ASSUME NEW d \in Cursors, root'[d] = NoCell
                       PROVE  kin'[d] = {d} /\ \A m \in Cursors \ {d} : d \notin kin'[m]
          BY DEF KinAlive, Has
        <5>2. d # l /\ d # k /\ ~ Has(d)
          BY <4>1, <5>1 DEF Has
        <5>3. kin[d] = {d} /\ \A m \in Cursors \ {d} : d \notin kin[m]
          BY <2>1, <5>2 DEF KinAlive
        <5>4. d \notin all
          BY <5>2, <5>3
        <5>. QED  BY <4>2, <5>3, <5>4
      <4>7. ASSUME NEW m \in Cursors, NEW n \in kin'[m], root'[m] # NoCell, root'[n] # NoCell
            PROVE  root'[m] = root'[n]
        <5>1. CASE m \in all
          BY <4>2, <4>5, <4>7, <5>1
        <5>2. CASE m \notin all
          <6>1. n \in kin[m] /\ n \in Cursors /\ m # l
            BY <2>1, <4>2, <4>7, <5>2 DEF TypeOK
          <6>2. n # l
            BY <4>3, <6>1
          <6>. QED  BY <2>1, <4>1, <4>7, <6>1, <6>2 DEF ForksShareStorage, Has
        <5>. QED  BY <5>1, <5>2
      <4>. QED  BY <4>6, <4>7 DEF ForksShareStorage, Has
    <3>8. ASSUME NEW k \in Cursors, NEW l \in Cursors, AdvanceTo(k, l)
          PROVE  (KinAlive /\ ForksShareStorage)'
      BY <2>3, <3>8 DEF AdvanceTo
    <3>9. ASSUME NEW x \in Roots, Drop(x) PROVE (KinAlive /\ ForksShareStorage)'
      <4>1. CASE x \in Cursors
        <5>1. root'[x] = NoCell /\ \A m \in Cursors : m # x => root'[m] = root[m]
          BY <2>1, <2>2, <3>9 DEF Drop, TypeOK
        <5>2. \A m \in Cursors : kin'[m] = IF m = x THEN {x} ELSE kin[m] \ {x}
          BY <3>9, <4>1 DEF Drop
        <5>3. KinAlive'
          <6>1. SUFFICES ASSUME NEW d \in Cursors, root'[d] = NoCell
                         PROVE  kin'[d] = {d} /\ \A m \in Cursors \ {d} : d \notin kin'[m]
            BY DEF KinAlive, Has
          <6>2. CASE d = x
            BY <5>2, <6>2
          <6>3. CASE d # x
            <7>1. kin[d] = {d} /\ \A m \in Cursors \ {d} : d \notin kin[m]
              BY <2>1, <5>1, <6>1, <6>3 DEF KinAlive, Has
            <7>. QED  BY <5>2, <6>3, <7>1
          <6>. QED  BY <6>2, <6>3
        <5>4. ASSUME NEW m \in Cursors, NEW n \in kin'[m], root'[m] # NoCell, root'[n] # NoCell
              PROVE  root'[m] = root'[n]
          <6>1. m # x /\ n # x /\ n \in kin[m]
            BY <5>1, <5>2, <5>4
          <6>2. n \in Cursors
            BY <2>1, <6>1 DEF TypeOK
          <6>. QED  BY <2>1, <5>1, <5>4, <6>1, <6>2 DEF ForksShareStorage, Has
        <5>. QED  BY <5>3, <5>4 DEF ForksShareStorage, Has
      <4>2. CASE x \notin Cursors
        BY <2>1, <2>2, <2>3, <3>9, <4>2 DEF Drop, TypeOK
      <4>. QED  BY <4>1, <4>2
    <3>. QED  BY <2>6, <3>1, <3>2, <3>3, <3>4, <3>5, <3>6, <3>7, <3>8, <3>9 DEF QuietStep
  <2>. QED  BY <2>1, <2>4, <2>5, <2>6, NextSteps
<1>. QED  BY <1>1, <1>2, StorageTyped, StorageAssumption, PTL DEF Spec

\* Sharing cannot be seen, neither from another stream nor from a cursor.
THEOREM SharingIsUnseen == Spec => SharingUnseen
BY ForksIndependent, CursorsImmutable DEF SharingUnseen

\* A cursor stands in its tokens, and advance_to accepts its forks.
THEOREM CursorsStaySound == Spec => []CursorsSound
<1>1. PositionsInTokens /\ ForksShareStorage => CursorsSound
  BY DEF CursorsSound
<1>. QED  BY <1>1, CursorsInTokens, AdvanceAccepted, PTL

=============================================================================
