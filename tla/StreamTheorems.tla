--------------------------- MODULE StreamTheorems ---------------------------
(***************************************************************************)
(* What a token stream gives back (Emission), and what the operations of   *)
(* lex/token_stream.rs make of it.                                         *)
(*                                                                         *)
(* Emission follows the trees of the stream; its nodes lie in preorder, so *)
(* the same is given by a walk over the nodes in their order, which gives  *)
(* in front of each node what is behind the nodes it leaves (Walk).  For   *)
(* the walk, settle_trivia moves comments from the front of a node to the  *)
(* back of what comes before it, and each operation of the lexer changes   *)
(* the end of what has been given: a token or closer comes behind what     *)
(* waited, a comment behind what was given (Base) or what waits (Pending). *)
(***************************************************************************)
EXTENDS NativeLexer, TextTheorems
LOCAL INSTANCE SequencesExt

-----------------------------------------------------------------------------
(* Counting up and down, and recursion along an interval. *)

\* A set that has the first of an interval, and with each of its members the
\* next, holds the interval.
LEMMA CountUp ==
  ASSUME NEW a \in Int, NEW b \in Int, NEW G, a \in G,
         \A k \in a .. b - 1 : k \in G => k + 1 \in G
  PROVE  a .. b \subseteq G
<1> DEFINE D == a .. b
           m == [k \in D |-> k - a]
<1>1. m \in [D -> Nat]
  OBVIOUS
<1>2. ASSUME NEW k \in D, \A j \in D : m[j] < m[k] => j \in G
      PROVE  k \in G
  <2>1. CASE k = a
    BY <2>1
  <2>2. CASE k # a
    <3>1. k - 1 \in D /\ m[k - 1] < m[k] /\ k - 1 \in a .. b - 1 /\ (k - 1) + 1 = k
      BY <2>2
    <3>2. k - 1 \in G
      BY <1>2, <3>1
    <3> QED BY <3>1, <3>2
  <2> QED BY <2>1, <2>2
<1> HIDE DEF D, m
<1>3. D \subseteq G
  BY <1>1, <1>2, MeasureInduction
<1> QED BY <1>3 DEF D

\* The same, from the last.
LEMMA CountDown ==
  ASSUME NEW a \in Int, NEW b \in Int, NEW G, b \in G,
         \A k \in a + 1 .. b : k \in G => k - 1 \in G
  PROVE  a .. b \subseteq G
<1> DEFINE D == a .. b
           m == [k \in D |-> b - k]
<1>1. m \in [D -> Nat]
  OBVIOUS
<1>2. ASSUME NEW k \in D, \A j \in D : m[j] < m[k] => j \in G
      PROVE  k \in G
  <2>1. CASE k = b
    BY <2>1
  <2>2. CASE k # b
    <3>1. k + 1 \in D /\ m[k + 1] < m[k] /\ k + 1 \in a + 1 .. b /\ (k + 1) - 1 = k
      BY <2>2
    <3>2. k + 1 \in G
      BY <1>2, <3>1
    <3> QED BY <3>1, <3>2
  <2> QED BY <2>1, <2>2
<1> HIDE DEF D, m
<1>3. D \subseteq G
  BY <1>1, <1>2, MeasureInduction
<1> QED BY <1>3 DEF D

\* A recursion that counts from a up to b.
Counts(a, b, S, base, step) ==
  a \in Int /\ b \in Int /\ base \in S /\ step \in [(a .. b) \X S -> S]

\* There is a function that such a recursion defines.
LEMMA RecursionUp ==
  ASSUME NEW a, NEW b, NEW S, NEW base, NEW step, Counts(a, b, S, base, step)
  PROVE  \E f \in [a .. b -> S] : \A i \in a .. b :
           f[i] = IF i = a THEN base ELSE step[<<i, f[i - 1]>>]
<1> DEFINE D == a .. b
           stop == { i \in D : i = a }
           start == [i \in D |-> base]
           next == [i \in D |-> IF i = a THEN i ELSE i - 1]
           m == [i \in D |-> i - a]
<1>1. /\ m \in [D -> Nat] /\ stop \in SUBSET D /\ start \in [D -> S]
      /\ next \in [D -> D] /\ step \in [D \X S -> S]
      /\ \A i \in D \ stop : m[next[i]] < m[i]
  BY DEF Counts
<1>2. PICK f \in [D -> S] : \A i \in D :
        f[i] = IF i \in stop THEN start[i] ELSE step[<<i, f[next[i]]>>]
  <2> HIDE DEF D, stop, start, next, m
  <2>1. Descends(D, S, m, stop, start, next, step)
    BY <1>1 DEF Descends
  <2> QED BY <2>1, RecursionByMeasure
<1>3. \A i \in D : f[i] = IF i = a THEN base ELSE step[<<i, f[i - 1]>>]
  BY <1>2
<1> QED BY <1>3

-----------------------------------------------------------------------------
(* Sequences of sequences, one behind the other. *)

Flattens(f, parts) ==
  f = [i \in 1 .. Len(parts) |-> IF i = 1 THEN parts[i] ELSE f[i - 1] \o parts[i]]

Flattening(parts) == CHOOSE f : Flattens(f, parts)

\* What FlattenSeq gives, part by part.
LEMMA FlatteningIs ==
  ASSUME NEW S, NEW parts \in Seq(Seq(S))
  PROVE  /\ FlattenSeq(parts) = IF Len(parts) = 0 THEN parts ELSE Flattening(parts)[Len(parts)]
         /\ \A i \in 1 .. Len(parts) :
              /\ Flattening(parts)[i] \in Seq(S)
              /\ Flattening(parts)[i] = IF i = 1 THEN parts[i] ELSE Flattening(parts)[i - 1] \o parts[i]
<1> DEFINE n == Len(parts)
           D == 1 .. n
           step == [p \in D \X Seq(S) |-> IF p[1] = 1 THEN parts[1] ELSE p[2] \o parts[p[1]]]
           f == Flattening(parts)
<1>0. n \in Nat /\ \A i \in D : parts[i] \in Seq(S)
  OBVIOUS
<1>1. FlattenSeq(parts) = IF Len(parts) = 0 THEN parts ELSE f[Len(parts)]
  BY DEF FlattenSeq, Flattening, Flattens
<1> HIDE DEF n
<1>2. CASE n = 0
  BY <1>1, <1>2 DEF n
<1>3. CASE n # 0
  <2>1. 1 \in D
    BY <1>0, <1>3
  <2>2. parts[1] \in Seq(S) /\ \A p \in D \X Seq(S) : p[2] \o parts[p[1]] \in Seq(S)
    BY <1>0, <2>1
  <2>3. step \in [D \X Seq(S) -> Seq(S)]
    BY <2>2
  <2>4. PICK h \in [D -> Seq(S)] : \A i \in D :
          h[i] = IF i = 1 THEN parts[1] ELSE step[<<i, h[i - 1]>>]
    <3> HIDE DEF step
    <3>1. Counts(1, n, Seq(S), parts[1], step)
      BY <1>0, <2>2, <2>3 DEF Counts
    <3> QED BY <3>1, RecursionUp
  <2>5. \A i \in D : h[i] = IF i = 1 THEN parts[i] ELSE h[i - 1] \o parts[i]
    <3> SUFFICES ASSUME NEW i \in D, i # 1
                 PROVE  h[i] = h[i - 1] \o parts[i]
      BY <2>4
    <3>1. i - 1 \in D
      BY <1>0
    <3>2. <<i, h[i - 1]>> \in D \X Seq(S)
      BY <2>4, <3>1
    <3> HIDE DEF D
    <3> QED BY <2>4, <3>2
  <2>6. h = [i \in D |-> IF i = 1 THEN parts[i] ELSE h[i - 1] \o parts[i]]
    <3> HIDE DEF D
    <3> QED BY <2>4, <2>5
  <2>7. Flattens(h, parts)
    BY <2>6 DEF Flattens, n
  <2>8. Flattens(f, parts)
    BY <2>7 DEF Flattening
  <2> HIDE DEF f
  <2>9. f = [i \in D |-> IF i = 1 THEN parts[i] ELSE f[i - 1] \o parts[i]]
    BY <2>8 DEF Flattens, n
  <2>10. \A i \in D : f[i] = IF i = 1 THEN parts[i] ELSE f[i - 1] \o parts[i]
    <3> HIDE DEF D
    <3> QED BY <2>9
  <2> DEFINE good == { i \in D : f[i] \in Seq(S) }
  <2>11. D \subseteq good
    <3>1. 1 \in good
      BY <1>0, <2>1, <2>10
    <3>2. \A k \in 1 .. n - 1 : k \in good => k + 1 \in good
      <4> SUFFICES ASSUME NEW k \in 1 .. n - 1, k \in good
                   PROVE  k + 1 \in good
        OBVIOUS
      <4>1. k + 1 \in D /\ k + 1 # 1 /\ (k + 1) - 1 = k
        BY <1>0
      <4>2. f[k + 1] = f[k] \o parts[k + 1] /\ parts[k + 1] \in Seq(S) /\ f[k] \in Seq(S)
        BY <1>0, <2>10, <4>1
      <4>3. f[k + 1] \in Seq(S)
        BY <4>2
      <4> HIDE DEF D
      <4> QED BY <4>1, <4>3
    <3> HIDE DEF good
    <3>3. 1 \in Int /\ n \in Int
      BY <1>0
    <3> QED BY <3>1, <3>2, <3>3, CountUp
  <2> QED BY <1>1, <2>10, <2>11 DEF f, n
<1> QED BY <1>2, <1>3 DEF n

\* Flattening gives a sequence, and one part more comes last.
LEMMA FlattenFacts ==
  ASSUME NEW S, NEW parts \in Seq(Seq(S))
  PROVE  /\ FlattenSeq(parts) \in Seq(S)
         /\ parts = <<>> => FlattenSeq(parts) = <<>>
<1>1. CASE Len(parts) = 0
  <2>1. parts = <<>>
    BY <1>1
  <2>2. FlattenSeq(parts) = <<>>
    BY <1>1, <2>1 DEF FlattenSeq
  <2> QED BY <2>2
<1>2. CASE Len(parts) # 0
  <2>1. Len(parts) \in 1 .. Len(parts) /\ parts # <<>>
    BY <1>2
  <2> QED BY <1>2, <2>1, FlatteningIs
<1> QED BY <1>1, <1>2

\* A last part is given behind the others.
LEMMA FlattenAppend ==
  ASSUME NEW S, NEW parts \in Seq(Seq(S)), NEW last \in Seq(S)
  PROVE  FlattenSeq(Append(parts, last)) = FlattenSeq(parts) \o last
<1> DEFINE n == Len(parts)
           more == Append(parts, last)
           f == Flattening(parts)
           g == Flattening(more)
<1>0. /\ n \in Nat /\ more \in Seq(Seq(S)) /\ Len(more) = n + 1 /\ more[n + 1] = last
      /\ \A i \in 1 .. n : more[i] = parts[i]
  OBVIOUS
<1>1. CASE n = 0
  <2>1. parts = <<>>
    BY <1>1
  <2>a. FlattenSeq(parts) = <<>>
    BY <2>1, FlattenFacts
  <2>2. FlattenSeq(more) = last
    <3> HIDE DEF more
    <3>1. FlattenSeq(more) = g[1] /\ g[1] = more[1]
      BY <1>0, <1>1, FlatteningIs
    <3> QED BY <1>0, <1>1, <3>1
  <2> QED BY <2>a, <2>2
<1>2. CASE n # 0
  <2> HIDE DEF more, n, f, g
  <2>1. /\ \A i \in 1 .. n : f[i] = IF i = 1 THEN parts[i] ELSE f[i - 1] \o parts[i]
        /\ FlattenSeq(parts) = f[n]
    BY <1>2, FlatteningIs DEF n, f
  <2>2. /\ \A i \in 1 .. n + 1 : g[i] = IF i = 1 THEN more[i] ELSE g[i - 1] \o more[i]
        /\ FlattenSeq(more) = g[n + 1]
    BY <1>0, FlatteningIs DEF g
  <2> DEFINE good == { i \in 1 .. n : f[i] = g[i] }
  <2>3. 1 .. n \subseteq good
    <3>1. 1 \in good
      BY <1>0, <1>2, <2>1, <2>2
    <3>2. \A k \in 1 .. n - 1 : k \in good => k + 1 \in good
      <4> SUFFICES ASSUME NEW k \in 1 .. n - 1, k \in good
                   PROVE  k + 1 \in good
        OBVIOUS
      <4>1. k + 1 \in 1 .. n /\ k + 1 # 1 /\ (k + 1) - 1 = k /\ k + 1 \in 1 .. n + 1
        BY <1>0
      <4>2. f[k + 1] = f[k] \o parts[k + 1] /\ g[k + 1] = g[k] \o more[k + 1]
        BY <2>1, <2>2, <4>1
      <4> QED BY <1>0, <4>1, <4>2
    <3> HIDE DEF good
    <3>3. 1 \in Int /\ n \in Int
      BY <1>0
    <3> QED BY <3>1, <3>2, <3>3, CountUp
  <2>4. f[n] = g[n]
    <3>1. n \in 1 .. n
      BY <1>0, <1>2
    <3> QED BY <2>3, <3>1
  <2>5. g[n + 1] = g[n] \o last
    <3>1. n + 1 \in 1 .. n + 1 /\ n + 1 # 1 /\ (n + 1) - 1 = n
      BY <1>0, <1>2
    <3>2. g[n + 1] = g[(n + 1) - 1] \o more[n + 1]
      BY <2>2, <3>1
    <3> QED BY <1>0, <3>1, <3>2
  <2> QED BY <2>1, <2>2, <2>4, <2>5 DEF more
<1> QED BY <1>1, <1>2

-----------------------------------------------------------------------------
(* The trees of a stream. *)

Comments == Seq(Spans)

\* Node i is a tree of the stream that node g owns.
Child(stream, g, i) ==
  /\ stream[i].depth = stream[g].depth + 1
  /\ \A j \in g + 1 .. i : stream[j].depth > stream[g].depth

Children(stream, g) == { i \in g + 1 .. Len(stream) : Child(stream, g, i) }

ListsTrees(f, stream, g) ==
  f = [i \in g .. Len(stream) |->
        IF i = g THEN <<>>
        ELSE IF Child(stream, g, i) THEN Append(f[i - 1], i) ELSE f[i - 1]]

Listing(stream, g) == CHOOSE f : ListsTrees(f, stream, g)

\* The list holds the children up to node n, in order.
Lists(trees, stream, g, n) ==
  /\ trees \in Seq(1 .. n)
  /\ \A k \in 1 .. Len(trees) : trees[k] \in Children(stream, g)
  /\ \A j, k \in 1 .. Len(trees) : j < k => trees[j] < trees[k]
  /\ \A i \in Children(stream, g) : i <= n => \E k \in 1 .. Len(trees) : trees[k] = i

\* The list with the next node, if it is a child.
LEMMA ListGrows ==
  ASSUME NEW stream, Len(stream) \in Nat, NEW g \in Nat, NEW trees, NEW n \in Nat,
         g <= n, n < Len(stream), Lists(trees, stream, g, n)
  PROVE  Lists(IF Child(stream, g, n + 1) THEN Append(trees, n + 1) ELSE trees, stream, g, n + 1)
<1> DEFINE S == Children(stream, g)
           m == Len(trees)
<1>0. /\ trees \in Seq(1 .. n) /\ m \in Nat
      /\ \A k \in 1 .. m : trees[k] \in S /\ trees[k] \in 1 .. n
      /\ \A j, k \in 1 .. m : j < k => trees[j] < trees[k]
      /\ \A i \in S : i <= n => \E k \in 1 .. m : trees[k] = i
  BY DEF Lists
<1>1. trees \in Seq(1 .. n + 1)
  <2>1. 1 .. n \subseteq 1 .. n + 1
    OBVIOUS
  <2> QED BY <1>0, <2>1
<1>2. S \subseteq Int /\ (n + 1 \in S <=> Child(stream, g, n + 1))
  BY DEF Children
<1> HIDE DEF S
<1>3. CASE ~ Child(stream, g, n + 1)
  <2>1. \A i \in S : i <= n + 1 => i <= n
    BY <1>2, <1>3
  <2>2. Lists(trees, stream, g, n + 1)
    BY <1>0, <1>1, <2>1 DEF Lists, S
  <2> QED BY <1>3, <2>2
<1>4. CASE Child(stream, g, n + 1)
  <2> DEFINE more == Append(trees, n + 1)
  <2>1. /\ more \in Seq(1 .. n + 1) /\ Len(more) = m + 1 /\ more[m + 1] = n + 1
        /\ \A k \in 1 .. m : more[k] = trees[k]
    <3>1. n + 1 \in 1 .. n + 1
      OBVIOUS
    <3> QED BY <1>0, <1>1, <3>1
  <2> HIDE DEF more, m
  <2>2. \A k \in 1 .. m + 1 : k \in 1 .. m \/ k = m + 1
    BY <1>0
  <2>3. \A k \in 1 .. m + 1 : more[k] \in S
    BY <1>0, <1>2, <1>4, <2>1, <2>2
  <2>4. \A j, k \in 1 .. m + 1 : j < k => more[j] < more[k]
    <3> SUFFICES ASSUME NEW j \in 1 .. m + 1, NEW k \in 1 .. m + 1, j < k
                 PROVE  more[j] < more[k]
      OBVIOUS
    <3>1. j \in 1 .. m
      BY <1>0
    <3>2. CASE k \in 1 .. m
      BY <1>0, <2>1, <3>1, <3>2
    <3>3. CASE k = m + 1
      <4>1. trees[j] \in 1 .. n /\ more[j] = trees[j] /\ more[k] = n + 1
        BY <1>0, <2>1, <3>1, <3>3
      <4> QED BY <4>1
    <3> QED BY <2>2, <3>2, <3>3
  <2>5. \A i \in S : i <= n + 1 => \E k \in 1 .. m + 1 : more[k] = i
    <3> SUFFICES ASSUME NEW i \in S, i <= n + 1
                 PROVE  \E k \in 1 .. m + 1 : more[k] = i
      OBVIOUS
    <3>1. CASE i <= n
      <4>1. PICK k \in 1 .. m : trees[k] = i
        BY <1>0, <3>1
      <4>2. k \in 1 .. m + 1
        BY <1>0
      <4> QED BY <2>1, <4>1, <4>2
    <3>2. CASE i = n + 1
      <4>1. m + 1 \in 1 .. m + 1
        BY <1>0
      <4> QED BY <2>1, <3>2, <4>1
    <3>3. i \in Int
      BY <1>2
    <3> QED BY <3>1, <3>2, <3>3
  <2>6. Lists(more, stream, g, n + 1)
    BY <2>1, <2>3, <2>4, <2>5 DEF Lists, S
  <2> QED BY <1>4, <2>6 DEF more
<1> QED BY <1>3, <1>4

\* The trees of node g are its children, in the order of the nodes.
LEMMA TreesAre ==
  ASSUME NEW stream \in Seq(Nodes), NEW g \in 1 .. Len(stream)
  PROVE  Lists(TreesOf(stream, g), stream, g, Len(stream))
<1> DEFINE n == Len(stream)
           D == g .. n
           S == Seq(1 .. n)
           add(i, trees) == IF Child(stream, g, i) THEN Append(trees, i) ELSE trees
           step == [p \in D \X S |-> add(p[1], p[2])]
           f == Listing(stream, g)
<1>0. n \in Nat /\ g \in 1 .. n
  OBVIOUS
<1>1. TreesOf(stream, g) = f[n]
  BY DEF TreesOf, Listing, ListsTrees, Child
<1> HIDE DEF n
<1>2. step \in [D \X S -> S] /\ <<>> \in S
  <2>1. \A i \in D, trees \in S : add(i, trees) \in S
    <3> TAKE i \in D, trees \in S
    <3>1. i \in 1 .. n
      BY <1>0
    <3>2. Append(trees, i) \in S
      BY <3>1
    <3> HIDE DEF S
    <3> QED BY <3>2
  <2> HIDE DEF add
  <2> QED BY <2>1
<1>3. PICK h \in [D -> S] : \A i \in D : h[i] = IF i = g THEN <<>> ELSE step[<<i, h[i - 1]>>]
  <2> HIDE DEF step
  <2>1. Counts(g, n, S, <<>>, step)
    BY <1>0, <1>2 DEF Counts
  <2> QED BY <2>1, RecursionUp
<1>4. \A i \in D : h[i] = IF i = g THEN <<>> ELSE add(i, h[i - 1])
  <2> SUFFICES ASSUME NEW i \in D, i # g
               PROVE  h[i] = add(i, h[i - 1])
    BY <1>3
  <2>1. i - 1 \in D
    BY <1>0
  <2>2. <<i, h[i - 1]>> \in D \X S
    BY <1>3, <2>1
  <2> HIDE DEF D, S, add
  <2> QED BY <1>3, <2>2
<1>5. h = [i \in D |-> IF i = g THEN <<>> ELSE add(i, h[i - 1])]
  <2> HIDE DEF D, S, add
  <2> QED BY <1>3, <1>4
<1>6. ListsTrees(h, stream, g)
  BY <1>5 DEF ListsTrees, n
<1>7. ListsTrees(f, stream, g)
  BY <1>6 DEF Listing
<1> HIDE DEF f
<1>8. f = [i \in D |-> IF i = g THEN <<>> ELSE add(i, f[i - 1])]
  BY <1>7 DEF ListsTrees, n
<1>9. \A i \in D : f[i] = IF i = g THEN <<>> ELSE add(i, f[i - 1])
  <2> HIDE DEF D, add
  <2> QED BY <1>8
<1> DEFINE good == { i \in D : Lists(f[i], stream, g, i) }
<1>10. g \in good
  <2>1. f[g] = <<>>
    BY <1>0, <1>9
  <2>2. \A i \in Children(stream, g) : ~ (i <= g)
    BY <1>0 DEF Children
  <2>3. Lists(<<>>, stream, g, g)
    BY <2>2 DEF Lists
  <2> QED BY <1>0, <2>1, <2>3
<1>11. \A k \in g .. n - 1 : k \in good => k + 1 \in good
  <2> SUFFICES ASSUME NEW k \in g .. n - 1, k \in good
               PROVE  k + 1 \in good
    OBVIOUS
  <2>1. k + 1 \in D /\ k + 1 # g /\ (k + 1) - 1 = k /\ k \in Nat /\ g \in Nat /\ g <= k /\ k < Len(stream)
    BY <1>0 DEF n
  <2>2. f[k + 1] = add(k + 1, f[k])
    <3> HIDE DEF D, add
    <3> QED BY <1>9, <2>1
  <2>3. Lists(f[k], stream, g, k) /\ Len(stream) \in Nat
    OBVIOUS
  <2>4. Lists(add(k + 1, f[k]), stream, g, k + 1)
    BY <2>1, <2>3, ListGrows
  <2> HIDE DEF add, D
  <2> QED BY <2>1, <2>2, <2>4
<1>12. g .. n \subseteq good
  <2> HIDE DEF good
  <2>1. g \in Int /\ n \in Int
    BY <1>0
  <2> QED BY <1>10, <1>11, <2>1, CountUp
<1>13. Lists(f[n], stream, g, n)
  <2>1. n \in g .. n
    BY <1>0
  <2> QED BY <1>12, <2>1
<1> QED BY <1>1, <1>13 DEF n

-----------------------------------------------------------------------------
(* What a stream gives back. *)

Ranges == Seq(Int \X Int)

RangesOf(comments) == [k \in DOMAIN comments |-> <<comments[k].from, comments[k].to>>]

OpenerOf(node) ==
  CASE node.kind = "root"  -> <<>>
    [] node.kind = "group" -> << <<node.from, node.from + 1>> >>
    [] OTHER               -> << <<node.from, node.to>> >>

CloserOf(node) ==
  IF node.kind = "group" /\ ~ node.open THEN << <<node.to - 1, node.to>> >> ELSE <<>>

\* What comes before the trees of a node, and what comes behind them.
Ahead(node) == RangesOf(node.lead) \o OpenerOf(node) \o RangesOf(node.prefix)
Behind(node) == RangesOf(node.suffix) \o CloserOf(node) \o RangesOf(node.trail)

\* The equation that defines Emission, and its solution.
Emitted(f, stream, i) ==
  LET trees == TreesOf(stream, i)
  IN  RangesOf(stream[i].lead) \o OpenerOf(stream[i]) \o RangesOf(stream[i].prefix)
      \o FlattenSeq([k \in DOMAIN trees |-> f[trees[k]]])
      \o RangesOf(stream[i].suffix) \o CloserOf(stream[i]) \o RangesOf(stream[i].trail)

Emits(f, stream) == f = [i \in DOMAIN stream |-> Emitted(f, stream, i)]

EmissionFrom(stream) == CHOOSE f : Emits(f, stream)

\* The fields of a node.
LEMMA FieldsOfNode ==
  ASSUME NEW node \in Nodes
  PROVE  /\ node.kind \in {"root", "group", "ident", "punct", "literal"}
         /\ node.from \in Nat /\ node.to \in Nat /\ node.depth \in Nat
         /\ node.open \in BOOLEAN /\ node.lead \in Comments /\ node.trail \in Comments
         /\ node.prefix \in Comments /\ node.suffix \in Comments
BY DEF Nodes, Comments

\* The ranges of comments, one of each.
LEMMA RangesOfFacts ==
  ASSUME NEW comments \in Comments
  PROVE  /\ RangesOf(comments) \in Ranges
         /\ Len(RangesOf(comments)) = Len(comments)
         /\ \A k \in 1 .. Len(comments) :
              RangesOf(comments)[k] = <<comments[k].from, comments[k].to>>
         /\ comments = <<>> => RangesOf(comments) = <<>>
<1> DEFINE S == Spans
<1>a. \A c \in S : c.from \in Int /\ c.to \in Int
  BY DEF Spans
<1> HIDE DEF S
<1>b. comments \in Seq(S)
  BY DEF Comments, S
<1>1. Len(comments) \in Nat /\ DOMAIN comments = 1 .. Len(comments)
      /\ \A k \in 1 .. Len(comments) : comments[k].from \in Int /\ comments[k].to \in Int
  BY <1>a, <1>b
<1>2. RangesOf(comments) = [k \in 1 .. Len(comments) |-> <<comments[k].from, comments[k].to>>]
  BY <1>1 DEF RangesOf
<1>3. RangesOf(comments) \in [1 .. Len(comments) -> Int \X Int]
  BY <1>1, <1>2
<1>4. RangesOf(comments) \in Ranges /\ Len(RangesOf(comments)) = Len(comments)
  BY <1>1, <1>3 DEF Ranges
<1>5. comments = <<>> => RangesOf(comments) = <<>>
  BY <1>4 DEF Ranges
<1> QED BY <1>2, <1>4, <1>5

\* What a node gives is a sequence of ranges.
LEMMA NodeRanges ==
  ASSUME NEW node \in Nodes
  PROVE  /\ RangesOf(node.lead) \in Ranges /\ RangesOf(node.prefix) \in Ranges
         /\ RangesOf(node.suffix) \in Ranges /\ RangesOf(node.trail) \in Ranges
         /\ OpenerOf(node) \in Ranges /\ CloserOf(node) \in Ranges
         /\ Ahead(node) \in Ranges /\ Behind(node) \in Ranges
<1>1. /\ RangesOf(node.lead) \in Ranges /\ RangesOf(node.prefix) \in Ranges
      /\ RangesOf(node.suffix) \in Ranges /\ RangesOf(node.trail) \in Ranges
  BY FieldsOfNode, RangesOfFacts
<1>2. node.from \in Int /\ node.to \in Int
  BY FieldsOfNode
<1>3. /\ << >> \in Ranges /\ << <<node.from, node.from + 1>> >> \in Ranges
      /\ << <<node.from, node.to>> >> \in Ranges /\ << <<node.to - 1, node.to>> >> \in Ranges
  BY <1>2 DEF Ranges
<1>4. OpenerOf(node) \in Ranges
  <2>1. CASE node.kind = "root"
    BY <1>3, <2>1 DEF OpenerOf
  <2>2. CASE node.kind = "group"
    BY <1>3, <2>2 DEF OpenerOf
  <2>3. CASE node.kind \notin {"root", "group"}
    BY <1>3, <2>3 DEF OpenerOf
  <2> QED BY <2>1, <2>2, <2>3
<1>5. CloserOf(node) \in Ranges
  BY <1>3 DEF CloserOf
<1>6. \A a, b, c \in Ranges : a \o b \o c \in Ranges
  BY DEF Ranges
<1> QED BY <1>1, <1>4, <1>5, <1>6 DEF Ahead, Behind

\* The emission of a node depends on that of its trees alone.
LEMMA SameEmitted ==
  ASSUME NEW stream \in Seq(Nodes), NEW i \in 1 .. Len(stream), NEW f, NEW g,
         \A j \in Children(stream, i) : f[j] = g[j]
  PROVE  Emitted(f, stream, i) = Emitted(g, stream, i)
<1> DEFINE trees == TreesOf(stream, i)
<1>1. Lists(trees, stream, i, Len(stream))
  BY TreesAre
<1> HIDE DEF trees
<1>2. \A k \in DOMAIN trees : f[trees[k]] = g[trees[k]]
  BY <1>1 DEF Lists
<1>3. [k \in DOMAIN trees |-> f[trees[k]]] = [k \in DOMAIN trees |-> g[trees[k]]]
  BY <1>2
<1> QED BY <1>3 DEF Emitted, trees

\* The emission, as the recursion over the nodes that Emission states.
LEMMA EmissionIs ==
  ASSUME NEW stream \in Seq(Nodes), Len(stream) > 0
  PROVE  /\ Emission(stream) = EmissionFrom(stream)[1]
         /\ \A i \in 1 .. Len(stream) :
              EmissionFrom(stream)[i] = Emitted(EmissionFrom(stream), stream, i)
<1> DEFINE n == Len(stream)
           e == EmissionFrom(stream)
           solved == { k \in 1 .. n + 1 : \E f : \A i \in k .. n : f[i] = Emitted(f, stream, i) }
<1>0. n \in Nat /\ n > 0 /\ DOMAIN stream = 1 .. n
  OBVIOUS
<1>1. Emission(stream) = e[1]
  BY DEF Emission, EmissionFrom, Emits, Emitted, RangesOf, OpenerOf, CloserOf
<1> HIDE DEF n
<1>2. n + 1 \in solved
  BY <1>0
<1>3. \A k \in 1 + 1 .. n + 1 : k \in solved => k - 1 \in solved
  <2> SUFFICES ASSUME NEW k \in 2 .. n + 1, k \in solved
               PROVE  k - 1 \in solved
    OBVIOUS
  <2>1. PICK f : \A i \in k .. n : f[i] = Emitted(f, stream, i)
    OBVIOUS
  <2> DEFINE new == [i \in 1 .. n |-> IF i = k - 1 THEN Emitted(f, stream, k - 1) ELSE f[i]]
  <2>2. \A i \in k - 1 .. n : new[i] = Emitted(new, stream, i)
    <3> SUFFICES ASSUME NEW i \in k - 1 .. n
                 PROVE  new[i] = Emitted(new, stream, i)
      OBVIOUS
    <3>1. i \in 1 .. n /\ i \in 1 .. Len(stream)
      BY <1>0 DEF n
    <3>2. \A j \in Children(stream, i) : j \in 1 .. n /\ j # k - 1
      BY <1>0, <3>1 DEF Children, n
    <3>3. \A j \in Children(stream, i) : new[j] = f[j]
      BY <3>2
    <3> HIDE DEF new
    <3>4. Emitted(new, stream, i) = Emitted(f, stream, i)
      BY <3>1, <3>3, SameEmitted
    <3>5. new[i] = Emitted(f, stream, i)
      <4>1. CASE i = k - 1
        BY <3>1, <4>1 DEF new
      <4>2. CASE i # k - 1
        <5>1. i \in k .. n
          BY <1>0, <4>2
        <5> QED BY <2>1, <3>1, <4>2, <5>1 DEF new
      <4> QED BY <4>1, <4>2
    <3> QED BY <3>4, <3>5
  <2> HIDE DEF new
  <2>3. k - 1 \in 1 .. n + 1
    BY <1>0
  <2> QED BY <2>2, <2>3
<1>4. 1 \in solved
  <2> HIDE DEF solved
  <2>1. 1 \in Int /\ n + 1 \in Int /\ 1 \in 1 .. n + 1
    BY <1>0
  <2>2. 1 .. n + 1 \subseteq solved
    BY <1>2, <1>3, <2>1, CountDown
  <2> QED BY <2>1, <2>2
<1>5. PICK f : \A i \in 1 .. n : f[i] = Emitted(f, stream, i)
  BY <1>4
<1> DEFINE h == [i \in 1 .. n |-> f[i]]
<1>6. \A i \in 1 .. n : h[i] = Emitted(h, stream, i)
  <2> TAKE i \in 1 .. n
  <2>1. \A j \in Children(stream, i) : h[j] = f[j]
    BY <1>0 DEF Children, n
  <2>2. i \in 1 .. Len(stream)
    BY DEF n
  <2>3. h[i] = f[i]
    OBVIOUS
  <2> HIDE DEF h
  <2>4. Emitted(h, stream, i) = Emitted(f, stream, i)
    BY <2>1, <2>2, SameEmitted
  <2> QED BY <1>5, <2>3, <2>4
<1>7. h = [i \in 1 .. n |-> h[i]]
  OBVIOUS
<1> HIDE DEF h
<1>8. h = [i \in DOMAIN stream |-> Emitted(h, stream, i)]
  BY <1>0, <1>6, <1>7
<1>9. Emits(h, stream)
  BY <1>8 DEF Emits
<1>10. Emits(e, stream)
  BY <1>9 DEF EmissionFrom
<1> HIDE DEF e
<1>11. e = [i \in DOMAIN stream |-> Emitted(e, stream, i)]
  BY <1>10 DEF Emits
<1>12. \A i \in 1 .. n : e[i] = Emitted(e, stream, i)
  BY <1>0, <1>11
<1> QED BY <1>1, <1>12 DEF e, n

\* The trees a node owns give a sequence of emissions.
LEMMA EmissionTyped ==
  ASSUME NEW stream \in Seq(Nodes), Len(stream) > 0
  PROVE  \A i \in 1 .. Len(stream) : EmissionFrom(stream)[i] \in Ranges
<1> DEFINE n == Len(stream)
           e == EmissionFrom(stream)
           good == { k \in 1 .. n + 1 : \A i \in k .. n : e[i] \in Ranges }
<1>0. n \in Nat /\ n > 0
  OBVIOUS
<1> HIDE DEF e
<1>1. n + 1 \in good
  OBVIOUS
<1>2. \A k \in 1 + 1 .. n + 1 : k \in good => k - 1 \in good
  <2> SUFFICES ASSUME NEW k \in 2 .. n + 1, k \in good
               PROVE  k - 1 \in good
    OBVIOUS
  <2> DEFINE i == k - 1
             trees == TreesOf(stream, i)
             parts == [j \in DOMAIN trees |-> e[trees[j]]]
  <2>1. i \in 1 .. n
    BY <1>0
  <2>2. Lists(trees, stream, i, n)
    BY <2>1, TreesAre
  <2>a. e[i] = Emitted(e, stream, i)
    BY <2>1, EmissionIs DEF e
  <2> HIDE DEF trees
  <2>3. /\ trees \in Seq(1 .. n) /\ Len(trees) \in Nat
        /\ \A j \in 1 .. Len(trees) : trees[j] \in Children(stream, i)
    BY <2>2 DEF Lists
  <2>4. \A j \in 1 .. Len(trees) : trees[j] \in k .. n
    BY <2>1, <2>3 DEF Children
  <2>5. \A j \in 1 .. Len(trees) : e[trees[j]] \in Ranges
    BY <2>4
  <2>6. parts \in Seq(Ranges)
    BY <2>3, <2>5
  <2> HIDE DEF parts
  <2>7. FlattenSeq(parts) \in Ranges
    BY <2>6, FlattenFacts DEF Ranges
  <2>8. stream[i] \in Nodes
    BY <2>1
  <2> DEFINE node == stream[i]
  <2> HIDE DEF node
  <2>9. /\ RangesOf(node.lead) \in Ranges /\ RangesOf(node.prefix) \in Ranges
        /\ RangesOf(node.suffix) \in Ranges /\ RangesOf(node.trail) \in Ranges
        /\ OpenerOf(node) \in Ranges /\ CloserOf(node) \in Ranges
    BY <2>8, NodeRanges DEF node
  <2>10. e[i] = RangesOf(node.lead) \o OpenerOf(node) \o RangesOf(node.prefix)
                 \o FlattenSeq(parts)
                 \o RangesOf(node.suffix) \o CloserOf(node) \o RangesOf(node.trail)
    BY <2>a DEF Emitted, parts, trees, node
  <2>11. \A a, b \in Ranges : a \o b \in Ranges
    BY DEF Ranges
  <2>12. e[i] \in Ranges
    <3> HIDE DEF i
    <3> DEFINE a == RangesOf(node.lead) \o OpenerOf(node) \o RangesOf(node.prefix)
               b == a \o FlattenSeq(parts)
               c == b \o RangesOf(node.suffix)
               d == c \o CloserOf(node)
    <3>1. a \in Ranges
      BY <2>9, <2>11
    <3> HIDE DEF a
    <3>2. b \in Ranges
      BY <2>7, <2>11, <3>1
    <3> HIDE DEF b
    <3>3. c \in Ranges
      BY <2>9, <2>11, <3>2
    <3> HIDE DEF c
    <3>4. d \in Ranges
      BY <2>9, <2>11, <3>3
    <3> HIDE DEF d
    <3>5. d \o RangesOf(node.trail) \in Ranges
      BY <2>9, <2>11, <3>4
    <3> QED BY <2>10, <3>5 DEF a, b, c, d
  <2>13. \A j \in k - 1 .. n : j = i \/ j \in k .. n
    BY <1>0
  <2> HIDE DEF i
  <2>14. \A j \in k - 1 .. n : e[j] \in Ranges
    BY <2>12, <2>13
  <2>15. k - 1 \in 1 .. n + 1
    BY <1>0
  <2> QED BY <2>14, <2>15
<1>3. 1 \in good
  <2> HIDE DEF good
  <2>1. 1 \in Int /\ n + 1 \in Int /\ 1 \in 1 .. n + 1
    BY <1>0
  <2>2. 1 .. n + 1 \subseteq good
    BY <1>1, <1>2, <2>1, CountDown
  <2> QED BY <2>1, <2>2
<1> QED BY <1>3 DEF e

-----------------------------------------------------------------------------
(* The same as a walk over the nodes in their order: before a node comes     *)
(* what is behind the nodes the walk leaves.                                 *)

\* The outline of a tree in preorder.
Preorder(stream) ==
  /\ stream \in Seq(Nodes)
  /\ Len(stream) > 0
  /\ stream[1].depth = 0
  /\ \A i \in 2 .. Len(stream) : stream[i].depth \in 1 .. stream[i - 1].depth + 1

\* The node of depth d on the spine that ends in node n.
Ancestor(stream, n, d) == LargestOf({ i \in 1 .. n : stream[i].depth = d })

\* What is behind the nodes of the spine that ends in node n, up from n to the
\* one of depth d.
Leaving(stream, n, d) ==
  FlattenSeq([k \in 1 .. stream[n].depth + 1 - d |->
                Behind(stream[Ancestor(stream, n, stream[n].depth + 1 - k)])])

Entering(stream, m) ==
  (IF m = 1 THEN <<>> ELSE Leaving(stream, m - 1, stream[m].depth)) \o Ahead(stream[m])

Walk(stream, n) == FlattenSeq([m \in 1 .. n |-> Entering(stream, m)])

\* The greatest position of a set that has one.
LEMMA LargestIs ==
  ASSUME NEW S \in SUBSET Nat, NEW i \in S, \A j \in S : j <= i
  PROVE  LargestOf(S) = i
<1>1. LargestOf(S) \in S /\ \A j \in S : j <= LargestOf(S)
  BY DEF LargestOf
<1>2. LargestOf(S) <= i /\ i <= LargestOf(S) /\ LargestOf(S) \in Nat /\ i \in Nat
  BY <1>1
<1> QED BY <1>2

\* A set of positions of a sequence that is not empty has one.
LEMMA LargestIn ==
  ASSUME NEW n \in Nat, NEW S, S \subseteq 0 .. n, S # {}
  PROVE  LargestOf(S) \in S /\ \A j \in S : j <= LargestOf(S)
<1>1. S \subseteq Nat /\ \A i \in S : i <= n
  OBVIOUS
<1>2. \E i \in S : \A j \in S : j <= i
  BY <1>1, GreatestMember
<1> QED BY <1>2 DEF LargestOf

\* The depths go down by any number of steps, and up by one.
LEMMA Depths ==
  ASSUME NEW stream, Preorder(stream)
  PROVE  /\ stream \in Seq(Nodes) /\ Len(stream) \in Nat /\ Len(stream) > 0
         /\ \A i \in 1 .. Len(stream) : stream[i] \in Nodes /\ stream[i].depth \in Nat
         /\ stream[1].depth = 0
         /\ \A i \in 1 .. Len(stream) - 1 :
              stream[i + 1].depth \in 1 .. stream[i].depth + 1
<1>1. /\ stream \in Seq(Nodes) /\ Len(stream) \in Nat /\ Len(stream) > 0
      /\ \A i \in 1 .. Len(stream) : stream[i] \in Nodes
  BY DEF Preorder
<1>2. \A i \in 1 .. Len(stream) : stream[i].depth \in Nat
  BY <1>1, FieldsOfNode
<1>3. \A i \in 1 .. Len(stream) - 1 : stream[i + 1].depth \in 1 .. stream[i].depth + 1
  <2> TAKE i \in 1 .. Len(stream) - 1
  <2>1. i + 1 \in 2 .. Len(stream) /\ (i + 1) - 1 = i
    BY <1>1
  <2>2. stream[i + 1].depth \in 1 .. stream[(i + 1) - 1].depth + 1
    BY <2>1 DEF Preorder
  <2> QED BY <2>1, <2>2
<1> QED BY <1>1, <1>2, <1>3 DEF Preorder

\* The spine has a node of every depth, and nothing behind it is as shallow.
LEMMA SpineNode ==
  ASSUME NEW stream, Preorder(stream), NEW n \in 1 .. Len(stream),
         NEW d \in 0 .. stream[n].depth
  PROVE  /\ Ancestor(stream, n, d) \in 1 .. n
         /\ stream[Ancestor(stream, n, d)].depth = d
         /\ \A j \in Ancestor(stream, n, d) + 1 .. n : stream[j].depth > d
<1> DEFINE N == Len(stream)
           at(m) == { i \in 1 .. m : stream[i].depth = d }
           good == { m \in 1 .. N : d <= stream[m].depth =>
                       \E i \in at(m) : \A j \in i + 1 .. m : stream[j].depth > d }
<1>0. /\ N \in Nat /\ N > 0 /\ \A i \in 1 .. N : stream[i].depth \in Nat
      /\ stream[1].depth = 0
      /\ \A i \in 1 .. N - 1 : stream[i + 1].depth \in 1 .. stream[i].depth + 1
  BY Depths
<1> HIDE DEF N
<1>a. d \in Nat /\ d <= stream[n].depth /\ n \in 1 .. N
  BY <1>0 DEF N
<1>1. 1 \in good
  <2>1. 1 \in 1 .. N /\ 1 \in 1 .. 1
    BY <1>0
  <2>2. d <= stream[1].depth => stream[1].depth = d
    BY <1>0, <1>a
  <2>3. \A j \in 1 + 1 .. 1 : FALSE
    OBVIOUS
  <2> QED BY <2>1, <2>2, <2>3
<1>2. \A m \in 1 .. N - 1 : m \in good => m + 1 \in good
  <2> SUFFICES ASSUME NEW m \in 1 .. N - 1, m \in good, d <= stream[m + 1].depth
               PROVE  \E i \in at(m + 1) : \A j \in i + 1 .. m + 1 : stream[j].depth > d
    BY <1>0
  <2>1. m \in 1 .. N /\ m + 1 \in 1 .. N
    BY <1>0
  <2>2. CASE stream[m + 1].depth = d
    <3>1. m + 1 \in at(m + 1)
      BY <1>0, <2>2
    <3>2. \A j \in (m + 1) + 1 .. m + 1 : FALSE
      BY <1>0
    <3> HIDE DEF at
    <3> QED BY <3>1, <3>2
  <2>3. CASE stream[m + 1].depth # d
    <3>1. stream[m + 1].depth \in 1 .. stream[m].depth + 1 /\ stream[m].depth \in Nat
      BY <1>0, <2>1
    <3>2. d <= stream[m].depth /\ d < stream[m + 1].depth
      BY <1>a, <2>3, <3>1
    <3>3. PICK i \in at(m) : \A j \in i + 1 .. m : stream[j].depth > d
      BY <3>2
    <3>4. i \in at(m + 1)
      BY <1>0
    <3>5. i \in Int /\ m \in Int /\ i <= m
      BY <1>0
    <3>6. \A j \in i + 1 .. m + 1 : j \in i + 1 .. m \/ j = m + 1
      BY <3>5
    <3>7. \A j \in i + 1 .. m + 1 : stream[j].depth > d
      BY <3>2, <3>3, <3>6
    <3> HIDE DEF at
    <3> QED BY <3>4, <3>7
  <2> QED BY <2>2, <2>3
<1>3. n \in good
  <2> HIDE DEF good
  <2>1. 1 \in Int /\ N \in Int
    BY <1>0
  <2>2. 1 .. N \subseteq good
    BY <1>1, <1>2, <2>1, CountUp
  <2> QED BY <1>a, <2>2
<1>4. PICK i \in at(n) : \A j \in i + 1 .. n : stream[j].depth > d
  BY <1>a, <1>3
<1>5. /\ at(n) \in SUBSET Nat
      /\ \A j \in at(n) : j <= i
  <2>1. n \in Nat
    BY <1>a
  <2>2. ASSUME NEW j \in at(n), ~ (j <= i)
        PROVE  FALSE
    <3>1. j \in i + 1 .. n /\ stream[j].depth = d
      BY <2>1, <2>2
    <3> QED BY <1>4, <1>a, <3>1
  <2> QED BY <2>1, <2>2
<1>6. Ancestor(stream, n, d) = i
  <2>1. Ancestor(stream, n, d) = LargestOf(at(n))
    BY DEF Ancestor
  <2> HIDE DEF at
  <2> QED BY <1>5, <2>1, LargestIs
<1> QED BY <1>4, <1>6

\* It is the only one.
LEMMA SpineNodeIs ==
  ASSUME NEW stream, Preorder(stream), NEW n \in 1 .. Len(stream), NEW i \in 1 .. n,
         \A j \in i + 1 .. n : stream[j].depth > stream[i].depth
  PROVE  Ancestor(stream, n, stream[i].depth) = i /\ stream[i].depth <= stream[n].depth
<1>0. /\ Len(stream) \in Nat /\ \A j \in 1 .. Len(stream) : stream[j].depth \in Nat
  BY Depths
<1> DEFINE S == { j \in 1 .. n : stream[j].depth = stream[i].depth }
<1>1. i \in S /\ S \in SUBSET Nat
  OBVIOUS
<1>2. \A j \in S : j <= i
  <2> SUFFICES ASSUME NEW j \in S, ~ (j <= i)
               PROVE  FALSE
    OBVIOUS
  <2>1. j \in i + 1 .. n /\ stream[j].depth = stream[i].depth /\ stream[i].depth \in Nat
    BY <1>0
  <2> QED BY <2>1
<1>3. LargestOf(S) = i
  <2> HIDE DEF S
  <2> QED BY <1>1, <1>2, LargestIs
<1>4. stream[i].depth <= stream[n].depth
  <2>1. CASE i = n
    BY <1>0, <2>1
  <2>2. CASE i # n
    <3>1. n \in i + 1 .. n /\ stream[n].depth \in Nat /\ stream[i].depth \in Nat
      BY <1>0, <2>2
    <3> QED BY <3>1
  <2> QED BY <2>1, <2>2
<1> QED BY <1>3, <1>4 DEF Ancestor

\* To leave one node more is to give what is behind it last.
LEMMA LeavingGrows ==
  ASSUME NEW stream, Preorder(stream), NEW n \in 1 .. Len(stream)
  PROVE  /\ Leaving(stream, n, stream[n].depth + 1) = <<>>
         /\ \A d \in 0 .. stream[n].depth + 1 : Leaving(stream, n, d) \in Ranges
         /\ \A d \in 0 .. stream[n].depth :
              Leaving(stream, n, d)
                = Leaving(stream, n, d + 1) \o Behind(stream[Ancestor(stream, n, d)])
<1> DEFINE D == stream[n].depth
           back(k) == Behind(stream[Ancestor(stream, n, D + 1 - k)])
           parts(d) == [k \in 1 .. D + 1 - d |-> back(k)]
<1>0. /\ Len(stream) \in Nat /\ D \in Nat
      /\ \A i \in 1 .. Len(stream) : stream[i] \in Nodes
  BY Depths
<1> HIDE DEF D
<1>1. \A k \in 1 .. D + 1 : back(k) \in Ranges
  <2> TAKE k \in 1 .. D + 1
  <2>1. D + 1 - k \in 0 .. D
    BY <1>0
  <2>2. Ancestor(stream, n, D + 1 - k) \in 1 .. n
    BY <2>1, SpineNode DEF D
  <2>3. stream[Ancestor(stream, n, D + 1 - k)] \in Nodes
    BY <1>0, <2>2
  <2> QED BY <2>3, NodeRanges
<1>2. \A d \in 0 .. D + 1 : Leaving(stream, n, d) = FlattenSeq(parts(d))
  BY DEF Leaving, D
<1> HIDE DEF back
<1>3. \A d \in 0 .. D + 1 : parts(d) \in Seq(Ranges) /\ Len(parts(d)) = D + 1 - d
  <2> TAKE d \in 0 .. D + 1
  <2>1. D + 1 - d \in Nat /\ \A k \in 1 .. D + 1 - d : k \in 1 .. D + 1
    BY <1>0
  <2> QED BY <1>1, <2>1
<1>4. \A d \in 0 .. D + 1 : Leaving(stream, n, d) \in Ranges
  <2> TAKE d \in 0 .. D + 1
  <2> DEFINE p == parts(d)
  <2>1. p \in Seq(Ranges)
    BY <1>3
  <2> HIDE DEF p
  <2>2. FlattenSeq(p) \in Ranges
    BY <2>1, FlattenFacts DEF Ranges
  <2> QED BY <1>2, <2>2 DEF p
<1>5. Leaving(stream, n, D + 1) = <<>>
  <2> DEFINE p == parts(D + 1)
  <2>1. D + 1 \in 0 .. D + 1
    BY <1>0
  <2>2. p \in Seq(Ranges) /\ p = <<>>
    <3>1. D + 1 - (D + 1) = 0
      BY <1>0
    <3>2. p = [k \in 1 .. 0 |-> back(k)]
      BY <3>1
    <3>3. [k \in 1 .. 0 |-> back(k)] = <<>>
      OBVIOUS
    <3>4. <<>> \in Seq(Ranges)
      OBVIOUS
    <3> HIDE DEF p
    <3> QED BY <3>2, <3>3, <3>4
  <2>3. p = <<>>
    BY <2>2
  <2> HIDE DEF p
  <2>4. FlattenSeq(p) = <<>>
    BY <2>2, <2>3, FlattenFacts DEF Ranges
  <2> QED BY <1>2, <2>1, <2>4 DEF p
<1>6. ASSUME NEW d \in 0 .. D
      PROVE  Leaving(stream, n, d)
               = Leaving(stream, n, d + 1) \o Behind(stream[Ancestor(stream, n, d)])
  <2> DEFINE p == parts(d)
             q == parts(d + 1)
             last == Behind(stream[Ancestor(stream, n, d)])
             m == D - d
  <2>1. /\ d \in 0 .. D + 1 /\ d + 1 \in 0 .. D + 1 /\ m \in Nat /\ m + 1 \in 1 .. D + 1
        /\ D + 1 - d = m + 1 /\ D + 1 - (d + 1) = m /\ D + 1 - (m + 1) = d
    BY <1>0
  <2>2. p = [k \in 1 .. m + 1 |-> back(k)] /\ q = [k \in 1 .. m |-> back(k)]
    BY <2>1
  <2>3. q \in Seq(Ranges) /\ Len(q) = m
    BY <1>3, <2>1
  <2>4. last = back(m + 1) /\ last \in Ranges
    BY <1>1, <2>1 DEF back
  <2> HIDE DEF p, q, last, m
  <2>5. p = Append(q, last)
    BY <2>1, <2>2, <2>3, <2>4
  <2>6. FlattenSeq(p) = FlattenSeq(q) \o last
    BY <2>3, <2>4, <2>5, FlattenAppend DEF Ranges
  <2> QED BY <1>2, <2>1, <2>6 DEF p, q, last
<1> QED BY <1>4, <1>5, <1>6 DEF D

\* The walk enters the first node, and then each behind what it leaves for it.
LEMMA WalkGrows ==
  ASSUME NEW stream, Preorder(stream)
  PROVE  /\ \A n \in 1 .. Len(stream) : Walk(stream, n) \in Ranges
         /\ Walk(stream, 1) = Ahead(stream[1])
         /\ \A n \in 1 .. Len(stream) - 1 :
              Walk(stream, n + 1)
                = Walk(stream, n) \o (Leaving(stream, n, stream[n + 1].depth) \o Ahead(stream[n + 1]))
<1> DEFINE N == Len(stream)
           enter(m) == Entering(stream, m)
           parts(n) == [m \in 1 .. n |-> enter(m)]
<1>0. /\ N \in Nat /\ N > 0 /\ \A i \in 1 .. N : stream[i] \in Nodes /\ stream[i].depth \in Nat
      /\ \A i \in 1 .. N - 1 : stream[i + 1].depth \in 1 .. stream[i].depth + 1
  BY Depths
<1>1. enter(1) = Ahead(stream[1]) /\ enter(1) \in Ranges
  <2>1. Ahead(stream[1]) \in Ranges
    BY <1>0, NodeRanges
  <2>2. <<>> \o Ahead(stream[1]) = Ahead(stream[1])
    BY <2>1, ConcatEmptySeq DEF Ranges
  <2> QED BY <2>1, <2>2 DEF Entering
<1>2. ASSUME NEW n \in 1 .. N - 1
      PROVE  /\ enter(n + 1) = Leaving(stream, n, stream[n + 1].depth) \o Ahead(stream[n + 1])
             /\ enter(n + 1) \in Ranges
  <2>1. n \in 1 .. N /\ n + 1 \in 1 .. N /\ n + 1 # 1 /\ (n + 1) - 1 = n
    BY <1>0
  <2>2. stream[n + 1].depth \in 0 .. stream[n].depth + 1
    BY <1>0, <2>1
  <2>3. Leaving(stream, n, stream[n + 1].depth) \in Ranges
    BY <2>1, <2>2, LeavingGrows
  <2>4. Ahead(stream[n + 1]) \in Ranges
    BY <1>0, <2>1, NodeRanges
  <2>5. \A a, b \in Ranges : a \o b \in Ranges
    BY DEF Ranges
  <2> QED BY <2>1, <2>3, <2>4, <2>5 DEF Entering
<1>3. \A m \in 1 .. N : enter(m) \in Ranges
  <2> TAKE m \in 1 .. N
  <2>1. CASE m = 1
    BY <1>1, <2>1
  <2>2. CASE m # 1
    <3>1. m - 1 \in 1 .. N - 1 /\ (m - 1) + 1 = m
      BY <1>0, <2>2
    <3>2. enter((m - 1) + 1) \in Ranges
      BY <1>2, <3>1
    <3> QED BY <3>1, <3>2
  <2> QED BY <2>1, <2>2
<1>4. \A n : Walk(stream, n) = FlattenSeq(parts(n))
  BY DEF Walk
<1> HIDE DEF enter, N
<1>5. ASSUME NEW n \in 0 .. N
      PROVE  parts(n) \in Seq(Ranges) /\ Len(parts(n)) = n
  <2>1. n \in Nat /\ \A m \in 1 .. n : m \in 1 .. N
    BY <1>0
  <2> QED BY <1>3, <2>1
<1>6. ASSUME NEW n \in 0 .. N
      PROVE  FlattenSeq(parts(n)) \in Ranges
  <2> DEFINE p == parts(n)
  <2>1. p \in Seq(Ranges)
    BY <1>5
  <2> HIDE DEF p
  <2>2. FlattenSeq(p) \in Ranges
    BY <2>1, FlattenFacts DEF Ranges
  <2> QED BY <2>2 DEF p
<1>7. ASSUME NEW n \in 0 .. N - 1
      PROVE  FlattenSeq(parts(n + 1)) = FlattenSeq(parts(n)) \o enter(n + 1)
  <2> DEFINE p == parts(n + 1)
             q == parts(n)
             last == enter(n + 1)
  <2>1. n \in 0 .. N /\ n + 1 \in 1 .. N /\ n \in Nat
    BY <1>0
  <2>2. p = [m \in 1 .. n + 1 |-> enter(m)] /\ q = [m \in 1 .. n |-> enter(m)]
    OBVIOUS
  <2>3. q \in Seq(Ranges) /\ Len(q) = n
    BY <1>5, <2>1
  <2>4. last \in Ranges
    BY <1>3, <2>1
  <2>5. p = Append(q, last)
    <3> HIDE DEF p, q
    <3> QED BY <2>1, <2>2, <2>3
  <2> HIDE DEF p, q, last
  <2>6. FlattenSeq(p) = FlattenSeq(q) \o last
    BY <2>3, <2>4, <2>5, FlattenAppend DEF Ranges
  <2> QED BY <2>6 DEF p, q, last
<1>8. \A n \in 1 .. N : Walk(stream, n) \in Ranges
  <2> TAKE n \in 1 .. N
  <2>1. n \in 0 .. N
    BY <1>0
  <2> HIDE DEF parts
  <2> QED BY <1>4, <1>6, <2>1
<1>9. Walk(stream, 1) = Ahead(stream[1])
  <2>1. FlattenSeq(parts(0 + 1)) = FlattenSeq(parts(0)) \o enter(0 + 1)
    <3>1. 0 \in 0 .. N - 1
      BY <1>0
    <3> HIDE DEF parts
    <3> QED BY <1>7, <3>1
  <2>2. FlattenSeq(parts(0)) = <<>>
    <3>1. parts(0) = <<>>
      OBVIOUS
    <3>2. FlattenSeq(<<>>) = <<>>
      BY DEF FlattenSeq
    <3> HIDE DEF parts
    <3> QED BY <3>1, <3>2
  <2>3. <<>> \o enter(1) = enter(1)
    BY <1>1, ConcatEmptySeq DEF Ranges
  <2>4. 0 + 1 = 1
    OBVIOUS
  <2> HIDE DEF parts
  <2> QED BY <1>1, <1>4, <2>1, <2>2, <2>3, <2>4
<1>10. ASSUME NEW n \in 1 .. N - 1
       PROVE  Walk(stream, n + 1)
                = Walk(stream, n) \o (Leaving(stream, n, stream[n + 1].depth) \o Ahead(stream[n + 1]))
  <2>1. n \in 0 .. N - 1
    BY <1>0
  <2> HIDE DEF parts
  <2> QED BY <1>2, <1>4, <1>7, <2>1
<1> QED BY <1>8, <1>9, <1>10 DEF N

\* What the walk has given up to node n, once it has left the nodes down to depth d.
Left(stream, n, d) == Walk(stream, n) \o Leaving(stream, n, d)

\* What it has given before node m.
At(stream, m) == IF m = 1 THEN <<>> ELSE Left(stream, m - 1, stream[m].depth)

\* Sequences of ranges, one behind the other.
LEMMA Joined ==
  /\ \A a, b \in Ranges : a \o b \in Ranges
  /\ \A a, b, c \in Ranges : (a \o b) \o c = a \o (b \o c)
  /\ \A a \in Ranges : a \o <<>> = a /\ <<>> \o a = a
  /\ <<>> \in Ranges
<1>1. \A a, b \in Ranges : a \o b \in Ranges
  BY DEF Ranges
<1>2. \A a, b, c \in Ranges : (a \o b) \o c = a \o (b \o c)
  <2> DEFINE S == Int \X Int
  <2> HIDE DEF S
  <2>1. \A a, b, c \in Seq(S) : (a \o b) \o c = a \o (b \o c)
    BY ConcatAssociative
  <2> QED BY <2>1 DEF Ranges, S
<1>3. \A a \in Ranges : a \o <<>> = a /\ <<>> \o a = a
  BY ConcatEmptySeq DEF Ranges
<1>4. <<>> \in Ranges
  BY DEF Ranges
<1> QED BY <1>1, <1>2, <1>3, <1>4

\* The same, of all the walk has given.
LEMMA LeftGrows ==
  ASSUME NEW stream, Preorder(stream), NEW n \in 1 .. Len(stream)
  PROVE  /\ Left(stream, n, stream[n].depth + 1) = Walk(stream, n)
         /\ Walk(stream, n) \in Ranges
         /\ \A d \in 0 .. stream[n].depth + 1 : Left(stream, n, d) \in Ranges
         /\ \A d \in 0 .. stream[n].depth :
              Left(stream, n, d)
                = Left(stream, n, d + 1) \o Behind(stream[Ancestor(stream, n, d)])
<1>0. stream[n].depth \in Nat /\ \A i \in 1 .. Len(stream) : stream[i] \in Nodes
  BY Depths
<1>1. Walk(stream, n) \in Ranges
  BY WalkGrows
<1>2. \A d \in 0 .. stream[n].depth + 1 : Left(stream, n, d) \in Ranges
  BY <1>1, LeavingGrows, Joined DEF Left
<1>3. Left(stream, n, stream[n].depth + 1) = Walk(stream, n)
  <2>1. Leaving(stream, n, stream[n].depth + 1) = <<>>
    BY LeavingGrows
  <2> QED BY <1>1, <2>1, Joined DEF Left
<1>4. ASSUME NEW d \in 0 .. stream[n].depth
      PROVE  Left(stream, n, d)
               = Left(stream, n, d + 1) \o Behind(stream[Ancestor(stream, n, d)])
  <2> DEFINE back == Behind(stream[Ancestor(stream, n, d)])
             more == Leaving(stream, n, d + 1)
  <2>1. Ancestor(stream, n, d) \in 1 .. Len(stream)
    <3>1. Ancestor(stream, n, d) \in 1 .. n
      BY SpineNode
    <3> QED BY <3>1
  <2>2. back \in Ranges
    BY <1>0, <2>1, NodeRanges
  <2>3. d + 1 \in 0 .. stream[n].depth + 1
    BY <1>0
  <2>4. more \in Ranges
    BY <2>3, LeavingGrows
  <2>5. Leaving(stream, n, d) = more \o back
    BY LeavingGrows
  <2> HIDE DEF back, more
  <2>6. Walk(stream, n) \o (more \o back) = (Walk(stream, n) \o more) \o back
    BY <1>1, <2>2, <2>4, Joined
  <2> QED BY <2>5, <2>6 DEF Left, back, more
<1> QED BY <1>1, <1>2, <1>3, <1>4

\* The walk up to a node is what it has given before it, and what is ahead of it.
LEMMA WalkFrom ==
  ASSUME NEW stream, Preorder(stream), NEW m \in 1 .. Len(stream)
  PROVE  At(stream, m) \in Ranges /\ Walk(stream, m) = At(stream, m) \o Ahead(stream[m])
<1>0. /\ Len(stream) \in Nat /\ stream[m] \in Nodes
      /\ \A i \in 1 .. Len(stream) - 1 : stream[i + 1].depth \in 1 .. stream[i].depth + 1
  BY Depths
<1>1. Ahead(stream[m]) \in Ranges
  BY <1>0, NodeRanges
<1>2. CASE m = 1
  BY <1>1, <1>2, WalkGrows, Joined DEF At
<1>3. CASE m # 1
  <2> DEFINE k == m - 1
  <2>1. k \in 1 .. Len(stream) /\ k \in 1 .. Len(stream) - 1 /\ k + 1 = m
    BY <1>0, <1>3
  <2> HIDE DEF k
  <2>2. stream[m].depth \in 0 .. stream[k].depth + 1
    BY <1>0, <2>1
  <2>3. Walk(stream, k) \in Ranges /\ Leaving(stream, k, stream[m].depth) \in Ranges
    BY <2>1, <2>2, WalkGrows, LeavingGrows
  <2>4. Walk(stream, m) = Walk(stream, k) \o (Leaving(stream, k, stream[m].depth) \o Ahead(stream[m]))
    BY <2>1, WalkGrows
  <2>5. At(stream, m) = Walk(stream, k) \o Leaving(stream, k, stream[m].depth)
    BY <1>3 DEF At, Left, k
  <2> DEFINE a == Walk(stream, k)
             b == Leaving(stream, k, stream[m].depth)
             c == Ahead(stream[m])
  <2>6. a \in Ranges /\ b \in Ranges /\ c \in Ranges
    BY <1>1, <2>3
  <2>7. At(stream, m) = a \o b /\ Walk(stream, m) = a \o (b \o c)
    BY <2>4, <2>5
  <2> HIDE DEF a, b, c
  <2>8. At(stream, m) \in Ranges /\ Walk(stream, m) = At(stream, m) \o c
    BY <2>6, <2>7, Joined
  <2> QED BY <2>8 DEF c
<1> QED BY <1>2, <1>3

\* The last node that lies below node i.
End(stream, i) ==
  LargestOf({ j \in i .. Len(stream) : \A m \in i + 1 .. j : stream[m].depth > stream[i].depth })

\* It is the end of the nodes below node i.
LEMMA EndIs ==
  ASSUME NEW stream, Preorder(stream), NEW i \in 1 .. Len(stream)
  PROVE  /\ End(stream, i) \in i .. Len(stream)
         /\ \A m \in i + 1 .. End(stream, i) : stream[m].depth > stream[i].depth
         /\ End(stream, i) < Len(stream) =>
              stream[End(stream, i) + 1].depth <= stream[i].depth
<1> DEFINE n == Len(stream)
           S == { j \in i .. n : \A m \in i + 1 .. j : stream[m].depth > stream[i].depth }
           e == End(stream, i)
<1>0. n \in Nat /\ \A j \in 1 .. n : stream[j].depth \in Nat
  BY Depths
<1>1. i \in S /\ S \subseteq 0 .. n
  BY <1>0
<1>2. e = LargestOf(S)
  BY DEF End
<1> HIDE DEF e
<1>3. e \in S /\ \A j \in S : j <= e
  <2> HIDE DEF S
  <2> QED BY <1>0, <1>1, <1>2, LargestIn
<1>4. ASSUME e < n, ~ (stream[e + 1].depth <= stream[i].depth)
      PROVE  FALSE
  <2>1. e + 1 \in i .. n /\ e + 1 \in 1 .. n /\ \A m \in i + 1 .. e + 1 : m \in i + 1 .. e \/ m = e + 1
    BY <1>0, <1>3, <1>4
  <2>2. stream[e + 1].depth > stream[i].depth
    BY <1>0, <1>4, <2>1
  <2>3. e + 1 \in S
    BY <1>3, <2>1, <2>2
  <2> QED BY <1>0, <1>3, <2>3
<1> QED BY <1>3, <1>4 DEF e

\* The first child of a node comes right behind it, and each child right
\* behind what is below the one before.
LEMMA TreesFollow ==
  ASSUME NEW stream, Preorder(stream), NEW g \in 1 .. Len(stream),
         NEW trees, Lists(trees, stream, g, Len(stream))
  PROVE  /\ trees \in Seq(1 .. Len(stream)) /\ Len(trees) \in Nat
         /\ \A k \in 1 .. Len(trees) :
              trees[k] \in g + 1 .. Len(stream) /\ stream[trees[k]].depth = stream[g].depth + 1
         /\ trees = <<>> => End(stream, g) = g
         /\ trees # <<>> => trees[1] = g + 1 /\ End(stream, g) = End(stream, trees[Len(trees)])
         /\ \A k \in 1 .. Len(trees) - 1 : trees[k + 1] = End(stream, trees[k]) + 1
<1> DEFINE n == Len(stream)
           m == Len(trees)
           D == stream[g].depth
           e == End(stream, g)
           S == Children(stream, g)
<1>0. /\ n \in Nat /\ \A j \in 1 .. n : stream[j].depth \in Nat
      /\ \A i \in 1 .. n - 1 : stream[i + 1].depth \in 1 .. stream[i].depth + 1
  BY Depths
<1>1. /\ trees \in Seq(1 .. n) /\ m \in Nat
      /\ \A k \in 1 .. m : trees[k] \in S
      /\ \A j, k \in 1 .. m : j < k => trees[j] < trees[k]
      /\ \A i \in S : \E k \in 1 .. m : trees[k] = i
  <2>1. \A i \in S : i <= n
    BY DEF Children
  <2> QED BY <2>1 DEF Lists
<1>2. /\ e \in g .. n /\ \A j \in g + 1 .. e : stream[j].depth > D
      /\ e < n => stream[e + 1].depth <= D
  BY EndIs
<1>3. \A i : i \in S <=> i \in g + 1 .. n /\ stream[i].depth = D + 1
                          /\ \A j \in g + 1 .. i : stream[j].depth > D
  BY DEF Children, Child
<1> HIDE DEF S, e, D, n, m
<1>4. \A i \in S : i \in g + 1 .. e
  <2> SUFFICES ASSUME NEW i \in S, ~ (i <= e)
               PROVE  FALSE
    BY <1>0, <1>3
  <2>1. i \in g + 1 .. n /\ \A j \in g + 1 .. i : stream[j].depth > D
    BY <1>3
  <2>2. e + 1 \in g + 1 .. i /\ e < n
    BY <1>0, <1>2, <2>1
  <2>3. stream[e + 1].depth > D /\ stream[e + 1].depth <= D /\ stream[e + 1].depth \in Nat
    BY <1>0, <1>2, <2>1, <2>2
  <2>4. D \in Nat
    BY <1>0 DEF D, n
  <2> QED BY <2>3, <2>4
<1>5. \A i \in g + 1 .. e : stream[i].depth = D + 1 => i \in S
  <2> SUFFICES ASSUME NEW i \in g + 1 .. e, stream[i].depth = D + 1
               PROVE  i \in S
    OBVIOUS
  <2>1. g \in Int /\ e \in Int /\ n \in Int /\ e <= n
    BY <1>0, <1>2 DEF n
  <2>2. i \in g + 1 .. n /\ \A j \in g + 1 .. i : j \in g + 1 .. e
    BY <2>1
  <2>3. \A j \in g + 1 .. i : stream[j].depth > D
    BY <1>2, <2>2
  <2> QED BY <1>3, <2>2, <2>3
<1>6. g \in Nat /\ e \in Nat /\ D \in Nat /\ g \in 1 .. n
  BY <1>0, <1>2 DEF D, n
<1>7. \A k \in 1 .. m : trees[k] \in g + 1 .. n /\ trees[k] \in g + 1 .. e /\ stream[trees[k]].depth = D + 1
  BY <1>1, <1>3, <1>4
<1>8. e # g => g + 1 \in S
  <2> SUFFICES ASSUME e # g
               PROVE  g + 1 \in S
    OBVIOUS
  <2>1. g \in 1 .. n - 1 /\ g + 1 \in g + 1 .. e
    BY <1>0, <1>2, <1>6
  <2>2. stream[g + 1].depth \in 1 .. D + 1 /\ stream[g + 1].depth > D
    BY <1>0, <1>2, <2>1 DEF D
  <2>3. stream[g + 1].depth = D + 1
    BY <1>6, <2>2
  <2> QED BY <1>5, <2>1, <2>3
<1>9. m = 0 => e = g
  BY <1>1, <1>8
<1>10. m > 0 => trees[1] = g + 1
  <2> SUFFICES ASSUME m > 0
               PROVE  trees[1] = g + 1
    OBVIOUS
  <2>1. 1 \in 1 .. m
    BY <1>1
  <2>2. trees[1] \in g + 1 .. e
    BY <1>7, <2>1
  <2>3. g + 1 \in S
    BY <1>6, <1>8, <2>2
  <2>4. PICK k \in 1 .. m : trees[k] = g + 1
    BY <1>1, <2>3
  <2>5. CASE k = 1
    BY <2>4, <2>5
  <2>6. CASE k # 1
    <3>1. 1 < k
      BY <1>1, <2>6
    <3>2. trees[1] < trees[k]
      BY <1>1, <2>1, <3>1
    <3> QED BY <1>6, <2>2, <2>4, <3>2
  <2> QED BY <2>5, <2>6
<1> DEFINE f(k) == End(stream, trees[k])
<1>11. ASSUME NEW k \in 1 .. m
       PROVE  /\ f(k) \in trees[k] .. e
              /\ \A j \in trees[k] + 1 .. f(k) : stream[j].depth > D + 1
              /\ f(k) # e => f(k) + 1 \in S
  <2> DEFINE c == trees[k]
             l == f(k)
  <2>1. c \in g + 1 .. n /\ c \in g + 1 .. e /\ stream[c].depth = D + 1 /\ c \in 1 .. Len(stream)
    BY <1>6, <1>7 DEF n
  <2>2. /\ l \in c .. n /\ \A j \in c + 1 .. l : stream[j].depth > D + 1
        /\ l < n => stream[l + 1].depth <= D + 1
    BY <2>1, EndIs DEF n
  <2> HIDE DEF c, l
  <2>3. l <= e
    <3> SUFFICES ASSUME ~ (l <= e)
                 PROVE  FALSE
      OBVIOUS
    <3>1. e + 1 \in c + 1 .. l /\ e < n /\ e + 1 \in 1 .. n
      BY <1>0, <1>6, <2>1, <2>2
    <3>2. stream[e + 1].depth > D + 1 /\ stream[e + 1].depth <= D /\ stream[e + 1].depth \in Nat
      BY <1>0, <1>2, <2>2, <3>1
    <3> QED BY <1>6, <3>2
  <2>4. l # e => l + 1 \in S
    <3> SUFFICES ASSUME l # e
                 PROVE  l + 1 \in S
      OBVIOUS
    <3>1. l + 1 \in g + 1 .. e /\ l < n /\ l + 1 \in 1 .. n
      BY <1>0, <1>2, <1>6, <2>1, <2>2, <2>3
    <3>2. stream[l + 1].depth > D /\ stream[l + 1].depth <= D + 1 /\ stream[l + 1].depth \in Nat
      BY <1>0, <1>2, <2>2, <3>1
    <3>3. stream[l + 1].depth = D + 1
      BY <1>6, <3>2
    <3> QED BY <1>5, <3>1, <3>3
  <2>5. l \in c .. e
    BY <1>0, <1>6, <2>1, <2>2, <2>3
  <2> QED BY <2>2, <2>4, <2>5 DEF c, l
<1> HIDE DEF f
<1>12. ASSUME NEW k \in 1 .. m - 1
       PROVE  trees[k + 1] = f(k) + 1
  <2>1. k \in 1 .. m /\ k + 1 \in 1 .. m /\ k < k + 1
    BY <1>1
  <2>2. trees[k] < trees[k + 1] /\ trees[k] \in g + 1 .. e /\ trees[k + 1] \in g + 1 .. e
    BY <1>1, <1>7, <2>1
  <2>3. f(k) \in trees[k] .. e
    BY <1>11, <2>1
  <2>4. f(k) < trees[k + 1]
    <3> SUFFICES ASSUME ~ (f(k) < trees[k + 1])
                 PROVE  FALSE
      OBVIOUS
    <3>1. trees[k + 1] \in trees[k] + 1 .. f(k)
      BY <1>6, <2>2, <2>3
    <3>2. stream[trees[k + 1]].depth > D + 1
      BY <1>11, <2>1, <3>1
    <3>3. stream[trees[k + 1]].depth = D + 1
      BY <1>7, <2>1
    <3> QED BY <1>6, <3>2, <3>3
  <2>5. f(k) + 1 \in S
    <3>1. f(k) # e
      BY <1>6, <2>2, <2>3, <2>4
    <3> QED BY <1>11, <2>1, <3>1
  <2>6. PICK j \in 1 .. m : trees[j] = f(k) + 1
    BY <1>1, <2>5
  <2>7. ~ (j < k + 1)
    <3> SUFFICES ASSUME j < k + 1
                 PROVE  FALSE
      OBVIOUS
    <3>1. j = k \/ j < k
      BY <1>1, <2>1
    <3>2. trees[j] <= trees[k]
      <4>1. CASE j = k
        BY <1>6, <2>2, <4>1
      <4>2. CASE j < k
        <5>1. trees[j] < trees[k] /\ trees[j] \in g + 1 .. e
          BY <1>1, <1>7, <2>1, <4>2
        <5> QED BY <1>6, <2>2, <5>1
      <4> QED BY <3>1, <4>1, <4>2
    <3> QED BY <1>6, <2>2, <2>3, <2>6, <3>2
  <2>8. j = k + 1 \/ k + 1 < j
    BY <1>1, <2>1, <2>7
  <2>9. ~ (k + 1 < j)
    <3> SUFFICES ASSUME k + 1 < j
                 PROVE  FALSE
      OBVIOUS
    <3>1. trees[k + 1] < trees[j]
      BY <1>1, <2>1
    <3> QED BY <1>6, <2>2, <2>3, <2>4, <2>6, <3>1
  <2> QED BY <2>6, <2>8, <2>9
<1>13. m > 0 => e = f(m)
  <2> SUFFICES ASSUME m > 0, e # f(m)
               PROVE  FALSE
    OBVIOUS
  <2>1. m \in 1 .. m
    BY <1>1
  <2>2. f(m) + 1 \in S /\ f(m) \in trees[m] .. e
    BY <1>11, <2>1
  <2>3. PICK j \in 1 .. m : trees[j] = f(m) + 1
    BY <1>1, <2>2
  <2>4. trees[j] <= trees[m] /\ trees[m] \in Int
    <3>1. trees[m] \in g + 1 .. e /\ trees[j] \in g + 1 .. e
      BY <1>7, <2>1
    <3>2. j = m \/ j < m
      BY <1>1
    <3>3. j < m => trees[j] < trees[m]
      BY <1>1, <2>1
    <3> QED BY <1>6, <3>1, <3>2, <3>3
  <2> QED BY <1>6, <2>2, <2>3, <2>4
<1>14. (trees = <<>> => m = 0) /\ (trees # <<>> => m > 0)
  BY <1>1 DEF m
<1> QED BY <1>1, <1>7, <1>9, <1>10, <1>12, <1>13, <1>14 DEF n, m, D, e, f

\* Node i and what is below it has been given, and left.
Given(stream, i) == Left(stream, End(stream, i), stream[i].depth)

\* What the walk gives for node i is the emission of it.
Agrees(stream, i) == Given(stream, i) = At(stream, i) \o EmissionFrom(stream)[i]

\* When the walk gives each tree of a node as its emission, it gives the trees
\* one behind the other.
LEMMA TreesAgree ==
  ASSUME NEW stream, Preorder(stream), NEW g \in 1 .. Len(stream),
         \A c \in g + 1 .. Len(stream) : Agrees(stream, c),
         NEW trees, Lists(trees, stream, g, Len(stream))
  PROVE  LET e == EmissionFrom(stream)
             parts == [k \in DOMAIN trees |-> e[trees[k]]]
         IN  /\ FlattenSeq(parts) \in Ranges
             /\ Left(stream, End(stream, g), stream[g].depth + 1) = Walk(stream, g) \o FlattenSeq(parts)
<1> DEFINE e == EmissionFrom(stream)
           n == Len(stream)
           m == Len(trees)
           D == stream[g].depth
           part(k) == e[trees[k]]
           first(k) == [j \in 1 .. k |-> part(j)]
           flat(k) == FlattenSeq(first(k))
           W == Walk(stream, g)
<1>0. /\ n \in Nat /\ stream \in Seq(Nodes) /\ n > 0 /\ \A j \in 1 .. n : stream[j].depth \in Nat
      /\ D \in Nat
  BY Depths
<1>1. /\ trees \in Seq(1 .. n) /\ m \in Nat
      /\ \A k \in 1 .. m : trees[k] \in g + 1 .. n /\ stream[trees[k]].depth = D + 1
      /\ trees = <<>> => End(stream, g) = g
      /\ trees # <<>> => trees[1] = g + 1 /\ End(stream, g) = End(stream, trees[m])
      /\ \A k \in 1 .. m - 1 : trees[k + 1] = End(stream, trees[k]) + 1
  BY TreesFollow
<1>2. \A i \in 1 .. n : e[i] \in Ranges
  BY <1>0, EmissionTyped
<1>3. W \in Ranges /\ Left(stream, g, D + 1) = W
  BY LeftGrows
<1> HIDE DEF e, n, m, D, W
<1>4. \A k \in 1 .. m : trees[k] \in 1 .. n
  BY <1>0, <1>1 DEF n
<1>5. \A k \in 1 .. m : part(k) \in Ranges
  BY <1>2, <1>4
<1> HIDE DEF part
<1>6. ASSUME NEW k \in 0 .. m
      PROVE  first(k) \in Seq(Ranges) /\ Len(first(k)) = k
  <2>1. k \in Nat /\ \A j \in 1 .. k : j \in 1 .. m
    BY <1>1
  <2> QED BY <1>5, <2>1
<1>7. ASSUME NEW k \in 0 .. m
      PROVE  flat(k) \in Ranges
  <2> DEFINE p == first(k)
  <2>1. p \in Seq(Ranges)
    BY <1>6
  <2> HIDE DEF p
  <2>2. FlattenSeq(p) \in Ranges
    BY <2>1, FlattenFacts DEF Ranges
  <2> QED BY <2>2 DEF p
<1>8. ASSUME NEW k \in 0 .. m - 1
      PROVE  flat(k + 1) = flat(k) \o part(k + 1)
  <2> DEFINE p == first(k + 1)
             q == first(k)
             last == part(k + 1)
  <2>1. k \in 0 .. m /\ k + 1 \in 1 .. m /\ k \in Nat
    BY <1>1
  <2>2. p = [j \in 1 .. k + 1 |-> part(j)] /\ q = [j \in 1 .. k |-> part(j)]
    OBVIOUS
  <2>3. q \in Seq(Ranges) /\ Len(q) = k
    BY <1>6, <2>1
  <2>4. last \in Ranges
    BY <1>5, <2>1
  <2>5. p = Append(q, last)
    <3> HIDE DEF p, q
    <3> QED BY <2>1, <2>2, <2>3
  <2> HIDE DEF p, q, last
  <2>6. FlattenSeq(p) = FlattenSeq(q) \o last
    BY <2>3, <2>4, <2>5, FlattenAppend DEF Ranges
  <2> QED BY <2>6 DEF p, q, last
<1>9. flat(0) = <<>>
  <2>1. first(0) = <<>>
    OBVIOUS
  <2>2. FlattenSeq(<<>>) = <<>>
    BY DEF FlattenSeq
  <2> HIDE DEF first
  <2> QED BY <2>1, <2>2
<1>10. FlattenSeq([k \in DOMAIN trees |-> e[trees[k]]]) = flat(m)
  <2>1. DOMAIN trees = 1 .. m
    BY <1>1 DEF m
  <2>2. [k \in DOMAIN trees |-> e[trees[k]]] = first(m)
    BY <2>1 DEF part
  <2> QED BY <2>2
<1> HIDE DEF flat, first
<1> DEFINE reached(k) == Left(stream, End(stream, trees[k]), D + 1)
           good == { k \in 1 .. m : reached(k) = W \o flat(k) }
<1>11. ASSUME NEW k \in 1 .. m
       PROVE  reached(k) = At(stream, trees[k]) \o part(k)
  <2>1. Agrees(stream, trees[k])
    BY <1>1 DEF n
  <2> QED BY <1>1, <2>1 DEF Agrees, Given, part, e
<1>12. m > 0 => 1 \in good
  <2> SUFFICES ASSUME m > 0
               PROVE  1 \in good
    OBVIOUS
  <2>1. 1 \in 1 .. m /\ trees # <<>>
    BY <1>1 DEF m
  <2>2. trees[1] = g + 1 /\ stream[trees[1]].depth = D + 1
    BY <1>1, <2>1
  <2>3. At(stream, trees[1]) = W
    BY <1>3, <2>2 DEF At
  <2>4. flat(1) = part(1)
    <3>1. 0 \in 0 .. m - 1 /\ 0 + 1 = 1
      BY <1>1, <2>1
    <3>2. flat(0 + 1) = flat(0) \o part(0 + 1)
      BY <1>8, <3>1
    <3>3. flat(1) = <<>> \o part(1)
      BY <1>9, <3>1, <3>2
    <3> QED BY <1>5, <2>1, <3>3, Joined
  <2>5. reached(1) = W \o flat(1)
    BY <1>11, <2>1, <2>3, <2>4
  <2> HIDE DEF reached
  <2> QED BY <2>1, <2>5
<1>13. \A k \in 1 .. m - 1 : k \in good => k + 1 \in good
  <2> SUFFICES ASSUME NEW k \in 1 .. m - 1, k \in good
               PROVE  k + 1 \in good
    OBVIOUS
  <2>1. k \in 1 .. m /\ k + 1 \in 1 .. m /\ k \in 0 .. m - 1 /\ k \in 0 .. m
    BY <1>1
  <2>2. reached(k) = W \o flat(k)
    OBVIOUS
  <2>3. At(stream, trees[k + 1]) = reached(k)
    <3>1. trees[k + 1] = End(stream, trees[k]) + 1 /\ stream[trees[k + 1]].depth = D + 1
      BY <1>1, <2>1
    <3>2. End(stream, trees[k]) \in trees[k] .. n /\ trees[k] \in 1 .. n
      BY <1>4, <2>1, EndIs DEF n
    <3> DEFINE next == trees[k + 1]
               at == End(stream, trees[k])
    <3>3. next # 1 /\ next - 1 = at
      <4>1. next = at + 1 /\ at \in Nat /\ at > 0
        <5>1. at \in trees[k] .. n /\ trees[k] \in 1 .. n /\ n \in Nat
          BY <1>0, <3>2
        <5> HIDE DEF at
        <5>2. at \in Nat /\ at > 0
          BY <5>1
        <5> QED BY <3>1, <5>2 DEF at
      <4> HIDE DEF next, at
      <4> QED BY <4>1
    <3> HIDE DEF next, at
    <3>4. At(stream, next) = Left(stream, at, D + 1)
      <4>1. stream[next].depth = D + 1
        BY <3>1 DEF next
      <4> QED BY <3>3, <4>1 DEF At
    <3> QED BY <3>4 DEF next, at
  <2>4. reached(k + 1) = reached(k) \o part(k + 1)
    BY <1>11, <2>1, <2>3
  <2>5. flat(k + 1) = flat(k) \o part(k + 1)
    BY <1>8, <2>1
  <2>6. flat(k) \in Ranges /\ part(k + 1) \in Ranges
    BY <1>5, <1>7, <2>1
  <2> HIDE DEF reached
  <2>7. reached(k + 1) = (W \o flat(k)) \o part(k + 1)
    BY <2>2, <2>4
  <2>8. (W \o flat(k)) \o part(k + 1) = W \o (flat(k) \o part(k + 1))
    BY <1>3, <2>6, Joined
  <2> QED BY <2>1, <2>5, <2>7, <2>8
<1>14. Left(stream, End(stream, g), D + 1) = W \o flat(m)
  <2>1. CASE m = 0
    <3>1. End(stream, g) = g
      BY <1>1, <2>1 DEF m
    <3>2. flat(m) = <<>>
      BY <1>9, <2>1
    <3> QED BY <1>3, <3>1, <3>2, Joined
  <2>2. CASE m # 0
    <3>1. m \in 1 .. m /\ trees # <<>> /\ m > 0 /\ m \in Int /\ 1 \in Int
      BY <1>1, <2>2 DEF m
    <3>2. End(stream, g) = End(stream, trees[m])
      BY <1>1, <3>1
    <3>3. m \in good
      <4> HIDE DEF good
      <4>1. 1 \in good
        BY <1>12, <3>1
      <4>2. 1 .. m \subseteq good
        BY <1>13, <3>1, <4>1, CountUp
      <4> QED BY <3>1, <4>2
    <3>4. reached(m) = W \o flat(m)
      BY <3>3
    <3> QED BY <3>2, <3>4
  <2> QED BY <2>1, <2>2
<1>15. flat(m) \in Ranges
  <2>1. m \in 0 .. m
    BY <1>1
  <2> QED BY <1>7, <2>1
<1> QED BY <1>10, <1>14, <1>15 DEF e, D, W

\* A node with its trees.
LEMMA NodeAgrees ==
  ASSUME NEW stream, Preorder(stream), NEW g \in 1 .. Len(stream),
         \A c \in g + 1 .. Len(stream) : Agrees(stream, c)
  PROVE  Agrees(stream, g)
<1> DEFINE e == EmissionFrom(stream)
           trees == TreesOf(stream, g)
           flat == FlattenSeq([k \in DOMAIN trees |-> e[trees[k]]])
           node == stream[g]
           E == End(stream, g)
           D == node.depth
           at == At(stream, g)
<1>0. /\ Len(stream) \in Nat /\ stream \in Seq(Nodes) /\ Len(stream) > 0
      /\ node \in Nodes /\ D \in Nat
  BY Depths
<1>1. Lists(trees, stream, g, Len(stream))
  BY <1>0, TreesAre
<1>2. flat \in Ranges /\ Left(stream, E, D + 1) = Walk(stream, g) \o flat
  <2> HIDE DEF trees
  <2> QED BY <1>1, TreesAgree
<1>3. e[g] = RangesOf(node.lead) \o OpenerOf(node) \o RangesOf(node.prefix) \o flat
              \o RangesOf(node.suffix) \o CloserOf(node) \o RangesOf(node.trail)
  <2>1. e[g] = Emitted(e, stream, g)
    BY <1>0, EmissionIs
  <2> QED BY <2>1 DEF Emitted
<1>4. /\ RangesOf(node.lead) \in Ranges /\ RangesOf(node.prefix) \in Ranges
      /\ RangesOf(node.suffix) \in Ranges /\ RangesOf(node.trail) \in Ranges
      /\ OpenerOf(node) \in Ranges /\ CloserOf(node) \in Ranges
      /\ Ahead(node) \in Ranges /\ Behind(node) \in Ranges
  BY <1>0, NodeRanges
<1>5. at \in Ranges /\ Walk(stream, g) = at \o Ahead(node)
  BY WalkFrom
<1>6. /\ E \in g .. Len(stream) /\ \A m \in g + 1 .. E : stream[m].depth > D
  BY EndIs
<1>7. E \in 1 .. Len(stream) /\ g \in 1 .. E
  BY <1>0, <1>6
<1>8. Ancestor(stream, E, D) = g /\ D <= stream[E].depth
  BY <1>6, <1>7, SpineNodeIs
<1>9. Left(stream, E, D) = Left(stream, E, D + 1) \o Behind(node)
  <2>1. D \in 0 .. stream[E].depth
    <3>1. stream[E].depth \in Nat
      BY <1>7, Depths
    <3> QED BY <1>0, <1>8, <3>1
  <2>2. Left(stream, E, D) = Left(stream, E, D + 1) \o Behind(stream[Ancestor(stream, E, D)])
    BY <1>7, <2>1, LeftGrows
  <2> QED BY <1>8, <2>2
<1>10. e[g] = (Ahead(node) \o flat) \o Behind(node)
  <2> DEFINE s == RangesOf(node.suffix)
             c == CloserOf(node)
             t == RangesOf(node.trail)
             f == Ahead(node) \o flat
  <2>1. s \in Ranges /\ c \in Ranges /\ t \in Ranges /\ f \in Ranges
    BY <1>2, <1>4, Joined
  <2>2. e[g] = f \o s \o c \o t /\ Behind(node) = s \o c \o t
    BY <1>3 DEF Ahead, Behind
  <2> HIDE DEF s, c, t, f
  <2>3. f \o s \o c = f \o (s \o c) /\ s \o c \in Ranges
    BY <2>1, Joined
  <2>4. f \o (s \o c) \o t = f \o (s \o c \o t)
    BY <2>1, <2>3, Joined
  <2> QED BY <2>2, <2>3, <2>4 DEF f
<1> DEFINE a == Ahead(node)
           b == Behind(node)
<1>11. Given(stream, g) = ((at \o a) \o flat) \o b
  BY <1>2, <1>5, <1>9 DEF Given
<1>12. a \in Ranges /\ b \in Ranges
  BY <1>4
<1>13. e[g] = (a \o flat) \o b
  BY <1>10
<1> HIDE DEF a, b, flat, at, e
<1>14. ((at \o a) \o flat) \o b = at \o ((a \o flat) \o b)
  <2>1. (at \o a) \o flat = at \o (a \o flat) /\ a \o flat \in Ranges
    BY <1>2, <1>5, <1>12, Joined
  <2>2. (at \o (a \o flat)) \o b = at \o ((a \o flat) \o b)
    BY <1>5, <1>12, <2>1, Joined
  <2> QED BY <2>1, <2>2
<1> QED BY <1>11, <1>13, <1>14 DEF Agrees, e, at

\* A stream gives back what a walk over its nodes gives.
LEMMA EmissionIsWalk ==
  ASSUME NEW stream, Preorder(stream)
  PROVE  Emission(stream) = Left(stream, Len(stream), 0)
<1> DEFINE n == Len(stream)
           good == { k \in 1 .. n + 1 : \A i \in k .. n : Agrees(stream, i) }
<1>0. n \in Nat /\ n > 0 /\ stream \in Seq(Nodes) /\ stream[1].depth = 0
      /\ \A j \in 1 .. n : stream[j].depth \in Nat
      /\ \A i \in 1 .. n - 1 : stream[i + 1].depth \in 1 .. stream[i].depth + 1
  BY Depths
<1>1. n + 1 \in good
  BY <1>0
<1>2. \A k \in 1 + 1 .. n + 1 : k \in good => k - 1 \in good
  <2> SUFFICES ASSUME NEW k \in 2 .. n + 1, k \in good
               PROVE  k - 1 \in good
    OBVIOUS
  <2> DEFINE g == k - 1
  <2>1. g \in 1 .. n /\ g + 1 = k /\ g \in 1 .. n + 1
    BY <1>0
  <2>2. \A c \in g + 1 .. n : Agrees(stream, c)
    BY <2>1
  <2> HIDE DEF g
  <2>3. Agrees(stream, g)
    BY <2>1, <2>2, NodeAgrees
  <2>4. \A i \in g .. n : i = g \/ i \in g + 1 .. n
    BY <1>0, <2>1
  <2>5. \A i \in g .. n : Agrees(stream, i)
    BY <2>2, <2>3, <2>4
  <2>6. g \in good
    BY <2>1, <2>5
  <2> QED BY <2>6 DEF g
<1>3. Agrees(stream, 1)
  <2> HIDE DEF good
  <2>1. 1 \in Int /\ n + 1 \in Int /\ 1 \in 1 .. n + 1
    BY <1>0
  <2>2. 1 .. n + 1 \subseteq good
    BY <1>1, <1>2, <2>1, CountDown
  <2>3. 1 \in good
    BY <2>1, <2>2
  <2>4. 1 \in 1 .. n
    BY <1>0
  <2> QED BY <2>3, <2>4 DEF good
<1>4. End(stream, 1) = n
  <2>1. 1 \in 1 .. n
    BY <1>0
  <2>2. End(stream, 1) \in 1 .. n
        /\ (End(stream, 1) < n => stream[End(stream, 1) + 1].depth <= stream[1].depth)
    BY <2>1, EndIs
  <2> SUFFICES ASSUME End(stream, 1) < n
               PROVE  FALSE
    BY <1>0, <2>2
  <2>3. End(stream, 1) \in 1 .. n - 1
    BY <1>0, <2>2
  <2>4. stream[End(stream, 1) + 1].depth \in 1 .. stream[End(stream, 1)].depth + 1
    BY <1>0, <2>3
  <2>5. stream[End(stream, 1)].depth \in Nat
    BY <1>0, <2>2
  <2> QED BY <1>0, <2>2, <2>4, <2>5
<1>5. EmissionFrom(stream)[1] \in Ranges
  <2>1. 1 \in 1 .. n
    BY <1>0
  <2> QED BY <1>0, <2>1, EmissionTyped
<1>6. Left(stream, n, 0) = <<>> \o EmissionFrom(stream)[1]
  BY <1>0, <1>3, <1>4 DEF Agrees, Given, At
<1> QED BY <1>0, <1>5, <1>6, EmissionIs, Joined

-----------------------------------------------------------------------------
(* What settling moves. *)

\* What a node gives but for the comments that settling moves.
Entry(node) == OpenerOf(node) \o RangesOf(node.prefix)
Exit(node) == CloserOf(node) \o RangesOf(node.trail)

\* A node gives the comments that settling moves, and its entry or exit.
LEMMA EntryAndExit ==
  ASSUME NEW node \in Nodes
  PROVE  /\ Entry(node) \in Ranges /\ Exit(node) \in Ranges
         /\ Ahead(node) = RangesOf(node.lead) \o Entry(node)
         /\ Behind(node) = RangesOf(node.suffix) \o Exit(node)
<1> DEFINE l == RangesOf(node.lead)
           o == OpenerOf(node)
           p == RangesOf(node.prefix)
           s == RangesOf(node.suffix)
           c == CloserOf(node)
           t == RangesOf(node.trail)
<1>1. l \in Ranges /\ o \in Ranges /\ p \in Ranges /\ s \in Ranges /\ c \in Ranges /\ t \in Ranges
  BY NodeRanges
<1>2. /\ Ahead(node) = (l \o o) \o p /\ Behind(node) = (s \o c) \o t
      /\ Entry(node) = o \o p /\ Exit(node) = c \o t
  BY DEF Ahead, Behind, Entry, Exit
<1> HIDE DEF l, o, p, s, c, t
<1>3. (l \o o) \o p = l \o (o \o p) /\ (s \o c) \o t = s \o (c \o t)
      /\ o \o p \in Ranges /\ c \o t \in Ranges
  BY <1>1, Joined
<1> QED BY <1>2, <1>3 DEF l, s

\* Sequences are what their members make them.
LEMMA SameMembers ==
  ASSUME NEW S, NEW a \in Seq(S), NEW b \in Seq(S), Len(a) = Len(b),
         \A k \in 1 .. Len(a) : a[k] = b[k]
  PROVE  a = b
OBVIOUS

\* The ranges of comments that are joined.
LEMMA RangesJoined ==
  ASSUME NEW a \in Comments, NEW b \in Comments
  PROVE  a \o b \in Comments /\ RangesOf(a \o b) = RangesOf(a) \o RangesOf(b)
<1>1. a \o b \in Comments
  BY DEF Comments
<1> DEFINE ab == a \o b
           r == RangesOf(a)
           s == RangesOf(b)
           rs == RangesOf(ab)
<1>2. /\ Len(a) \in Nat /\ Len(b) \in Nat /\ Len(ab) = Len(a) + Len(b)
      /\ \A k \in 1 .. Len(ab) : ab[k] = IF k <= Len(a) THEN a[k] ELSE b[k - Len(a)]
  BY DEF Comments
<1>3. /\ r \in Ranges /\ Len(r) = Len(a)
      /\ \A k \in 1 .. Len(a) : r[k] = <<a[k].from, a[k].to>>
  BY RangesOfFacts
<1>4. /\ s \in Ranges /\ Len(s) = Len(b)
      /\ \A k \in 1 .. Len(b) : s[k] = <<b[k].from, b[k].to>>
  BY RangesOfFacts
<1>5. /\ rs \in Ranges /\ Len(rs) = Len(ab)
      /\ \A k \in 1 .. Len(ab) : rs[k] = <<ab[k].from, ab[k].to>>
  BY <1>1, RangesOfFacts
<1> HIDE DEF ab, r, s, rs
<1> DEFINE P == Int \X Int
           both == r \o s
<1>51. r \in Seq(P) /\ s \in Seq(P) /\ rs \in Seq(P)
  BY <1>3, <1>4, <1>5 DEF Ranges
<1> HIDE DEF P
<1>6. /\ both \in Seq(P) /\ Len(both) = Len(r) + Len(s)
      /\ \A k \in 1 .. Len(r) + Len(s) :
           both[k] = IF k <= Len(r) THEN r[k] ELSE s[k - Len(r)]
  BY <1>51
<1> HIDE DEF both
<1>7. \A k \in 1 .. Len(ab) : rs[k] = both[k]
  <2> SUFFICES ASSUME NEW k \in 1 .. Len(ab)
               PROVE  rs[k] = both[k]
    OBVIOUS
  <2>1. CASE k <= Len(a)
    <3>1. k \in 1 .. Len(a)
      BY <1>2, <2>1
    <3>2. k \in 1 .. Len(r) + Len(s) /\ k <= Len(r)
      BY <1>2, <1>3, <1>4, <3>1
    <3>3. both[k] = r[k]
      BY <1>6, <3>2
    <3>4. ab[k] = a[k]
      BY <1>2, <2>1
    <3> QED BY <1>2, <1>3, <1>5, <3>1, <3>3, <3>4
  <2>2. CASE ~ (k <= Len(a))
    <3>1. k - Len(a) \in 1 .. Len(b)
      BY <1>2, <2>2
    <3> QED BY <1>2, <1>3, <1>4, <1>5, <1>6, <2>2, <3>1
  <2> QED BY <2>1, <2>2
<1>8. rs = both
  <2>1. Len(rs) = Len(both) /\ Len(rs) = Len(ab)
    BY <1>2, <1>3, <1>4, <1>5, <1>6
  <2> QED BY <1>51, <1>6, <1>7, <2>1, SameMembers
<1> QED BY <1>1, <1>8 DEF ab, r, s, rs, both

\* A node that has been settled.
LEMMA SettledNode ==
  ASSUME NEW node \in Nodes, NEW a \in Comments, NEW b \in Comments
  PROVE  LET settled == [node EXCEPT !.lead = <<>>, !.suffix = <<>>,
                                     !.trail = @ \o a, !.prefix = @ \o b]
         IN  /\ settled \in Nodes /\ settled.depth = node.depth
             /\ settled.lead = <<>> /\ settled.suffix = <<>>
             /\ Ahead(settled) = Entry(node) \o RangesOf(b)
             /\ Behind(settled) = Exit(node) \o RangesOf(a)
<1> DEFINE settled == [node EXCEPT !.lead = <<>>, !.suffix = <<>>,
                                   !.trail = @ \o a, !.prefix = @ \o b]
<1>1. node.trail \in Comments /\ node.prefix \in Comments
  BY FieldsOfNode
<1>2. <<>> \in Comments /\ node.trail \o a \in Comments /\ node.prefix \o b \in Comments
  <2>1. <<>> \in Comments
    BY DEF Comments
  <2> QED BY <1>1, <2>1, RangesJoined
<1>3. settled \in Nodes
  BY <1>2 DEF Nodes, Comments
<1>4. /\ settled.depth = node.depth /\ settled.kind = node.kind /\ settled.from = node.from
      /\ settled.to = node.to /\ settled.open = node.open
      /\ settled.lead = <<>> /\ settled.suffix = <<>>
      /\ settled.trail = node.trail \o a /\ settled.prefix = node.prefix \o b
  BY DEF Nodes, Comments
<1> HIDE DEF settled
<1>5. OpenerOf(settled) = OpenerOf(node) /\ CloserOf(settled) = CloserOf(node)
  BY <1>4 DEF OpenerOf, CloserOf
<1>6. RangesOf(settled.trail) = RangesOf(node.trail) \o RangesOf(a)
      /\ RangesOf(settled.prefix) = RangesOf(node.prefix) \o RangesOf(b)
  BY <1>1, <1>4, RangesJoined
<1>7. /\ RangesOf(node.trail) \in Ranges /\ RangesOf(node.prefix) \in Ranges
      /\ OpenerOf(node) \in Ranges /\ CloserOf(node) \in Ranges
      /\ RangesOf(a) \in Ranges /\ RangesOf(b) \in Ranges
      /\ RangesOf(<<>>) = <<>>
  BY <1>2, NodeRanges, RangesOfFacts
<1>8. Entry(settled) = Entry(node) \o RangesOf(b) /\ Exit(settled) = Exit(node) \o RangesOf(a)
  <2> DEFINE t == RangesOf(node.trail)
             p == RangesOf(node.prefix)
             o == OpenerOf(node)
             c == CloserOf(node)
             x == RangesOf(a)
             y == RangesOf(b)
  <2>1. /\ Entry(settled) = o \o (p \o y) /\ Entry(node) = o \o p
        /\ Exit(settled) = c \o (t \o x) /\ Exit(node) = c \o t
    BY <1>5, <1>6 DEF Entry, Exit
  <2>2. /\ t \in Ranges /\ p \in Ranges /\ o \in Ranges /\ c \in Ranges
        /\ x \in Ranges /\ y \in Ranges
    BY <1>7
  <2> HIDE DEF t, p, o, c, x, y
  <2>3. o \o (p \o y) = (o \o p) \o y /\ c \o (t \o x) = (c \o t) \o x
    BY <2>2, Joined
  <2> QED BY <2>1, <2>3 DEF x, y
<1>9. Entry(settled) \in Ranges /\ Exit(settled) \in Ranges
      /\ Ahead(settled) = <<>> \o Entry(settled) /\ Behind(settled) = <<>> \o Exit(settled)
  BY <1>3, <1>4, <1>7, EntryAndExit
<1>10. Ahead(settled) = Entry(settled) /\ Behind(settled) = Exit(settled)
  BY <1>9, Joined
<1> QED BY <1>3, <1>4, <1>8, <1>10 DEF settled

\* Where what is below a node ends.
LEMMA EndFrom ==
  ASSUME NEW stream, Preorder(stream), NEW i \in 1 .. Len(stream), NEW m \in i .. Len(stream),
         \A j \in i + 1 .. m : stream[j].depth > stream[i].depth,
         m < Len(stream) => stream[m + 1].depth <= stream[i].depth
  PROVE  End(stream, i) = m
<1> DEFINE n == Len(stream)
           S == { j \in i .. n : \A k \in i + 1 .. j : stream[k].depth > stream[i].depth }
<1>0. n \in Nat /\ stream[i].depth \in Nat /\ \A j \in 1 .. n : stream[j].depth \in Nat
  BY Depths
<1>1. S \in SUBSET Nat /\ m \in S
  BY <1>0
<1>2. \A j \in S : j <= m
  <2> SUFFICES ASSUME NEW j \in S, j > m
               PROVE  FALSE
    BY <1>0
  <2>1. m + 1 \in i + 1 .. j /\ m < n /\ m + 1 \in 1 .. n
    BY <1>0
  <2>2. stream[m + 1].depth > stream[i].depth
    BY <2>1
  <2>3. stream[m + 1].depth \in Nat
    BY <1>0, <2>1
  <2> QED BY <1>0, <2>1, <2>2, <2>3
<1> HIDE DEF S
<1>3. LargestOf(S) = m
  BY <1>1, <1>2, LargestIs
<1> QED BY <1>3 DEF S, End

\* What settling puts in front of the trees of a node.
LEMMA LeadingIs ==
  ASSUME NEW stream, Preorder(stream), NEW g \in 1 .. Len(stream),
         stream[g].kind \notin {"root", "group"} =>
           stream[g].suffix = <<>> /\ (g < Len(stream) => stream[g + 1].depth <= stream[g].depth)
  PROVE  Leading(stream, g) = IF g < Len(stream) /\ stream[g + 1].depth > stream[g].depth
                              THEN stream[g + 1].lead ELSE stream[g].suffix
<1> DEFINE trees == TreesOf(stream, g)
<1>0. /\ Len(stream) \in Nat /\ stream \in Seq(Nodes) /\ \A i \in 1 .. Len(stream) : stream[i].depth \in Nat
  BY Depths
<1>1. Lists(trees, stream, g, Len(stream))
  BY <1>0, TreesAre
<1>2. Leading(stream, g) = CASE stream[g].kind \notin {"root", "group"} -> <<>>
                             [] stream[g].kind \in {"root", "group"} /\ trees = <<>> -> stream[g].suffix
                             [] OTHER -> stream[Head(trees)].lead
  BY DEF Leading
<1> HIDE DEF trees
<1>3. /\ trees \in Seq(1 .. Len(stream)) /\ Len(trees) \in Nat
      /\ \A k \in 1 .. Len(trees) :
           trees[k] \in g + 1 .. Len(stream) /\ stream[trees[k]].depth = stream[g].depth + 1
      /\ trees = <<>> => End(stream, g) = g
      /\ trees # <<>> => trees[1] = g + 1
  BY <1>1, TreesFollow
<1>4. End(stream, g) < Len(stream) => stream[End(stream, g) + 1].depth <= stream[g].depth
  BY EndIs
<1>5. CASE trees = <<>>
  <2>1. g < Len(stream) => stream[g + 1].depth <= stream[g].depth
    BY <1>3, <1>4, <1>5
  <2>2. ~ (g < Len(stream) /\ stream[g + 1].depth > stream[g].depth)
    <3> SUFFICES ASSUME g < Len(stream)
                 PROVE  ~ (stream[g + 1].depth > stream[g].depth)
      OBVIOUS
    <3>1. stream[g + 1].depth \in Nat /\ stream[g].depth \in Nat
      <4>1. g + 1 \in 1 .. Len(stream)
        BY <1>0
      <4> QED BY <1>0, <4>1
    <3> QED BY <2>1, <3>1
  <2> QED BY <1>2, <1>5, <2>2
<1>6. CASE trees # <<>>
  <2>1. 1 \in 1 .. Len(trees) /\ Head(trees) = trees[1]
    BY <1>3, <1>6
  <2>2. Head(trees) = g + 1 /\ g + 1 \in g + 1 .. Len(stream)
        /\ stream[g + 1].depth = stream[g].depth + 1
    BY <1>3, <1>6, <2>1
  <2>3. g < Len(stream) /\ stream[g + 1].depth > stream[g].depth
        /\ ~ (stream[g + 1].depth <= stream[g].depth)
    BY <1>0, <2>2
  <2> QED BY <1>2, <1>6, <2>2, <2>3
<1> QED BY <1>5, <1>6

\* The node that owns node i is the one above it on the spine.
LEMMA ParentIs ==
  ASSUME NEW stream, Preorder(stream), NEW i \in 2 .. Len(stream)
  PROVE  /\ stream[i].depth - 1 \in 0 .. stream[i].depth
         /\ Parent(stream, i) = Ancestor(stream, i, stream[i].depth - 1)
         /\ Parent(stream, i) \in 1 .. i - 1
         /\ stream[Parent(stream, i)].depth = stream[i].depth - 1
         /\ \A j \in Parent(stream, i) + 1 .. i : stream[j].depth >= stream[i].depth
<1> DEFINE n == Len(stream)
           d == stream[i].depth - 1
           a == Ancestor(stream, i, d)
           above == { g \in 1 .. i - 1 : stream[g].depth = d }
           at == { g \in 1 .. i : stream[g].depth = d }
<1>0. /\ n \in Nat /\ i \in Nat /\ i > 1 /\ i <= n
      /\ \A j \in 1 .. n : stream[j].depth \in Nat
      /\ \A j \in 1 .. n - 1 : stream[j + 1].depth \in 1 .. stream[j].depth + 1
  BY Depths
<1>1. stream[i].depth \in Nat /\ stream[i].depth > 0
  <2>1. i - 1 \in 1 .. n - 1 /\ (i - 1) + 1 = i
    BY <1>0
  <2>2. stream[(i - 1) + 1].depth \in 1 .. stream[i - 1].depth + 1
    BY <1>0, <2>1
  <2>3. stream[i].depth \in 1 .. stream[i - 1].depth + 1
    BY <2>1, <2>2
  <2>4. stream[i - 1].depth \in Nat
    BY <1>0, <2>1
  <2> QED BY <2>3, <2>4
<1>2. d \in 0 .. stream[i].depth /\ d # stream[i].depth /\ i \in 1 .. n
  BY <1>0, <1>1
<1>3. a \in 1 .. i /\ stream[a].depth = d /\ \A j \in a + 1 .. i : stream[j].depth > d
  BY <1>2, SpineNode
<1>4. above = at
  <2>1. \A g \in 1 .. i : stream[g].depth = d => g # i
    BY <1>2
  <2> HIDE DEF d
  <2>2. \A g \in 1 .. i : stream[g].depth = d => g \in 1 .. i - 1
    BY <1>0, <2>1
  <2>3. \A g \in 1 .. i - 1 : g \in 1 .. i
    BY <1>0
  <2> QED BY <2>2, <2>3
<1>5. Parent(stream, i) = a
  BY <1>4 DEF Parent, Ancestor
<1>6. a \in 1 .. i - 1
  BY <1>0, <1>2, <1>3
<1>7. \A j \in a + 1 .. i : stream[j].depth >= stream[i].depth
  <2> SUFFICES ASSUME NEW j \in a + 1 .. i
               PROVE  stream[j].depth >= stream[i].depth
    OBVIOUS
  <2>1. j \in 1 .. n
    BY <1>0, <1>6
  <2>2. stream[j].depth > d /\ stream[j].depth \in Nat
    BY <1>0, <1>3, <2>1
  <2> QED BY <1>1, <2>2
<1> QED BY <1>2, <1>3, <1>5, <1>6, <1>7

\* The trees behind a node in the stream that owns it.
Later(stream, i) ==
  LET siblings == TreesOf(stream, Parent(stream, i))
  IN  { siblings[k] : k \in DOMAIN siblings } \ 1 .. i

\* They are the nodes of its depth behind it, up to the end of their stream.
LEMMA LaterIs ==
  ASSUME NEW stream, Preorder(stream), NEW i \in 2 .. Len(stream)
  PROVE  Later(stream, i)
           = { j \in i + 1 .. Len(stream) :
                 /\ stream[j].depth = stream[i].depth
                 /\ \A m \in i + 1 .. j : stream[m].depth >= stream[i].depth }
<1> DEFINE n == Len(stream)
           p == Parent(stream, i)
           trees == TreesOf(stream, p)
           D == stream[i].depth
           listed == { trees[k] : k \in DOMAIN trees }
           S == { j \in i + 1 .. n : /\ stream[j].depth = D
                                     /\ \A m \in i + 1 .. j : stream[m].depth >= D }
<1>0. n \in Nat /\ i \in Nat /\ i > 1 /\ i <= n /\ stream \in Seq(Nodes) /\ n > 0
      /\ \A j \in 1 .. n : stream[j].depth \in Nat
  BY Depths
<1>1. p \in 1 .. i - 1 /\ stream[p].depth = D - 1 /\ \A j \in p + 1 .. i : stream[j].depth >= D
  BY ParentIs
<1>2. p \in 1 .. n /\ i \in 1 .. n /\ D \in Nat
  BY <1>0, <1>1
<1>3. Lists(trees, stream, p, n)
  BY <1>0, <1>2, TreesAre
<1> HIDE DEF trees, p
<1>4. /\ trees \in Seq(1 .. n)
      /\ \A k \in 1 .. Len(trees) : trees[k] \in Children(stream, p)
      /\ \A c \in Children(stream, p) : c <= n => \E k \in 1 .. Len(trees) : trees[k] = c
  BY <1>3 DEF Lists
<1>5. listed = Children(stream, p)
  <2>1. DOMAIN trees = 1 .. Len(trees)
    BY <1>4
  <2>2. \A c \in Children(stream, p) : c <= n
    BY <1>0 DEF Children
  <2> QED BY <1>4, <2>1, <2>2
<1>6. Children(stream, p) = { j \in p + 1 .. n : stream[j].depth = D
                                /\ \A m \in p + 1 .. j : stream[m].depth > D - 1 }
  <2>1. stream[p].depth + 1 = D
    BY <1>1, <1>2
  <2> QED BY <1>1, <2>1 DEF Children, Child
<1>7. \A j \in p + 1 .. n : (\A m \in p + 1 .. j : stream[m].depth > D - 1)
                              <=> \A m \in p + 1 .. j : stream[m].depth >= D
  <2>1. \A m \in p + 1 .. n : stream[m].depth > D - 1 <=> stream[m].depth >= D
    <3> SUFFICES ASSUME NEW m \in p + 1 .. n
                 PROVE  stream[m].depth > D - 1 <=> stream[m].depth >= D
      OBVIOUS
    <3>1. m \in 1 .. n
      BY <1>0, <1>1
    <3>2. stream[m].depth \in Nat
      BY <1>0, <3>1
    <3> HIDE DEF D
    <3> QED BY <1>2, <3>2
  <2>2. \A j \in p + 1 .. n : \A m \in p + 1 .. j : m \in p + 1 .. n
    BY <1>0, <1>1
  <2> QED BY <2>1, <2>2
<1>8. \A j \in p + 1 .. n : j \in S <=>
        j \notin 1 .. i /\ stream[j].depth = D /\ \A m \in p + 1 .. j : stream[m].depth >= D
  <2> SUFFICES ASSUME NEW j \in p + 1 .. n
               PROVE  j \in S <=> /\ j \notin 1 .. i /\ stream[j].depth = D
                                  /\ \A m \in p + 1 .. j : stream[m].depth >= D
    OBVIOUS
  <2> HIDE DEF D
  <2>1. j \in i + 1 .. n <=> j \notin 1 .. i
    BY <1>0, <1>1
  <2>2. j \notin 1 .. i => \A m \in p + 1 .. j : m \in p + 1 .. i \/ m \in i + 1 .. j
    BY <1>0, <1>1
  <2>3. \A m \in i + 1 .. j : m \in p + 1 .. j
    BY <1>0, <1>1
  <2> QED BY <1>1, <2>1, <2>2, <2>3
<1>9. \A j \in S : j \in p + 1 .. n
  BY <1>0, <1>1
<1>10. Later(stream, i) = listed \ 1 .. i
  BY DEF Later, trees, p
<1> HIDE DEF listed, D
<1>11. Later(stream, i) = S
  <2> HIDE DEF S
  <2>1. \A j : j \in Later(stream, i) => j \in S
    BY <1>5, <1>6, <1>7, <1>8, <1>10
  <2>2. \A j : j \in S => j \in Later(stream, i)
    BY <1>5, <1>6, <1>7, <1>8, <1>9, <1>10
  <2> QED BY <2>1, <2>2
<1> QED BY <1>11 DEF D

\* What settling puts behind a node.
LEMMA FollowingIs ==
  ASSUME NEW stream, Preorder(stream), NEW i \in 1 .. Len(stream)
  PROVE  LET e == End(stream, i)
         IN  /\ i = 1 => Following(stream, i) = <<>>
             /\ i # 1 /\ e < Len(stream) /\ stream[e + 1].depth = stream[i].depth
                  => Following(stream, i) = stream[e + 1].lead
             /\ i # 1 /\ ~ (e < Len(stream) /\ stream[e + 1].depth = stream[i].depth)
                  => Following(stream, i) = stream[Parent(stream, i)].suffix
<1> DEFINE n == Len(stream)
           e == End(stream, i)
           c == e + 1
           D == stream[i].depth
           later == Later(stream, i)
<1>0. n \in Nat /\ i \in Nat /\ n > 0 /\ \A j \in 1 .. n : stream[j].depth \in Nat
  BY Depths
<1>1. /\ e \in i .. n
      /\ \A m \in i + 1 .. e : stream[m].depth > D
      /\ e < n => stream[c].depth <= D
  BY EndIs
<1>2. D \in Nat /\ e \in Nat
  BY <1>0, <1>1
<1>3. Following(stream, i) =
        CASE i = 1               -> <<>>
          [] i > 1 /\ later = {} -> stream[Parent(stream, i)].suffix
          [] OTHER -> stream[CHOOSE j \in later : \A k \in later : j <= k].lead
  BY DEF Following, Later
<1>4. CASE i = 1
  BY <1>3, <1>4
<1>5. CASE i # 1
  <2>0. i \in 2 .. n
    BY <1>0, <1>5
  <2>1. later = { j \in i + 1 .. n : stream[j].depth = D
                                       /\ \A m \in i + 1 .. j : stream[m].depth >= D }
    BY <2>0, LaterIs
  <2> HIDE DEF later, D, e
  <2>2. \A j \in later : j > e
    <3> SUFFICES ASSUME NEW j \in later, j <= e
                 PROVE  FALSE
      BY <1>0, <1>2, <2>1
    <3>1. j \in i + 1 .. e /\ stream[j].depth = D
      BY <1>0, <1>1, <1>2, <2>1
    <3>2. stream[j].depth > D
      BY <1>1, <3>1
    <3> QED BY <1>2, <3>1, <3>2
  <2>3. CASE e < n /\ stream[c].depth = D
    <3>1. c \in i + 1 .. n
      BY <1>0, <1>1, <1>2, <2>3
    <3>2. \A m \in i + 1 .. c : stream[m].depth >= D
      <4> SUFFICES ASSUME NEW m \in i + 1 .. c
                   PROVE  stream[m].depth >= D
        OBVIOUS
      <4>1. m \in i + 1 .. e \/ m = c
        BY <1>0, <1>1, <1>2
      <4>2. m \in 1 .. n
        BY <1>0, <3>1
      <4>3. stream[m].depth \in Nat
        BY <1>0, <4>2
      <4> QED BY <1>1, <1>2, <2>3, <4>1, <4>3
    <3>3. c \in later
      BY <2>1, <2>3, <3>1, <3>2
    <3>4. \A k \in later : k \in Nat /\ c <= k
      <4> SUFFICES ASSUME NEW k \in later
                   PROVE  k \in Nat /\ c <= k
        OBVIOUS
      <4>1. k \in Nat
        BY <1>0, <2>1
      <4>2. k > e
        BY <2>2
      <4> QED BY <1>2, <4>1, <4>2
    <3> DEFINE first == CHOOSE j \in later : \A k \in later : j <= k
    <3>5. first \in later /\ \A k \in later : first <= k
      BY <3>3, <3>4
    <3>6. first = c
      <4>1. first \in Nat /\ c <= first /\ first <= c
        BY <3>3, <3>4, <3>5
      <4> HIDE DEF first
      <4> QED BY <1>2, <4>1
    <3>7. later # {}
      BY <3>3
    <3> HIDE DEF first, c
    <3>8. Following(stream, i) = stream[first].lead
      BY <1>3, <1>5, <3>7 DEF first
    <3> QED BY <1>5, <2>3, <3>6, <3>8 DEF c, e, D
  <2>4. CASE ~ (e < n /\ stream[c].depth = D)
    <3>1. later = {}
      <4> SUFFICES ASSUME NEW j \in later
                   PROVE  FALSE
        OBVIOUS
      <4>1. j > e /\ j \in Nat /\ j <= n
        BY <1>0, <2>1, <2>2
      <4>2. e < n /\ c \in i + 1 .. j /\ c \in 1 .. n
        BY <1>0, <1>1, <1>2, <4>1
      <4>3. stream[c].depth >= D
        BY <2>1, <4>2
      <4>4. stream[c].depth <= D
        BY <1>1, <4>2
      <4>5. stream[c].depth \in Nat
        BY <1>0, <4>2
      <4> HIDE DEF c
      <4> QED BY <1>2, <2>4, <4>2, <4>3, <4>4, <4>5
    <3>2. i > 1
      BY <1>0, <1>5
    <3> HIDE DEF c
    <3>3. Following(stream, i) = stream[Parent(stream, i)].suffix
      BY <1>3, <1>5, <3>1, <3>2
    <3> QED BY <1>5, <2>4, <3>3 DEF c, e, D
  <2> QED BY <2>3, <2>4
<1> QED BY <1>4, <1>5

\* A stream whose tokens have no trees, and in which nothing waits for the
\* stream itself.
Settles(stream) ==
  /\ Preorder(stream)
  /\ stream[1].lead = <<>>
  /\ \A i \in 1 .. Len(stream) : stream[i].kind \notin {"root", "group"} =>
       stream[i].suffix = <<>> /\ (i < Len(stream) => stream[i + 1].depth <= stream[i].depth)

\* What settling moves is comments.
LEMMA MovedComments ==
  ASSUME NEW stream, Settles(stream), NEW i \in 1 .. Len(stream)
  PROVE  Leading(stream, i) \in Comments /\ Following(stream, i) \in Comments
<1>0. /\ Preorder(stream) /\ Len(stream) \in Nat /\ i \in Nat
      /\ \A j \in 1 .. Len(stream) : stream[j].lead \in Comments /\ stream[j].suffix \in Comments
  <2>1. Preorder(stream)
    BY DEF Settles
  <2> QED BY <2>1, Depths, FieldsOfNode
<1>1. Leading(stream, i) \in Comments
  <2>1. Leading(stream, i) = IF i < Len(stream) /\ stream[i + 1].depth > stream[i].depth
                             THEN stream[i + 1].lead ELSE stream[i].suffix
    BY <1>0, LeadingIs DEF Settles
  <2>2. i < Len(stream) => i + 1 \in 1 .. Len(stream)
    BY <1>0
  <2> QED BY <1>0, <2>1, <2>2
<1>2. Following(stream, i) \in Comments
  <2> DEFINE e == End(stream, i)
  <2>1. e \in i .. Len(stream)
    BY <1>0, EndIs
  <2>2. /\ i = 1 => Following(stream, i) = <<>>
        /\ i # 1 /\ e < Len(stream) /\ stream[e + 1].depth = stream[i].depth
             => Following(stream, i) = stream[e + 1].lead
        /\ i # 1 /\ ~ (e < Len(stream) /\ stream[e + 1].depth = stream[i].depth)
             => Following(stream, i) = stream[Parent(stream, i)].suffix
    BY <1>0, FollowingIs
  <2>3. i # 1 => Parent(stream, i) \in 1 .. Len(stream)
    <3> SUFFICES ASSUME i # 1
                 PROVE  Parent(stream, i) \in 1 .. Len(stream)
      OBVIOUS
    <3>1. i \in 2 .. Len(stream)
      BY <1>0
    <3>2. Parent(stream, i) \in 1 .. i - 1
      BY <1>0, <3>1, ParentIs
    <3> QED BY <1>0, <3>2
  <2>4. e < Len(stream) => e + 1 \in 1 .. Len(stream)
    BY <1>0, <2>1
  <2>5. <<>> \in Comments
    BY DEF Comments
  <2> HIDE DEF e
  <2> QED BY <1>0, <2>2, <2>3, <2>4, <2>5
<1> QED BY <1>1, <1>2

\* Settling moves comments and nothing else.
LEMMA Settled ==
  ASSUME NEW stream, Settles(stream)
  PROVE  LET new == SettleTrivia(stream)
         IN  /\ Preorder(new) /\ Len(new) = Len(stream)
             /\ \A i \in 1 .. Len(stream) :
                  /\ new[i].depth = stream[i].depth
                  /\ new[i].lead = <<>> /\ new[i].suffix = <<>>
                  /\ Ahead(new[i]) = Entry(stream[i]) \o RangesOf(Leading(stream, i))
                  /\ Behind(new[i]) = Exit(stream[i]) \o RangesOf(Following(stream, i))
             /\ \A n \in 1 .. Len(stream) : \A d : Ancestor(new, n, d) = Ancestor(stream, n, d)
<1> DEFINE new == SettleTrivia(stream)
           N == Len(stream)
           node(i) == [stream[i] EXCEPT !.lead = <<>>, !.suffix = <<>>,
                                        !.trail  = @ \o Following(stream, i),
                                        !.prefix = @ \o Leading(stream, i)]
<1>0. /\ Preorder(stream) /\ N \in Nat /\ N > 0 /\ stream \in Seq(Nodes)
      /\ \A i \in 1 .. N : stream[i] \in Nodes
      /\ stream[1].depth = 0
      /\ \A i \in 2 .. N : stream[i].depth \in 1 .. stream[i - 1].depth + 1
  BY Depths DEF Settles, Preorder
<1>1. new = [i \in 1 .. N |-> node(i)]
  BY <1>0 DEF SettleTrivia
<1>2. \A i \in 1 .. N : /\ node(i) \in Nodes /\ node(i).depth = stream[i].depth
                        /\ node(i).lead = <<>> /\ node(i).suffix = <<>>
                        /\ Ahead(node(i)) = Entry(stream[i]) \o RangesOf(Leading(stream, i))
                        /\ Behind(node(i)) = Exit(stream[i]) \o RangesOf(Following(stream, i))
  BY <1>0, MovedComments, SettledNode
<1> HIDE DEF node
<1>3. new \in Seq(Nodes) /\ Len(new) = N /\ \A i \in 1 .. N : new[i] = node(i)
  BY <1>0, <1>1, <1>2
<1> HIDE DEF new
<1>4. \A i \in 1 .. N : new[i].depth = stream[i].depth
  BY <1>2, <1>3
<1>5. Preorder(new)
  <2>1. \A i \in 2 .. N : i \in 1 .. N /\ i - 1 \in 1 .. N
    BY <1>0
  <2>2. 1 \in 1 .. N
    BY <1>0
  <2> QED BY <1>0, <1>3, <1>4, <2>1, <2>2 DEF Preorder
<1>6. ASSUME NEW n \in 1 .. N, NEW d
      PROVE  Ancestor(new, n, d) = Ancestor(stream, n, d)
  <2>1. \A i \in 1 .. n : i \in 1 .. N
    BY <1>0
  <2>2. { i \in 1 .. n : new[i].depth = d } = { i \in 1 .. n : stream[i].depth = d }
    BY <1>4, <2>1
  <2> QED BY <2>2 DEF Ancestor
<1> QED BY <1>2, <1>3, <1>4, <1>5, <1>6 DEF new

\* The comments given in advance once the settled walk has left node m for
\* depth d.
Advance(stream, m, d) ==
  IF d = stream[m].depth + 1 THEN RangesOf(Leading(stream, m))
                             ELSE RangesOf(Following(stream, Ancestor(stream, m, d)))

\* They wait in the suffix of the node that is left next.
LEMMA AdvanceIsSuffix ==
  ASSUME NEW stream, Settles(stream), NEW m \in 1 .. Len(stream), NEW d \in 0 .. stream[m].depth,
         m < Len(stream) => stream[m + 1].depth <= d
  PROVE  Advance(stream, m, d + 1) = RangesOf(stream[Ancestor(stream, m, d)].suffix)
<1> DEFINE n == Len(stream)
           D == stream[m].depth
<1>0. /\ Preorder(stream) /\ n \in Nat /\ m \in Nat /\ D \in Nat /\ d \in Nat
      /\ \A j \in 1 .. n : stream[j].depth \in Nat
      /\ stream[1].depth = 0
  BY Depths DEF Settles
<1>1. m < n => stream[m + 1].depth \in Nat
  <2>1. m < n => m + 1 \in 1 .. n
    BY <1>0
  <2> QED BY <1>0, <2>1
<1>2. CASE d = D
  <2>1. Ancestor(stream, m, d) = m
    <3>1. \A j \in m + 1 .. m : stream[j].depth > stream[m].depth
      BY <1>0
    <3>2. m \in 1 .. m
      BY <1>0
    <3> QED BY <1>0, <1>2, <3>1, <3>2, SpineNodeIs
  <2>2. ~ (m < n /\ stream[m + 1].depth > D)
    BY <1>0, <1>1, <1>2
  <2>3. Leading(stream, m) = stream[m].suffix
    <3>1. Leading(stream, m) = IF m < n /\ stream[m + 1].depth > D
                               THEN stream[m + 1].lead ELSE stream[m].suffix
      BY <1>0, LeadingIs DEF Settles
    <3> QED BY <2>2, <3>1
  <2>4. Advance(stream, m, d + 1) = RangesOf(Leading(stream, m))
    BY <1>2 DEF Advance
  <2> QED BY <2>1, <2>3, <2>4
<1>3. CASE d # D
  <2> DEFINE k == d + 1
             b == Ancestor(stream, m, k)
             p == Parent(stream, b)
  <2>1. k \in 0 .. D /\ k # D + 1 /\ k > 0 /\ k \in Nat
    BY <1>0, <1>3
  <2>2. b \in 1 .. m /\ stream[b].depth = k /\ \A j \in b + 1 .. m : stream[j].depth > k
    BY <1>0, <2>1, SpineNode
  <2>3. b # 1 /\ b \in 2 .. n /\ b \in 1 .. n /\ m \in b .. n
    BY <1>0, <2>1, <2>2
  <2>4. m < n => stream[m + 1].depth <= k /\ stream[m + 1].depth # k
    BY <1>0, <1>1, <2>1
  <2> HIDE DEF b
  <2>5. End(stream, b) = m
    BY <1>0, <2>2, <2>3, <2>4, EndFrom
  <2>6. Following(stream, b) = stream[p].suffix
    <3>1. ~ (m < n /\ stream[m + 1].depth = stream[b].depth)
      BY <2>2, <2>4
    <3> QED BY <1>0, <2>3, <2>5, <3>1, FollowingIs
  <2>7. p \in 1 .. b - 1 /\ stream[p].depth = k - 1 /\ \A j \in p + 1 .. b : stream[j].depth >= k
    BY <1>0, <2>2, <2>3, ParentIs
  <2> HIDE DEF p
  <2>8. Ancestor(stream, m, d) = p
    <3>1. p \in 1 .. m /\ stream[p].depth = d
      BY <1>0, <2>2, <2>7
    <3>2. \A j \in p + 1 .. m : stream[j].depth > d
      <4> SUFFICES ASSUME NEW j \in p + 1 .. m
                   PROVE  stream[j].depth > d
        OBVIOUS
      <4>1. j \in p + 1 .. b \/ j \in b + 1 .. m
        BY <1>0, <2>2, <2>7
      <4>2. j \in 1 .. n
        BY <1>0, <2>2, <2>7
      <4>3. stream[j].depth >= k \/ stream[j].depth > k
        BY <2>2, <2>7, <4>1
      <4>4. stream[j].depth \in Nat
        BY <1>0, <4>2
      <4> QED BY <1>0, <4>3, <4>4
    <3> QED BY <1>0, <3>1, <3>2, SpineNodeIs
  <2>9. Advance(stream, m, k) = RangesOf(Following(stream, b))
    BY <2>1 DEF Advance, b
  <2> QED BY <2>6, <2>8, <2>9
<1> QED BY <1>2, <1>3

\* They lead the node that comes next.
LEMMA AdvanceIsLead ==
  ASSUME NEW stream, Settles(stream), NEW m \in 1 .. Len(stream) - 1
  PROVE  Advance(stream, m, stream[m + 1].depth) = RangesOf(stream[m + 1].lead)
<1> DEFINE n == Len(stream)
           D == stream[m].depth
           d == stream[m + 1].depth
<1>0. /\ Preorder(stream) /\ n \in Nat /\ m \in Nat /\ D \in Nat /\ m < n /\ m \in 1 .. n
      /\ \A j \in 1 .. n : stream[j].depth \in Nat
      /\ stream[1].depth = 0 /\ d \in 1 .. D + 1
  <2>1. /\ Preorder(stream) /\ n \in Nat /\ \A j \in 1 .. n : stream[j].depth \in Nat
        /\ stream[1].depth = 0 /\ d \in 1 .. D + 1
    BY Depths DEF Settles
  <2> QED BY <2>1
<1>1. CASE d = D + 1
  <2>1. Leading(stream, m) = IF m < n /\ d > D THEN stream[m + 1].lead ELSE stream[m].suffix
    BY <1>0, LeadingIs DEF Settles
  <2>2. m < n /\ d > D
    BY <1>0, <1>1
  <2>3. Advance(stream, m, d) = RangesOf(Leading(stream, m))
    BY <1>1 DEF Advance
  <2> QED BY <2>1, <2>2, <2>3
<1>2. CASE d # D + 1
  <2> DEFINE b == Ancestor(stream, m, d)
  <2>1. d \in 0 .. D /\ d > 0 /\ d \in Nat
    BY <1>0, <1>2
  <2>2. b \in 1 .. m /\ stream[b].depth = d /\ \A j \in b + 1 .. m : stream[j].depth > d
    BY <1>0, <2>1, SpineNode
  <2>3. b # 1 /\ b \in 1 .. n /\ m \in b .. n
    BY <1>0, <2>1, <2>2
  <2> HIDE DEF b
  <2>4. End(stream, b) = m
    <3>1. stream[m + 1].depth <= stream[b].depth
      BY <2>1, <2>2
    <3> HIDE DEF d
    <3>2. \A j \in b + 1 .. m : stream[j].depth > stream[b].depth
      BY <2>2
    <3> QED BY <1>0, <2>3, <3>1, <3>2, EndFrom
  <2>5. Following(stream, b) = stream[m + 1].lead
    <3>1. m < n /\ stream[m + 1].depth = stream[b].depth
      BY <1>0, <2>2
    <3> QED BY <1>0, <2>3, <2>4, <3>1, FollowingIs
  <2>6. Advance(stream, m, d) = RangesOf(Following(stream, b))
    BY <1>2 DEF Advance, b
  <2> QED BY <2>5, <2>6
<1> QED BY <1>1, <1>2

\* What settling moves, and what it leaves, gives ranges.
LEMMA MovedRanges ==
  ASSUME NEW stream, Settles(stream), NEW m \in 1 .. Len(stream)
  PROVE  /\ RangesOf(Leading(stream, m)) \in Ranges /\ RangesOf(Following(stream, m)) \in Ranges
         /\ Entry(stream[m]) \in Ranges /\ Exit(stream[m]) \in Ranges
         /\ RangesOf(stream[m].lead) \in Ranges /\ RangesOf(stream[m].suffix) \in Ranges
         /\ Ahead(stream[m]) = RangesOf(stream[m].lead) \o Entry(stream[m])
         /\ Behind(stream[m]) = RangesOf(stream[m].suffix) \o Exit(stream[m])
<1>1. stream[m] \in Nodes
  BY Depths DEF Settles
<1>2. Leading(stream, m) \in Comments /\ Following(stream, m) \in Comments
  BY MovedComments
<1> QED BY <1>1, <1>2, EntryAndExit, NodeRanges, RangesOfFacts

\* Leaving a settled node gives the same as leaving it unsettled.
LEMMA SettledLeaving ==
  ASSUME NEW stream, Settles(stream), NEW m \in 1 .. Len(stream),
         NEW low \in 0 .. stream[m].depth + 1,
         m < Len(stream) => low = stream[m + 1].depth
  PROVE  RangesOf(Leading(stream, m)) \o Leaving(SettleTrivia(stream), m, low)
           = Leaving(stream, m, low) \o Advance(stream, m, low)
<1> DEFINE new == SettleTrivia(stream)
           D == stream[m].depth
           lead == RangesOf(Leading(stream, m))
           L(d) == Leaving(stream, m, d)
           M(d) == Leaving(new, m, d)
           X(d) == Advance(stream, m, d)
           good == { d \in low .. D + 1 : lead \o M(d) = L(d) \o X(d) }
<1>0. /\ Preorder(stream) /\ D \in Nat /\ low \in Nat /\ m \in 1 .. Len(stream)
  BY Depths DEF Settles
<1>1. Preorder(new) /\ Len(new) = Len(stream) /\ new[m].depth = D
      /\ \A d : Ancestor(new, m, d) = Ancestor(stream, m, d)
      /\ \A i \in 1 .. Len(stream) :
           Behind(new[i]) = Exit(stream[i]) \o RangesOf(Following(stream, i))
  BY Settled
<1>2. lead \in Ranges
  BY MovedRanges
<1>3. /\ L(D + 1) = <<>>
      /\ \A d \in 0 .. D + 1 : L(d) \in Ranges
      /\ \A d \in 0 .. D : L(d) = L(d + 1) \o Behind(stream[Ancestor(stream, m, d)])
  BY <1>0, LeavingGrows
<1> HIDE DEF new
<1>4. /\ M(D + 1) = <<>>
      /\ \A d \in 0 .. D + 1 : M(d) \in Ranges
      /\ \A d \in 0 .. D : M(d) = M(d + 1) \o Behind(new[Ancestor(new, m, d)])
  <2>1. m \in 1 .. Len(new)
    BY <1>1
  <2> QED BY <1>1, <2>1, LeavingGrows
<1>5. X(D + 1) = lead
  BY DEF Advance
<1> HIDE DEF lead, L, M, X
<1>6. D + 1 \in good
  <2>1. D + 1 \in low .. D + 1
    BY <1>0
  <2>2. lead \o M(D + 1) = L(D + 1) \o X(D + 1)
    BY <1>2, <1>3, <1>4, <1>5, Joined
  <2> QED BY <2>1, <2>2
<1>7. \A k \in low + 1 .. D + 1 : k \in good => k - 1 \in good
  <2> SUFFICES ASSUME NEW k \in low + 1 .. D + 1, k \in good
               PROVE  k - 1 \in good
    OBVIOUS
  <2> DEFINE d == k - 1
             a == Ancestor(stream, m, d)
             s == RangesOf(stream[a].suffix)
             x == Exit(stream[a])
             f == RangesOf(Following(stream, a))
  <2>1. d \in 0 .. D /\ d + 1 = k /\ d \in low .. D + 1 /\ k \in 0 .. D + 1 /\ d \in Nat
    BY <1>0
  <2>2. a \in 1 .. m /\ stream[a].depth = d
    BY <1>0, <2>1, SpineNode
  <2>3. a \in 1 .. Len(stream)
    BY <1>0, <2>2
  <2>4. s \in Ranges /\ x \in Ranges /\ f \in Ranges /\ Behind(stream[a]) = s \o x
    BY <2>3, MovedRanges
  <2>5. Behind(new[a]) = x \o f
    BY <1>1, <2>3
  <2>6. X(k) = s
    <3>1. m < Len(stream) => stream[m + 1].depth <= d
      BY <2>1
    <3>2. Advance(stream, m, d + 1) = s
      BY <2>1, <3>1, AdvanceIsSuffix
    <3> QED BY <2>1, <3>2 DEF X
  <2>7. X(d) = f
    <3>1. d # D + 1
      BY <1>0, <2>1
    <3> QED BY <3>1 DEF X, Advance
  <2>8. L(d) = L(k) \o (s \o x) /\ M(d) = M(k) \o (x \o f)
    <3>1. L(d) = L(d + 1) \o Behind(stream[a]) /\ M(d) = M(d + 1) \o Behind(new[a])
      BY <1>1, <1>3, <1>4, <2>1
    <3> HIDE DEF d
    <3> QED BY <2>1, <2>4, <2>5, <3>1
  <2>9. lead \o M(k) = L(k) \o s
    BY <2>6
  <2>10. L(k) \in Ranges /\ M(k) \in Ranges
    BY <1>3, <1>4, <2>1
  <2> DEFINE p == L(k)
             q == M(k)
  <2>11. lead \o (q \o (x \o f)) = (p \o (s \o x)) \o f
    <3>1. p \in Ranges /\ q \in Ranges /\ lead \o q = p \o s
      BY <2>9, <2>10
    <3> HIDE DEF p, q, s, x, f
    <3>2. x \o f \in Ranges /\ p \o s \in Ranges /\ s \o x \in Ranges
      BY <2>4, <3>1, Joined
    <3>3. lead \o (q \o (x \o f)) = (lead \o q) \o (x \o f)
      BY <1>2, <3>1, <3>2, Joined
    <3>4. (p \o s) \o (x \o f) = ((p \o s) \o x) \o f
      BY <2>4, <3>2, Joined
    <3>5. (p \o s) \o x = p \o (s \o x)
      BY <2>4, <3>1, Joined
    <3> QED BY <3>1, <3>3, <3>4, <3>5
  <2> HIDE DEF d, s, x, f
  <2>12. lead \o M(d) = L(d) \o X(d)
    BY <2>7, <2>8, <2>11
  <2> QED BY <2>1, <2>12 DEF d
<1> HIDE DEF good
<1>8. low \in good
  <2>1. low \in Int /\ D + 1 \in Int /\ low \in low .. D + 1
    BY <1>0
  <2>2. low .. D + 1 \subseteq good
    BY <1>6, <1>7, <2>1, CountDown
  <2> QED BY <2>1, <2>2
<1> QED BY <1>8 DEF good, lead, M, L, X, new

\* The same, of three that are named.
LEMMA Associative ==
  ASSUME NEW a \in Ranges, NEW b \in Ranges, NEW c \in Ranges
  PROVE  (a \o b) \o c = a \o (b \o c)
BY Joined

Rejoins(w, f, q, e, g, l, r) ==
  /\ {w, f, q, e, g, l, r} \subseteq Ranges
  /\ f \o q = l \o r

Regrouped(w, f, q, e, g, l, r) ==
  (w \o f) \o (q \o (e \o g)) = (w \o (l \o (r \o e))) \o g

\* Parts that are regrouped, where two stand for two others.
LEMMA Rejoined ==
  ASSUME NEW w, NEW f, NEW q, NEW e, NEW g, NEW l, NEW r, Rejoins(w, f, q, e, g, l, r)
  PROVE  Regrouped(w, f, q, e, g, l, r)
<1> DEFINE end == e \o g
           rest == q \o end
           both == l \o r
           more == r \o e
           longer == l \o more
<1>0. /\ w \in Ranges /\ f \in Ranges /\ q \in Ranges /\ e \in Ranges
      /\ g \in Ranges /\ l \in Ranges /\ r \in Ranges
  BY DEF Rejoins
<1>1. end \in Ranges /\ more \in Ranges /\ both \in Ranges
  BY <1>0, Joined
<1> HIDE DEF end, more
<1>2. rest \in Ranges /\ longer \in Ranges
  BY <1>0, <1>1, Joined
<1> HIDE DEF rest, both, longer
<1>3. (w \o f) \o rest = w \o (f \o rest)
  <2>1. w \in Ranges /\ f \in Ranges /\ rest \in Ranges
    BY <1>0, <1>2
  <2> QED BY <2>1, Associative
<1>4. f \o rest = both \o end
  <2>1. (f \o q) \o end = f \o (q \o end)
    <3>1. f \in Ranges /\ q \in Ranges /\ end \in Ranges
      BY <1>0, <1>1
    <3> QED BY <3>1, Associative
  <2>2. f \o q = both
    BY DEF Rejoins, both
  <2> QED BY <2>1, <2>2 DEF rest
<1>5. both \o end = longer \o g
  <2>1. (both \o e) \o g = both \o (e \o g)
    <3>1. both \in Ranges /\ e \in Ranges /\ g \in Ranges
      BY <1>0, <1>1
    <3> QED BY <3>1, Associative
  <2>2. (l \o r) \o e = l \o (r \o e)
    <3>1. l \in Ranges /\ r \in Ranges /\ e \in Ranges
      BY <1>0
    <3> QED BY <3>1, Associative
  <2> QED BY <2>1, <2>2 DEF end, both, longer, more
<1>6. w \o (longer \o g) = (w \o longer) \o g
  <2>1. w \in Ranges /\ longer \in Ranges /\ g \in Ranges
    BY <1>0, <1>2
  <2> QED BY <2>1, Associative
<1> QED BY <1>3, <1>4, <1>5, <1>6 DEF end, rest, longer, more, Regrouped

\* A walk over a settled stream is ahead by the comments that lead the trees
\* of the node it came to.
LEMMA SettledWalk ==
  ASSUME NEW stream, Settles(stream), NEW n \in 1 .. Len(stream)
  PROVE  Walk(SettleTrivia(stream), n) = Walk(stream, n) \o RangesOf(Leading(stream, n))
<1> DEFINE new == SettleTrivia(stream)
           N == Len(stream)
           lead(m) == RangesOf(Leading(stream, m))
           W(m) == Walk(stream, m)
           V(m) == Walk(new, m)
           good == { m \in 1 .. N : V(m) = W(m) \o lead(m) }
<1>0. /\ Preorder(stream) /\ N \in Nat /\ N > 0 /\ stream[1].lead = <<>>
      /\ \A i \in 1 .. N : stream[i].depth \in Nat
      /\ \A i \in 1 .. N - 1 : stream[i + 1].depth \in 1 .. stream[i].depth + 1
  BY Depths DEF Settles
<1>1. /\ Preorder(new) /\ Len(new) = N
      /\ \A i \in 1 .. N : new[i].depth = stream[i].depth
                             /\ Ahead(new[i]) = Entry(stream[i]) \o lead(i)
  BY Settled
<1>2. /\ \A m \in 1 .. N : W(m) \in Ranges
      /\ W(1) = Ahead(stream[1])
      /\ \A m \in 1 .. N - 1 :
           W(m + 1) = W(m) \o (Leaving(stream, m, stream[m + 1].depth) \o Ahead(stream[m + 1]))
  BY <1>0, WalkGrows
<1> HIDE DEF new
<1>3. /\ V(1) = Ahead(new[1])
      /\ \A m \in 1 .. N - 1 :
           V(m + 1) = V(m) \o (Leaving(new, m, new[m + 1].depth) \o Ahead(new[m + 1]))
  BY <1>1, WalkGrows
<1>4. \A m \in 1 .. N : lead(m) \in Ranges
  BY MovedRanges
<1> HIDE DEF W, V, lead
<1>5. 1 \in good
  <2> DEFINE e == Entry(stream[1])
             r == RangesOf(stream[1].lead)
             f == lead(1)
  <2>1. 1 \in 1 .. N
    BY <1>0
  <2>2. e \in Ranges /\ Ahead(stream[1]) = r \o e
    BY <2>1, MovedRanges
  <2>3. r = <<>>
    <3>1. <<>> \in Comments
      BY DEF Comments
    <3> QED BY <1>0, <3>1, RangesOfFacts
  <2>4. V(1) = e \o f
    BY <1>1, <1>3, <2>1
  <2>5. W(1) = e
    <3> HIDE DEF e, r
    <3> QED BY <1>2, <2>2, <2>3, Joined
  <2> QED BY <2>1, <2>4, <2>5
<1>6. \A m \in 1 .. N - 1 : m \in good => m + 1 \in good
  <2> SUFFICES ASSUME NEW m \in 1 .. N - 1, m \in good
               PROVE  m + 1 \in good
    OBVIOUS
  <2> DEFINE c == m + 1
             low == stream[c].depth
             w == W(m)
             f == lead(m)
             l == Leaving(stream, m, low)
             q == Leaving(new, m, low)
             r == RangesOf(stream[c].lead)
             e == Entry(stream[c])
             g == lead(c)
  <2>1. m \in 1 .. N /\ c \in 1 .. N /\ low \in 0 .. stream[m].depth + 1 /\ m < N
    <3>1. m \in 1 .. N /\ c \in 1 .. N /\ m < N
      BY <1>0
    <3>2. low \in 1 .. stream[m].depth + 1 /\ stream[m].depth \in Nat
      BY <1>0, <3>1
    <3> HIDE DEF low, c
    <3> QED BY <3>1, <3>2
  <2>2. f \o q = l \o r
    <3>1. f \o q = l \o Advance(stream, m, low)
      BY <2>1, SettledLeaving DEF lead, new
    <3>2. Advance(stream, m, low) = r
      BY AdvanceIsLead
    <3> QED BY <3>1, <3>2
  <2>3. /\ w \in Ranges /\ f \in Ranges /\ g \in Ranges /\ r \in Ranges /\ e \in Ranges
        /\ Ahead(stream[c]) = r \o e
    BY <1>2, <1>4, <2>1, MovedRanges
  <2>4. l \in Ranges /\ q \in Ranges
    <3>1. l \in Ranges
      BY <1>0, <2>1, LeavingGrows
    <3>2. low \in 0 .. new[m].depth + 1 /\ m \in 1 .. Len(new)
      BY <1>1, <2>1
    <3>3. q \in Ranges
      BY <1>1, <3>2, LeavingGrows
    <3> QED BY <3>1, <3>3
  <2>5. V(c) = (w \o f) \o (q \o (e \o g))
    <3>1. V(m) = w \o f
      OBVIOUS
    <3>2. new[c].depth = low /\ Ahead(new[c]) = e \o g
      BY <1>1, <2>1
    <3>3. V(c) = V(m) \o (Leaving(new, m, new[c].depth) \o Ahead(new[c]))
      BY <1>3
    <3> QED BY <3>1, <3>2, <3>3
  <2>6. W(c) = w \o (l \o (r \o e))
    BY <1>2, <2>3
  <2> HIDE DEF w, f, l, q, r, e, g
  <2>7. (w \o f) \o (q \o (e \o g)) = (w \o (l \o (r \o e))) \o g
    <3>1. Rejoins(w, f, q, e, g, l, r)
      BY <2>2, <2>3, <2>4 DEF Rejoins
    <3>2. Regrouped(w, f, q, e, g, l, r)
      BY ONLY <3>1, Rejoined
    <3> QED BY ONLY <3>2 DEF Regrouped
  <2>8. V(c) = W(c) \o lead(c)
    BY <2>5, <2>6, <2>7 DEF g
  <2> HIDE DEF c
  <2> QED BY <2>1, <2>8 DEF c
<1> HIDE DEF good
<1>7. n \in good
  <2>1. 1 \in Int /\ N \in Int
    BY <1>0
  <2>2. 1 .. N \subseteq good
    BY <1>5, <1>6, <2>1, CountUp
  <2> QED BY <2>2
<1> QED BY <1>7 DEF good, V, W, lead, new

\* settle_trivia changes no stream it gives back.
LEMMA SettlingKeepsEmission ==
  ASSUME NEW stream, Settles(stream)
  PROVE  /\ Emission(SettleTrivia(stream)) = Emission(stream)
         /\ \A i \in DOMAIN SettleTrivia(stream) :
              SettleTrivia(stream)[i].lead = <<>> /\ SettleTrivia(stream)[i].suffix = <<>>
<1> DEFINE new == SettleTrivia(stream)
           n == Len(stream)
           lead == RangesOf(Leading(stream, n))
           w == Walk(stream, n)
           l == Leaving(stream, n, 0)
           q == Leaving(new, n, 0)
<1>0. /\ Preorder(stream) /\ n \in Nat /\ n > 0 /\ n \in 1 .. n /\ stream[n].depth \in Nat
      /\ stream[1].depth = 0 /\ 1 \in 1 .. n
      /\ \A i \in 1 .. n - 1 : stream[i + 1].depth \in 1 .. stream[i].depth + 1
  <2>1. /\ Preorder(stream) /\ n \in Nat /\ n > 0 /\ \A i \in 1 .. n : stream[i].depth \in Nat
        /\ stream[1].depth = 0
        /\ \A i \in 1 .. n - 1 : stream[i + 1].depth \in 1 .. stream[i].depth + 1
    BY Depths DEF Settles
  <2> QED BY <2>1
<1>1. /\ Preorder(new) /\ Len(new) = n
      /\ \A i \in 1 .. n : new[i].lead = <<>> /\ new[i].suffix = <<>>
      /\ new[n].depth = stream[n].depth
  BY <1>0, Settled
<1>2. Emission(stream) = w \o l
  BY <1>0, EmissionIsWalk DEF Left
<1>3. Emission(new) = Walk(new, n) \o q
  <2> HIDE DEF new
  <2>1. Emission(new) = Left(new, Len(new), 0)
    BY <1>1, EmissionIsWalk
  <2> QED BY <1>1, <2>1 DEF Left
<1>4. Walk(new, n) = w \o lead
  BY <1>0, SettledWalk
<1>5. lead \o q = l \o Advance(stream, n, 0)
  <2>1. 0 \in 0 .. stream[n].depth + 1 /\ ~ (n < Len(stream))
    BY <1>0
  <2> QED BY <1>0, <2>1, SettledLeaving
<1>6. Advance(stream, n, 0) = <<>>
  <2>1. Ancestor(stream, n, 0) = 1
    <3>1. \A j \in 1 + 1 .. n : stream[j].depth > stream[1].depth
      <4> SUFFICES ASSUME NEW j \in 1 + 1 .. n
                   PROVE  stream[j].depth > stream[1].depth
        OBVIOUS
      <4>1. j - 1 \in 1 .. n - 1 /\ (j - 1) + 1 = j
        BY <1>0
      <4>2. stream[(j - 1) + 1].depth \in 1 .. stream[j - 1].depth + 1
        BY <1>0, <4>1
      <4>3. stream[j].depth \in 1 .. stream[j - 1].depth + 1
        BY <4>1, <4>2
      <4> QED BY <1>0, <4>3
    <3> QED BY <1>0, <3>1, SpineNodeIs
  <2>2. Following(stream, 1) = <<>>
    BY <1>0, FollowingIs
  <2>3. RangesOf(<<>>) = <<>>
    <3>1. <<>> \in Comments
      BY DEF Comments
    <3> QED BY <3>1, RangesOfFacts
  <2>4. 0 # stream[n].depth + 1
    BY <1>0
  <2> QED BY <2>1, <2>2, <2>3, <2>4 DEF Advance
<1>7. w \in Ranges /\ l \in Ranges /\ lead \in Ranges /\ q \in Ranges
  <2>1. w \in Ranges
    BY <1>0, WalkGrows
  <2>2. 0 \in 0 .. stream[n].depth + 1 /\ 0 \in 0 .. new[n].depth + 1 /\ n \in 1 .. Len(new)
    BY <1>0, <1>1
  <2>3. l \in Ranges
    BY <1>0, <2>2, LeavingGrows
  <2>4. lead \in Ranges
    BY <1>0, MovedRanges
  <2> HIDE DEF new
  <2>5. q \in Ranges
    BY <1>1, <2>2, LeavingGrows
  <2> QED BY <2>1, <2>3, <2>4, <2>5
<1>8. (w \o lead) \o q = w \o l
  <2> HIDE DEF w, l, lead, q
  <2>1. (w \o lead) \o q = w \o (lead \o q)
    BY <1>7, Joined
  <2>2. l \o <<>> = l
    BY <1>7, Joined
  <2> QED BY <1>5, <1>6, <2>1, <2>2
<1>9. Emission(new) = Emission(stream)
  BY <1>2, <1>3, <1>4, <1>8
<1>10. DOMAIN new = 1 .. n
  <2>1. new \in Seq(Nodes)
    BY <1>1 DEF Preorder
  <2> QED BY <1>1, <2>1
<1> QED BY <1>1, <1>9, <1>10

-----------------------------------------------------------------------------
(* Streams that differ at the end of the walk only. *)

\* Node i is on the spine that ends in node n.
OnSpine(stream, i, n) == \A j \in i + 1 .. n : stream[j].depth > stream[i].depth

\* Up to node n two streams differ only behind nodes that are still on the spine.
Alike(old, new, n) ==
  /\ Preorder(old) /\ Preorder(new)
  /\ n \in 1 .. Len(old) /\ n \in 1 .. Len(new)
  /\ \A i \in 1 .. n : /\ new[i].depth = old[i].depth
                       /\ Ahead(new[i]) = Ahead(old[i])
                       /\ Behind(new[i]) = Behind(old[i]) \/ OnSpine(old, i, n)

\* Their nodes have the same ancestors.
LEMMA AlikeAncestors ==
  ASSUME NEW old, NEW new, NEW n, Alike(old, new, n), NEW m \in 1 .. n, NEW d
  PROVE  Ancestor(new, m, d) = Ancestor(old, m, d)
<1>1. \A i \in 1 .. m : i \in 1 .. n
  BY DEF Alike
<1>2. { i \in 1 .. m : new[i].depth = d } = { i \in 1 .. m : old[i].depth = d }
  BY <1>1 DEF Alike
<1> QED BY <1>2 DEF Ancestor

\* The same nodes are left, and the same is given.
LEMMA AlikeLeaving ==
  ASSUME NEW old, NEW new, NEW n, Alike(old, new, n), NEW m \in 1 .. n,
         NEW d \in 0 .. old[m].depth + 1,
         \A e \in d .. old[m].depth :
           Behind(new[Ancestor(old, m, e)]) = Behind(old[Ancestor(old, m, e)])
  PROVE  Leaving(new, m, d) = Leaving(old, m, d)
<1> DEFINE D == old[m].depth
           back(k) == Behind(old[Ancestor(old, m, D + 1 - k)])
           other(k) == Behind(new[Ancestor(new, m, D + 1 - k)])
<1>0. new[m].depth = D /\ D \in Nat
  <2>1. m \in 1 .. Len(old) /\ Preorder(old)
    BY DEF Alike
  <2> QED BY <2>1, Depths DEF Alike
<1>1. \A k \in 1 .. D + 1 - d : other(k) = back(k)
  <2> SUFFICES ASSUME NEW k \in 1 .. D + 1 - d
               PROVE  other(k) = back(k)
    OBVIOUS
  <2> DEFINE e == D + 1 - k
  <2>1. e \in d .. D
    BY <1>0
  <2> HIDE DEF e
  <2>2. Ancestor(new, m, e) = Ancestor(old, m, e)
    BY AlikeAncestors
  <2>3. Behind(new[Ancestor(old, m, e)]) = Behind(old[Ancestor(old, m, e)])
    BY <2>1
  <2>4. Behind(new[Ancestor(new, m, e)]) = Behind(old[Ancestor(old, m, e)])
    BY <2>2, <2>3
  <2> QED BY <2>4 DEF e
<1> HIDE DEF back, other
<1>2. [k \in 1 .. D + 1 - d |-> other(k)] = [k \in 1 .. D + 1 - d |-> back(k)]
  BY <1>1
<1>3. Leaving(new, m, d) = FlattenSeq([k \in 1 .. D + 1 - d |-> other(k)])
  BY <1>0 DEF Leaving, other
<1>4. Leaving(old, m, d) = FlattenSeq([k \in 1 .. D + 1 - d |-> back(k)])
  BY DEF Leaving, back
<1> QED BY <1>2, <1>3, <1>4

\* So a walk to node n gives the same.
LEMMA AlikeWalk ==
  ASSUME NEW old, NEW new, NEW n, Alike(old, new, n)
  PROVE  Walk(new, n) = Walk(old, n)
<1>0. /\ Preorder(old) /\ n \in 1 .. Len(old) /\ n \in Nat
      /\ \A j \in 1 .. Len(old) : old[j].depth \in Nat
      /\ \A i \in 1 .. Len(old) - 1 : old[i + 1].depth \in 1 .. old[i].depth + 1
      /\ Len(old) \in Nat
  <2>1. Preorder(old) /\ n \in 1 .. Len(old)
    BY DEF Alike
  <2> QED BY <2>1, Depths
<1>1. \A m \in 1 .. n : Entering(new, m) = Entering(old, m)
  <2> SUFFICES ASSUME NEW m \in 1 .. n
               PROVE  Entering(new, m) = Entering(old, m)
    OBVIOUS
  <2>1. new[m].depth = old[m].depth /\ Ahead(new[m]) = Ahead(old[m])
    BY DEF Alike
  <2>2. CASE m = 1
    BY <2>1, <2>2 DEF Entering
  <2>3. CASE m # 1
    <3> DEFINE p == m - 1
               d == old[m].depth
    <3>1. p \in 1 .. n /\ p + 1 = m /\ p \in 1 .. Len(old) - 1 /\ p \in Nat
      BY <1>0, <2>3
    <3>2. d \in 1 .. old[p].depth + 1 /\ old[p].depth \in Nat
      <4>1. old[p + 1].depth \in 1 .. old[p].depth + 1 /\ old[p].depth \in Nat
        BY <1>0, <3>1
      <4> HIDE DEF p
      <4> QED BY <3>1, <4>1
    <3> HIDE DEF p, d
    <3>3. ASSUME NEW e \in d .. old[p].depth
          PROVE  Behind(new[Ancestor(old, p, e)]) = Behind(old[Ancestor(old, p, e)])
      <4> DEFINE a == Ancestor(old, p, e)
      <4>1. e \in 0 .. old[p].depth /\ e \in Nat /\ d \in Nat
        BY <3>2
      <4>2. a \in 1 .. p /\ old[a].depth = e
        <5>1. p \in 1 .. Len(old)
          BY <1>0, <3>1
        <5> QED BY <1>0, <4>1, <5>1, SpineNode
      <4>3. a \in 1 .. n /\ m \in a + 1 .. n
        BY <1>0, <3>1, <4>2
      <4>4. ~ OnSpine(old, a, n)
        <5>1. ~ (old[m].depth > old[a].depth)
          BY <4>1, <4>2 DEF d
        <5> QED BY <4>3, <5>1 DEF OnSpine
      <4> QED BY <4>3, <4>4 DEF Alike
    <3>4. Alike(old, new, p)
      <4>1. \A i \in 1 .. p : i \in 1 .. n /\ (OnSpine(old, i, n) => OnSpine(old, i, p))
        BY <1>0, <3>1 DEF OnSpine
      <4>2. p \in 1 .. Len(new)
        BY <3>1 DEF Alike
      <4>3. p \in 1 .. Len(old)
        BY <1>0, <3>1
      <4> QED BY <4>1, <4>2, <4>3 DEF Alike
    <3>5. Leaving(new, p, d) = Leaving(old, p, d)
      <4>1. d \in 0 .. old[p].depth + 1 /\ p \in 1 .. p
        BY <3>1, <3>2
      <4> QED BY <3>3, <3>4, <4>1, AlikeLeaving
    <3> QED BY <2>1, <2>3, <3>5 DEF Entering, p, d
  <2> QED BY <2>2, <2>3
<1>2. [m \in 1 .. n |-> Entering(new, m)] = [m \in 1 .. n |-> Entering(old, m)]
  BY <1>1
<1> QED BY <1>2 DEF Walk

\* What a stream with another node in the place of node i of its spine is like.
ReplacedBy(stream, new, i, node) ==
  LET n == Len(stream)
  IN  /\ Preorder(new) /\ Len(new) = n
      /\ \A j \in 1 .. n : new[j].depth = stream[j].depth
      /\ \A j \in 1 .. n : j # i => new[j] = stream[j]
      /\ new[i] = node
      /\ \A d \in stream[i].depth + 1 .. stream[n].depth + 1 :
           Left(new, n, d) = Left(stream, n, d)
      /\ Left(new, n, stream[i].depth)
           = Left(stream, n, stream[i].depth + 1) \o Behind(node)

\* A node of the spine is replaced by one that gives the same ahead.
LEMMA Replaced ==
  ASSUME NEW stream, Preorder(stream), NEW i \in 1 .. Len(stream),
         OnSpine(stream, i, Len(stream)), NEW node \in Nodes,
         node.depth = stream[i].depth, Ahead(node) = Ahead(stream[i])
  PROVE  ReplacedBy(stream, [stream EXCEPT ![i] = node], i, node)
<1> DEFINE new == [stream EXCEPT ![i] = node]
           n == Len(stream)
           D == stream[i].depth
<1>0. /\ stream \in Seq(Nodes) /\ n \in Nat /\ n > 0 /\ n \in 1 .. n /\ D \in Nat
      /\ \A j \in 1 .. n : stream[j].depth \in Nat
      /\ stream[1].depth = 0
      /\ \A j \in 2 .. n : stream[j].depth \in 1 .. stream[j - 1].depth + 1
  <2>1. /\ stream \in Seq(Nodes) /\ n \in Nat /\ n > 0 /\ stream[1].depth = 0
        /\ \A j \in 1 .. n : stream[j].depth \in Nat
    BY Depths
  <2> QED BY <2>1 DEF Preorder
<1>1. /\ new \in Seq(Nodes) /\ Len(new) = n /\ new[i] = node
      /\ \A j \in 1 .. n : j # i => new[j] = stream[j]
  BY <1>0
<1> HIDE DEF new
<1>2. \A j \in 1 .. n : new[j].depth = stream[j].depth
  BY <1>1
<1>3. Preorder(new)
  <2>1. \A j \in 2 .. n : j \in 1 .. n /\ j - 1 \in 1 .. n
    BY <1>0
  <2>2. 1 \in 1 .. n
    BY <1>0
  <2> QED BY <1>0, <1>1, <1>2, <2>1, <2>2 DEF Preorder
<1>4. Alike(stream, new, n)
  <2>1. \A j \in 1 .. n : /\ new[j].depth = stream[j].depth
                          /\ Ahead(new[j]) = Ahead(stream[j])
                          /\ Behind(new[j]) = Behind(stream[j]) \/ OnSpine(stream, j, n)
    BY <1>1
  <2> QED BY <1>0, <1>1, <1>3, <2>1 DEF Alike
<1>5. Walk(new, n) = Walk(stream, n)
  BY <1>4, AlikeWalk
<1>6. ASSUME NEW d \in D + 1 .. stream[n].depth + 1
      PROVE  Left(new, n, d) = Left(stream, n, d)
  <2>1. \A e \in d .. stream[n].depth :
          Behind(new[Ancestor(stream, n, e)]) = Behind(stream[Ancestor(stream, n, e)])
    <3> SUFFICES ASSUME NEW e \in d .. stream[n].depth
                 PROVE  Behind(new[Ancestor(stream, n, e)]) = Behind(stream[Ancestor(stream, n, e)])
      OBVIOUS
    <3> DEFINE a == Ancestor(stream, n, e)
    <3>1. e \in 0 .. stream[n].depth /\ e # D
      BY <1>0
    <3>2. a \in 1 .. n /\ stream[a].depth = e
      BY <1>0, <3>1, SpineNode
    <3>3. a # i
      BY <3>1, <3>2
    <3> QED BY <1>1, <3>2, <3>3
  <2>2. d \in 0 .. stream[n].depth + 1
    BY <1>0
  <2>3. Leaving(new, n, d) = Leaving(stream, n, d)
    BY <1>0, <1>4, <2>1, <2>2, AlikeLeaving
  <2> QED BY <1>5, <2>3 DEF Left
<1>7. Left(new, n, D) = Left(stream, n, D + 1) \o Behind(node)
  <2>1. i \in 1 .. n /\ \A j \in i + 1 .. n : stream[j].depth > stream[i].depth
    BY DEF OnSpine
  <2>2. Ancestor(stream, n, D) = i /\ D <= stream[n].depth
    BY <1>0, <2>1, SpineNodeIs
  <2>3. Ancestor(new, n, D) = i
    BY <1>0, <1>4, <2>2, AlikeAncestors
  <2>4. D \in 0 .. new[n].depth /\ D + 1 \in D + 1 .. stream[n].depth + 1 /\ n \in 1 .. Len(new)
    <3>1. new[n].depth = stream[n].depth /\ stream[n].depth \in Nat
      BY <1>0, <1>2
    <3> HIDE DEF D
    <3> QED BY <1>0, <1>1, <2>2, <3>1
  <2>5. Left(new, n, D) = Left(new, n, D + 1) \o Behind(new[Ancestor(new, n, D)])
    <3> HIDE DEF D
    <3> QED BY <1>3, <2>4, LeftGrows
  <2>6. Left(new, n, D + 1) = Left(stream, n, D + 1)
    BY <1>6, <2>4
  <2> QED BY <1>1, <2>3, <2>5, <2>6
<1>8. ReplacedBy(stream, new, i, node)
  BY <1>1, <1>2, <1>3, <1>6, <1>7 DEF ReplacedBy
<1> QED BY <1>8 DEF new

-----------------------------------------------------------------------------
(* The stream while it is built. *)

\* The shape of a stream that is being built: the open nodes are the upper part
\* of the spine that ends in the last node, and comments wait behind the
\* innermost one only; tokens have no stream.
Threaded(stream) ==
  /\ Preorder(stream)
  /\ stream[1].open /\ stream[1].kind = "root" /\ stream[1].lead = <<>>
  /\ \A i \in 2 .. Len(stream) : stream[i].kind # "root"
  /\ \A i \in 1 .. Len(stream) : stream[i].open =>
       /\ stream[i].kind \in {"root", "group"} /\ stream[i].trail = <<>>
       /\ OnSpine(stream, i, Len(stream))
       /\ i # Innermost(stream) => stream[i].suffix = <<>>
  /\ \A k \in 0 .. stream[Innermost(stream)].depth :
       \E i \in OpenNodes(stream) : stream[i].depth = k
  /\ \A i \in 1 .. Len(stream) : stream[i].kind \notin {"root", "group"} =>
       /\ stream[i].prefix = <<>> /\ stream[i].suffix = <<>>
       /\ i < Len(stream) => stream[i + 1].depth <= stream[i].depth

\* Such a stream is one that settle_trivia rearranges.
LEMMA ThreadedSettles ==
  ASSUME NEW stream, Threaded(stream)
  PROVE  Settles(stream)
BY DEF Threaded, Settles

\* The open nodes, and the innermost of them.
LEMMA ThreadedFacts ==
  ASSUME NEW stream, Threaded(stream)
  PROVE  LET n == Len(stream)
             g == Innermost(stream)
             D == stream[g].depth
         IN  /\ Preorder(stream) /\ n \in Nat /\ n > 0
             /\ \A i \in 1 .. n : stream[i] \in Nodes /\ stream[i].depth \in Nat
             /\ OpenNodes(stream) = { i \in 1 .. n : stream[i].open }
             /\ g \in 1 .. n /\ stream[g].open /\ D \in Nat /\ D <= stream[n].depth
             /\ OnSpine(stream, g, n) /\ Ancestor(stream, n, D) = g
             /\ \A i \in OpenNodes(stream) : i <= g /\ stream[i].depth <= D
             /\ \A i, j \in OpenNodes(stream) : i < j => stream[i].depth < stream[j].depth
             /\ \A d \in 0 .. D : stream[Ancestor(stream, n, d)].open
<1> DEFINE n == Len(stream)
           g == Innermost(stream)
           D == stream[g].depth
           open == OpenNodes(stream)
<1>0. /\ Preorder(stream) /\ n \in Nat /\ n > 0 /\ 1 \in 1 .. n /\ n \in 1 .. n
      /\ \A i \in 1 .. n : stream[i] \in Nodes /\ stream[i].depth \in Nat
      /\ stream \in Seq(Nodes) /\ stream[1].depth = 0
  <2>1. /\ Preorder(stream) /\ n \in Nat /\ n > 0
        /\ \A i \in 1 .. n : stream[i] \in Nodes /\ stream[i].depth \in Nat
        /\ stream \in Seq(Nodes) /\ stream[1].depth = 0
    BY Depths DEF Threaded
  <2> QED BY <2>1
<1>1. open = { i \in 1 .. n : stream[i].open }
  BY <1>0 DEF OpenNodes
<1>2. 1 \in open /\ open \subseteq 0 .. n
  BY <1>0, <1>1 DEF Threaded
<1>3. g \in open /\ \A i \in open : i <= g
  <2> HIDE DEF open
  <2>1. LargestOf(open) \in open /\ \A i \in open : i <= LargestOf(open)
    BY <1>0, <1>2, LargestIn
  <2> QED BY <2>1 DEF Innermost, open
<1> HIDE DEF g, open
<1>4. g \in 1 .. n /\ stream[g].open /\ D \in Nat
  BY <1>0, <1>1, <1>3
<1>5. \A i \in open : OnSpine(stream, i, n)
  BY <1>1 DEF Threaded
<1>6. \A i, j \in open : i < j => stream[i].depth < stream[j].depth
  <2> SUFFICES ASSUME NEW i \in open, NEW j \in open, i < j
               PROVE  stream[i].depth < stream[j].depth
    OBVIOUS
  <2>1. j \in i + 1 .. n /\ i \in 1 .. n /\ j \in 1 .. n
    BY <1>0, <1>1
  <2>2. stream[j].depth > stream[i].depth
    BY <1>5, <2>1 DEF OnSpine
  <2> QED BY <1>0, <2>1, <2>2
<1>7. \A i \in open : i <= g /\ stream[i].depth <= D
  <2> SUFFICES ASSUME NEW i \in open
               PROVE  i <= g /\ stream[i].depth <= D
    OBVIOUS
  <2>1. i <= g /\ i \in 1 .. n
    BY <1>1, <1>3
  <2>2. i = g \/ i < g
    BY <1>0, <1>4, <2>1
  <2>3. CASE i = g
    BY <1>4, <2>1, <2>3
  <2>4. CASE i < g
    <3>1. stream[i].depth < D /\ stream[i].depth \in Nat
      BY <1>0, <1>3, <1>6, <2>1, <2>4
    <3> HIDE DEF D
    <3> QED BY <1>4, <2>1, <3>1
  <2> QED BY <2>2, <2>3, <2>4
<1>8. \A i \in open : Ancestor(stream, n, stream[i].depth) = i /\ stream[i].depth <= stream[n].depth
  <2> SUFFICES ASSUME NEW i \in open
               PROVE  Ancestor(stream, n, stream[i].depth) = i /\ stream[i].depth <= stream[n].depth
    OBVIOUS
  <2>1. i \in 1 .. n /\ \A j \in i + 1 .. n : stream[j].depth > stream[i].depth
    BY <1>1, <1>5 DEF OnSpine
  <2> QED BY <1>0, <2>1, SpineNodeIs
<1>9. \A d \in 0 .. D : stream[Ancestor(stream, n, d)].open
  <2> SUFFICES ASSUME NEW d \in 0 .. D
               PROVE  stream[Ancestor(stream, n, d)].open
    OBVIOUS
  <2>1. PICK i \in open : stream[i].depth = d
    BY DEF Threaded, g, open
  <2>2. Ancestor(stream, n, d) = i
    BY <1>8, <2>1
  <2> QED BY <1>1, <2>2
<1> QED BY <1>0, <1>1, <1>3, <1>4, <1>5, <1>6, <1>7, <1>8, <1>9 DEF g, open

\* What a stream has given when the cursor stands in its innermost stream.
Base(stream) == Left(stream, Len(stream), stream[Innermost(stream)].depth + 1)

Pending(stream) == RangesOf(stream[Innermost(stream)].suffix)

\* An open node gives only its suffix when it is left.
LEMMA OpenBehind ==
  ASSUME NEW node \in Nodes, node.open, node.trail = <<>>
  PROVE  Behind(node) = RangesOf(node.suffix)
<1>1. RangesOf(node.suffix) \in Ranges
  BY NodeRanges
<1>2. CloserOf(node) = <<>>
  BY DEF CloserOf
<1>3. RangesOf(node.trail) = <<>>
  <2>1. <<>> \in Comments
    BY DEF Comments
  <2> QED BY <2>1, RangesOfFacts
<1>4. Behind(node) = RangesOf(node.suffix) \o <<>> \o <<>>
  BY <1>2, <1>3 DEF Behind
<1> DEFINE s == RangesOf(node.suffix)
<1> HIDE DEF s
<1>5. s \o <<>> = s
  BY <1>1, Joined DEF s
<1> QED BY <1>4, <1>5 DEF s

\* Both are ranges.
LEMMA BaseTyped ==
  ASSUME NEW stream, Threaded(stream)
  PROVE  Base(stream) \in Ranges /\ Pending(stream) \in Ranges
<1> DEFINE n == Len(stream)
           d == stream[Innermost(stream)].depth + 1
<1>1. /\ Preorder(stream) /\ n \in 1 .. n /\ Innermost(stream) \in 1 .. n
      /\ \A i \in 1 .. n : stream[i] \in Nodes
      /\ d \in 0 .. stream[n].depth + 1
  <2>1. /\ Preorder(stream) /\ n \in Nat /\ n > 0
        /\ \A i \in 1 .. n : stream[i] \in Nodes /\ stream[i].depth \in Nat
        /\ Innermost(stream) \in 1 .. n /\ stream[Innermost(stream)].depth \in Nat
        /\ stream[Innermost(stream)].depth <= stream[n].depth
    BY ThreadedFacts
  <2>2. n \in 1 .. n
    BY <2>1
  <2>3. stream[n].depth \in Nat
    BY <2>1, <2>2
  <2> QED BY <2>1, <2>2, <2>3
<1> HIDE DEF d
<1>2. Left(stream, n, d) \in Ranges
  BY <1>1, LeftGrows
<1>3. RangesOf(stream[Innermost(stream)].suffix) \in Ranges
  BY <1>1, NodeRanges
<1> QED BY <1>2, <1>3 DEF Base, Pending, d

\* A stream that is being built gives back its base and what waits behind it.
LEMMA ThreadedEmission ==
  ASSUME NEW stream, Threaded(stream)
  PROVE  Emission(stream) = Base(stream) \o Pending(stream)
<1> DEFINE n == Len(stream)
           g == Innermost(stream)
           D == stream[g].depth
           L(d) == Left(stream, n, d)
           whole == Base(stream) \o Pending(stream)
           good == { d \in 0 .. D : L(d) = whole }
<1>0. /\ Preorder(stream) /\ n \in Nat /\ n > 0
      /\ \A i \in 1 .. n : stream[i] \in Nodes /\ stream[i].depth \in Nat
      /\ g \in 1 .. n /\ stream[g].open /\ D \in Nat /\ D <= stream[n].depth
      /\ Ancestor(stream, n, D) = g
      /\ \A d \in 0 .. D : stream[Ancestor(stream, n, d)].open
  BY ThreadedFacts
<1>1. n \in 1 .. n
  BY <1>0
<1>2. stream[n].depth \in Nat
  BY <1>0, <1>1
<1>3. /\ \A d \in 0 .. stream[n].depth + 1 : L(d) \in Ranges
      /\ \A d \in 0 .. stream[n].depth :
           L(d) = L(d + 1) \o Behind(stream[Ancestor(stream, n, d)])
  BY <1>0, <1>1, LeftGrows
<1>4. stream[g].trail = <<>>
  BY <1>0 DEF Threaded
<1>5. Behind(stream[g]) = Pending(stream)
  BY <1>0, <1>4, OpenBehind DEF Pending
<1>6. L(D + 1) = Base(stream)
  BY DEF Base
<1> HIDE DEF g, D, L, whole
<1>7. D \in good
  <2>1. D \in 0 .. stream[n].depth /\ D \in 0 .. D
    BY <1>0, <1>2
  <2>2. L(D) = L(D + 1) \o Behind(stream[g])
    BY <1>0, <1>3, <2>1
  <2> QED BY <1>5, <1>6, <2>1, <2>2 DEF whole
<1>8. \A k \in 0 + 1 .. D : k \in good => k - 1 \in good
  <2> SUFFICES ASSUME NEW k \in 1 .. D, k \in good
               PROVE  k - 1 \in good
    BY <1>0
  <2> DEFINE d == k - 1
             a == Ancestor(stream, n, d)
  <2>1. d \in 0 .. D /\ d + 1 = k /\ d # D /\ d \in 0 .. stream[n].depth
        /\ k \in 0 .. stream[n].depth + 1
    BY <1>0, <1>2
  <2> HIDE DEF d
  <2>2. a \in 1 .. n /\ stream[a].depth = d /\ stream[a].open
    <3>1. stream[a].open
      BY <1>0, <2>1
    <3> QED BY <1>0, <1>1, <2>1, <3>1, SpineNode
  <2>3. a # g
    BY <2>1, <2>2 DEF D
  <2>4. stream[a].trail = <<>> /\ stream[a].suffix = <<>>
    BY <2>2, <2>3 DEF Threaded, g
  <2> HIDE DEF a
  <2>5. Behind(stream[a]) = RangesOf(<<>>)
    BY <1>0, <2>2, <2>4, OpenBehind
  <2>6. RangesOf(<<>>) = <<>>
    <3>1. <<>> \in Comments
      BY DEF Comments
    <3> QED BY <3>1, RangesOfFacts
  <2>7. L(d) = L(k) \o <<>>
    BY <1>3, <2>1, <2>5, <2>6 DEF a
  <2>8. L(d) = L(k)
    BY <1>3, <2>1, <2>7, Joined
  <2> QED BY <2>1, <2>8 DEF d
<1> HIDE DEF good
<1>9. 0 \in good
  <2>1. 0 \in Int /\ D \in Int /\ 0 \in 0 .. D
    BY <1>0
  <2>2. 0 .. D \subseteq good
    BY <1>7, <1>8, <2>1, CountDown
  <2> QED BY <2>1, <2>2
<1>10. Emission(stream) = L(0)
  BY <1>0, EmissionIsWalk DEF L
<1> QED BY <1>9, <1>10 DEF good, whole

\* Comments on a node of a stream leave its shape.
LEMMA Touched ==
  ASSUME NEW stream, Threaded(stream), NEW i \in 1 .. Len(stream), NEW node \in Nodes,
         node.kind = stream[i].kind, node.depth = stream[i].depth,
         node.open = stream[i].open, node.lead = stream[i].lead,
         node.open => node.trail = <<>>,
         i # Innermost(stream) => node.suffix = stream[i].suffix,
         node.kind \notin {"root", "group"} => node.prefix = <<>> /\ node.suffix = <<>>
  PROVE  LET new == [stream EXCEPT ![i] = node]
         IN  Threaded(new) /\ Innermost(new) = Innermost(stream)
<1> DEFINE new == [stream EXCEPT ![i] = node]
           n == Len(stream)
           g == Innermost(stream)
<1>0. /\ stream \in Seq(Nodes) /\ n \in Nat /\ n > 0 /\ stream[1].depth = 0
      /\ \A j \in 2 .. n : stream[j].depth \in 1 .. stream[j - 1].depth + 1
      /\ 1 \in 1 .. n /\ g \in 1 .. n /\ i \in 1 .. n
      /\ OpenNodes(stream) = { j \in 1 .. n : stream[j].open }
  <2>1. /\ n \in Nat /\ n > 0 /\ g \in 1 .. n /\ Preorder(stream)
        /\ OpenNodes(stream) = { j \in 1 .. n : stream[j].open }
    BY ThreadedFacts
  <2> QED BY <2>1 DEF Preorder
<1>1. /\ new \in Seq(Nodes) /\ Len(new) = n /\ new[i] = node
      /\ \A j \in 1 .. n : j # i => new[j] = stream[j]
  BY <1>0
<1> HIDE DEF new
<1>2. \A j \in 1 .. n : /\ new[j].depth = stream[j].depth /\ new[j].kind = stream[j].kind
                        /\ new[j].open = stream[j].open /\ new[j].lead = stream[j].lead
                        /\ j # g => new[j].suffix = stream[j].suffix
  BY <1>1
<1>3. Preorder(new)
  <2>1. \A j \in 2 .. n : j \in 1 .. n /\ j - 1 \in 1 .. n
    BY <1>0
  <2> QED BY <1>0, <1>1, <1>2, <2>1 DEF Preorder
<1>4. OpenNodes(new) = OpenNodes(stream)
  <2>1. DOMAIN new = 1 .. n
    BY <1>1
  <2>2. OpenNodes(new) = { j \in 1 .. n : new[j].open }
    BY <2>1 DEF OpenNodes
  <2> QED BY <1>0, <1>2, <2>2
<1>5. Innermost(new) = g
  BY <1>4 DEF Innermost
<1>6. \A j \in 1 .. n : OnSpine(stream, j, n) => OnSpine(new, j, n)
  <2> SUFFICES ASSUME NEW j \in 1 .. n, OnSpine(stream, j, n), NEW k \in j + 1 .. n
               PROVE  new[k].depth > new[j].depth
    BY DEF OnSpine
  <2>1. k \in 1 .. n
    BY <1>0
  <2> QED BY <1>2, <2>1 DEF OnSpine
<1>7. \A j \in 1 .. n : new[j].open =>
        /\ new[j].kind \in {"root", "group"} /\ new[j].trail = <<>>
        /\ OnSpine(new, j, n)
        /\ j # g => new[j].suffix = <<>>
  <2> SUFFICES ASSUME NEW j \in 1 .. n, new[j].open
               PROVE  /\ new[j].kind \in {"root", "group"} /\ new[j].trail = <<>>
                      /\ OnSpine(new, j, n)
                      /\ j # g => new[j].suffix = <<>>
    OBVIOUS
  <2>1. stream[j].open
    BY <1>2
  <2>2. /\ stream[j].kind \in {"root", "group"} /\ stream[j].trail = <<>>
        /\ OnSpine(stream, j, n)
        /\ j # g => stream[j].suffix = <<>>
    BY <2>1 DEF Threaded
  <2>3. new[j].trail = <<>>
    BY <1>1, <2>2
  <2> QED BY <1>2, <1>6, <2>2, <2>3
<1>8. \A k \in 0 .. new[g].depth : \E j \in OpenNodes(new) : new[j].depth = k
  <2>1. \A j \in OpenNodes(stream) : j \in 1 .. n
    BY <1>0
  <2>2. \A k \in 0 .. stream[g].depth : \E j \in OpenNodes(stream) : stream[j].depth = k
    BY DEF Threaded
  <2>3. new[g].depth = stream[g].depth
    BY <1>0, <1>2
  <2> SUFFICES ASSUME NEW k \in 0 .. new[g].depth
               PROVE  \E j \in OpenNodes(new) : new[j].depth = k
    OBVIOUS
  <2>4. PICK j \in OpenNodes(stream) : stream[j].depth = k
    BY <2>2, <2>3
  <2>5. j \in OpenNodes(new) /\ new[j].depth = k
    BY <1>2, <1>4, <2>1, <2>4
  <2> QED BY <2>5
<1>9. \A j \in 1 .. n : new[j].kind \notin {"root", "group"} =>
        /\ new[j].prefix = <<>> /\ new[j].suffix = <<>>
        /\ j < n => new[j + 1].depth <= new[j].depth
  <2> SUFFICES ASSUME NEW j \in 1 .. n, new[j].kind \notin {"root", "group"}
               PROVE  /\ new[j].prefix = <<>> /\ new[j].suffix = <<>>
                      /\ j < n => new[j + 1].depth <= new[j].depth
    OBVIOUS
  <2>1. stream[j].kind \notin {"root", "group"}
    BY <1>2
  <2>2. /\ stream[j].prefix = <<>> /\ stream[j].suffix = <<>>
        /\ j < n => stream[j + 1].depth <= stream[j].depth
    BY <2>1 DEF Threaded
  <2>3. new[j].prefix = <<>> /\ new[j].suffix = <<>>
    <3>1. CASE j = i
      BY <1>1, <2>1, <3>1
    <3>2. CASE j # i
      BY <1>1, <2>2, <3>2
    <3> QED BY <3>1, <3>2
  <2>4. j < n => j + 1 \in 1 .. n
    BY <1>0
  <2> QED BY <1>2, <2>2, <2>3, <2>4
<1>10. /\ new[1].open /\ new[1].kind = "root" /\ new[1].lead = <<>>
       /\ \A j \in 2 .. n : new[j].kind # "root"
  <2>1. \A j \in 2 .. n : j \in 1 .. n
    BY <1>0
  <2> QED BY <1>0, <1>2, <2>1 DEF Threaded
<1>11. Threaded(new)
  BY <1>1, <1>3, <1>5, <1>7, <1>8, <1>9, <1>10 DEF Threaded
<1> QED BY <1>5, <1>11 DEF new

\* A comment that waits changes what is pending only.
LEMMA SuffixReplaced ==
  ASSUME NEW stream, Threaded(stream), NEW comments \in Comments
  PROVE  LET new == [stream EXCEPT ![Innermost(stream)].suffix = comments]
         IN  /\ Threaded(new) /\ Innermost(new) = Innermost(stream)
             /\ new[Innermost(new)].suffix = comments
             /\ Base(new) = Base(stream) /\ Pending(new) = RangesOf(comments)
<1> DEFINE g == Innermost(stream)
           n == Len(stream)
           D == stream[g].depth
           node == [stream[g] EXCEPT !.suffix = comments]
           new == [stream EXCEPT ![g] = node]
<1>0. /\ Preorder(stream) /\ n \in Nat /\ g \in 1 .. n /\ stream[g] \in Nodes /\ stream[g].open
      /\ D \in Nat /\ D <= stream[n].depth /\ OnSpine(stream, g, n) /\ stream \in Seq(Nodes)
      /\ stream[n].depth \in Nat
  <2>1. /\ Preorder(stream) /\ n \in Nat /\ n > 0 /\ g \in 1 .. n /\ stream[g].open
        /\ \A i \in 1 .. n : stream[i] \in Nodes /\ stream[i].depth \in Nat
        /\ D \in Nat /\ D <= stream[n].depth /\ OnSpine(stream, g, n)
    BY ThreadedFacts
  <2>2. n \in 1 .. n
    BY <2>1
  <2> QED BY <2>1, <2>2 DEF Preorder
<1>1. /\ node \in Nodes /\ node.kind = stream[g].kind /\ node.from = stream[g].from
      /\ node.to = stream[g].to /\ node.depth = D /\ node.open = stream[g].open
      /\ node.lead = stream[g].lead /\ node.trail = stream[g].trail
      /\ node.prefix = stream[g].prefix /\ node.suffix = comments
  BY <1>0 DEF Nodes, Comments
<1>2. [stream EXCEPT ![g].suffix = comments] = new
  OBVIOUS
<1> HIDE DEF node
<1>3. Ahead(node) = Ahead(stream[g])
  BY <1>1 DEF Ahead, OpenerOf
<1>4. stream[g].trail = <<>> /\ stream[g].kind \in {"root", "group"}
  BY <1>0 DEF Threaded
<1>5. Threaded(new) /\ Innermost(new) = g
  BY <1>0, <1>1, <1>4, Touched
<1>6. /\ Len(new) = n /\ new[g] = node
      /\ \A d \in D + 1 .. stream[n].depth + 1 : Left(new, n, d) = Left(stream, n, d)
  <2>1. ReplacedBy(stream, new, g, node)
    BY <1>0, <1>1, <1>3, Replaced
  <2> QED BY <2>1 DEF ReplacedBy
<1> HIDE DEF new
<1>7. Base(new) = Base(stream)
  <2>1. D + 1 \in D + 1 .. stream[n].depth + 1
    BY <1>0
  <2> QED BY <1>1, <1>5, <1>6, <2>1 DEF Base
<1>8. Pending(new) = RangesOf(comments)
  BY <1>1, <1>5, <1>6 DEF Pending
<1> QED BY <1>1, <1>2, <1>5, <1>6, <1>7, <1>8 DEF new

-----------------------------------------------------------------------------
(* A comment that trails. *)

RangeOf(comment) == <<comment.from, comment.to>>

\* A comment behind others gives its range behind theirs.
LEMMA RangeAppended ==
  ASSUME NEW comments \in Comments, NEW comment \in Spans
  PROVE  /\ Append(comments, comment) \in Comments
         /\ RangesOf(Append(comments, comment)) = RangesOf(comments) \o <<RangeOf(comment)>>
         /\ RangeOf(comment) \in Int \X Int /\ <<RangeOf(comment)>> \in Ranges
<1> DEFINE one == <<comment>>
<1>1. one \in Comments /\ Len(one) = 1 /\ one[1] = comment
  BY DEF Comments, Spans
<1>2. Append(comments, comment) = comments \o one /\ Append(comments, comment) \in Comments
  <2> DEFINE C == Spans
  <2>1. comments \in Seq(C) /\ comment \in C
    BY DEF Comments, Spans
  <2> HIDE DEF C
  <2>2. Append(comments, comment) = comments \o <<comment>> /\ Append(comments, comment) \in Seq(C)
    BY <2>1
  <2> QED BY <2>2 DEF C, Comments, Spans
<1> HIDE DEF one
<1>3. RangesOf(comments \o one) = RangesOf(comments) \o RangesOf(one)
  BY <1>1, RangesJoined
<1>4. RangeOf(comment) \in Int \X Int
  BY DEF RangeOf, Spans
<1>5. <<RangeOf(comment)>> \in Ranges
  BY <1>4 DEF Ranges
<1>6. RangesOf(one) = <<RangeOf(comment)>>
  <2>1. /\ RangesOf(one) \in Ranges /\ Len(RangesOf(one)) = 1
        /\ RangesOf(one)[1] = RangeOf(comment)
    BY <1>1, RangesOfFacts DEF RangeOf
  <2>2. RangesOf(one) \in Seq(Int \X Int)
    BY <2>1 DEF Ranges
  <2> QED BY <2>1, <2>2
<1> QED BY <1>2, <1>3, <1>4, <1>5, <1>6

\* The last tree of the innermost stream is on the spine, and closed.
LEMMA LastTreeIs ==
  ASSUME NEW stream, Threaded(stream)
  PROVE  LET g == Innermost(stream)
             n == Len(stream)
             last == LastTree(stream, g)
         IN  /\ last # 0 => /\ last \in g + 1 .. n /\ stream[last].depth = stream[g].depth + 1
                            /\ OnSpine(stream, last, n) /\ ~ stream[last].open
             /\ last = 0 => g = n
<1> DEFINE g == Innermost(stream)
           n == Len(stream)
           D == stream[g].depth
           S == ChildrenOf(stream, g)
           last == LastTree(stream, g)
<1>0. /\ Preorder(stream) /\ stream \in Seq(Nodes) /\ n \in Nat /\ n > 0 /\ g \in 1 .. n
      /\ \A i \in 1 .. n : stream[i].depth \in Nat
      /\ D \in Nat /\ OnSpine(stream, g, n)
      /\ OpenNodes(stream) = { i \in 1 .. n : stream[i].open }
      /\ \A i \in OpenNodes(stream) : i <= g
      /\ \A i \in 1 .. n - 1 : stream[i + 1].depth \in 1 .. stream[i].depth + 1
  <2>1. Preorder(stream)
    BY ThreadedFacts
  <2>2. stream \in Seq(Nodes) /\ \A i \in 1 .. n - 1 : stream[i + 1].depth \in 1 .. stream[i].depth + 1
    BY <2>1, Depths
  <2> QED BY <2>2, ThreadedFacts
<1>1. S = { i \in 1 .. n : i > g /\ stream[i].depth = D + 1 }
  BY <1>0 DEF ChildrenOf
<1>2. last = IF S = {} THEN 0 ELSE LargestOf(S)
  BY DEF LastTree
<1>3. S # {} => LargestOf(S) \in S /\ \A j \in S : j <= LargestOf(S)
  <2>1. S \subseteq 0 .. n
    BY <1>1
  <2> HIDE DEF S
  <2> QED BY <1>0, <2>1, LargestIn
<1> HIDE DEF last, S
<1>4. ASSUME last # 0
      PROVE  /\ last \in g + 1 .. n /\ stream[last].depth = D + 1
             /\ OnSpine(stream, last, n) /\ ~ stream[last].open
  <2>1. last \in S /\ \A j \in S : j <= last
    BY <1>2, <1>3, <1>4
  <2>2. last \in g + 1 .. n /\ stream[last].depth = D + 1 /\ last \in 1 .. n
    BY <1>0, <1>1, <2>1
  <2>3. OnSpine(stream, last, n)
    <3> SUFFICES ASSUME NEW j \in last + 1 .. n
                 PROVE  stream[j].depth > D + 1
      BY <2>2 DEF OnSpine
    <3>1. j \in g + 1 .. n /\ j \in 1 .. n /\ ~ (j <= last) /\ j > g
      BY <1>0, <2>2
    <3>2. stream[j].depth > D /\ stream[j].depth \in Nat
      BY <1>0, <3>1 DEF OnSpine
    <3>3. stream[j].depth # D + 1
      BY <1>1, <2>1, <3>1
    <3> HIDE DEF D
    <3> QED BY <1>0, <3>2, <3>3
  <2>4. ~ stream[last].open
    <3> SUFFICES ASSUME stream[last].open
                 PROVE  FALSE
      OBVIOUS
    <3>1. last <= g
      BY <1>0, <2>2
    <3> QED BY <1>0, <2>2, <3>1
  <2> QED BY <2>2, <2>3, <2>4
<1>5. ASSUME last = 0
      PROVE  g = n
  <2> SUFFICES ASSUME g # n
               PROVE  FALSE
    OBVIOUS
  <2>1. g + 1 \in 1 .. n /\ g + 1 > g /\ g \in 1 .. n - 1 /\ g + 1 \in g + 1 .. n
    BY <1>0
  <2>2. stream[g + 1].depth \in 1 .. D + 1 /\ stream[g + 1].depth > D
    BY <1>0, <2>1 DEF OnSpine
  <2>3. stream[g + 1].depth = D + 1
    <3> HIDE DEF D
    <3> QED BY <1>0, <2>2
  <2>4. g + 1 \in S
    BY <1>1, <2>1, <2>3
  <2>5. last \in S
    BY <1>2, <1>3, <2>4
  <2> QED BY <1>0, <1>1, <1>5, <2>5
<1> QED BY <1>4, <1>5 DEF last

\* A comment that trails is given next.
LEMMA TrailingPushed ==
  ASSUME NEW stream, Threaded(stream), NEW comment \in Spans
  PROVE  LET new == PushTrailing(stream, Innermost(stream), comment)
         IN  /\ Threaded(new) /\ Innermost(new) = Innermost(stream)
             /\ new[Innermost(new)].suffix = stream[Innermost(stream)].suffix
             /\ Base(new) = Base(stream) \o <<RangeOf(comment)>>
             /\ Pending(new) = Pending(stream)
<1> DEFINE g == Innermost(stream)
           n == Len(stream)
           D == stream[g].depth
           last == LastTree(stream, g)
           r == <<RangeOf(comment)>>
<1>0. /\ Preorder(stream) /\ stream \in Seq(Nodes) /\ n \in Nat /\ n > 0 /\ g \in 1 .. n /\ n \in 1 .. n
      /\ \A i \in 1 .. n : stream[i] \in Nodes /\ stream[i].depth \in Nat
      /\ D \in Nat /\ OnSpine(stream, g, n) /\ D <= stream[n].depth /\ stream[n].depth \in Nat
      /\ stream[g].open
  <2>1. /\ Preorder(stream) /\ n \in Nat /\ n > 0 /\ g \in 1 .. n
        /\ \A i \in 1 .. n : stream[i] \in Nodes /\ stream[i].depth \in Nat
        /\ D \in Nat /\ OnSpine(stream, g, n) /\ D <= stream[n].depth
        /\ stream[g].open
    BY ThreadedFacts
  <2>2. n \in 1 .. n
    BY <2>1
  <2> QED BY <2>1, <2>2 DEF Preorder
<1>1. /\ last # 0 => /\ last \in g + 1 .. n /\ stream[last].depth = D + 1
                     /\ OnSpine(stream, last, n) /\ ~ stream[last].open
      /\ last = 0 => g = n
  BY LastTreeIs
<1>2. r \in Ranges
  <2>1. <<>> \in Comments
    BY DEF Comments
  <2> QED BY <2>1, RangeAppended
<1> HIDE DEF last, g
<1>3. CASE last # 0
  <2> DEFINE trail == Append(stream[last].trail, comment)
             node == [stream[last] EXCEPT !.trail = trail]
             new == [stream EXCEPT ![last] = node]
             b == Behind(stream[last])
  <2>1. last \in 1 .. n /\ last # g /\ last \in g + 1 .. n /\ stream[last] \in Nodes
    BY <1>0, <1>1, <1>3
  <2>2. stream[last].trail \in Comments
    BY <2>1, FieldsOfNode
  <2>3. trail \in Comments /\ RangesOf(trail) = RangesOf(stream[last].trail) \o r
    BY <2>2, RangeAppended
  <2> HIDE DEF trail
  <2>4. /\ node \in Nodes /\ node.kind = stream[last].kind /\ node.from = stream[last].from
        /\ node.to = stream[last].to /\ node.depth = D + 1 /\ node.open = stream[last].open
        /\ node.lead = stream[last].lead /\ node.trail = trail
        /\ node.prefix = stream[last].prefix /\ node.suffix = stream[last].suffix
    BY <1>1, <1>3, <2>1, <2>3 DEF Nodes, Comments
  <2>5. PushTrailing(stream, g, comment) = new
    <3>1. PushTrailing(stream, g, comment)
            = [stream EXCEPT ![last].trail = Append(@, comment)]
      BY <1>3 DEF PushTrailing, last
    <3> QED BY <3>1 DEF trail
  <2> HIDE DEF node
  <2>6. Ahead(node) = Ahead(stream[last]) /\ OpenerOf(node) = OpenerOf(stream[last])
        /\ CloserOf(node) = CloserOf(stream[last])
    BY <2>4 DEF Ahead, OpenerOf, CloserOf
  <2>7. Behind(node) = b \o r /\ b \in Ranges
    <3> DEFINE s == RangesOf(stream[last].suffix)
               c == CloserOf(stream[last])
               t == RangesOf(stream[last].trail)
    <3>1. s \in Ranges /\ c \in Ranges /\ t \in Ranges /\ b \in Ranges
      BY <2>1, NodeRanges
    <3>2. Behind(node) = (s \o c) \o (t \o r) /\ b = (s \o c) \o t
      BY <2>3, <2>4, <2>6 DEF Behind
    <3> HIDE DEF s, c, t, r, b
    <3>3. s \o c \in Ranges
      BY <3>1, Joined
    <3> DEFINE sc == s \o c
    <3> HIDE DEF sc
    <3>4. (sc \o t) \o r = sc \o (t \o r)
      <4>1. sc \in Ranges /\ t \in Ranges /\ r \in Ranges
        BY <1>2, <3>1, <3>3 DEF sc
      <4> QED BY <4>1, Associative
    <3> QED BY <3>1, <3>2, <3>4 DEF sc
  <2>8. Threaded(new) /\ Innermost(new) = g
    <3>1. stream[last].kind \notin {"root", "group"} =>
            stream[last].prefix = <<>> /\ stream[last].suffix = <<>>
      BY <2>1 DEF Threaded
    <3>2. /\ node.kind \notin {"root", "group"} => node.prefix = <<>> /\ node.suffix = <<>>
          /\ node.depth = stream[last].depth /\ ~ node.open
      BY <1>1, <1>3, <2>4, <3>1
    <3> QED BY <2>1, <2>4, <3>2, Touched DEF g
  <2>9. /\ Len(new) = n /\ new[last] = node /\ new[g] = stream[g]
        /\ Left(new, n, D + 1) = Left(stream, n, D + 2) \o Behind(node)
    <3>0. /\ Preorder(stream) /\ last \in 1 .. Len(stream) /\ OnSpine(stream, last, Len(stream))
          /\ node \in Nodes /\ node.depth = stream[last].depth /\ Ahead(node) = Ahead(stream[last])
      BY <1>0, <1>1, <1>3, <2>1, <2>4, <2>6
    <3>1. /\ Len(new) = n /\ new[last] = node /\ \A j \in 1 .. n : j # last => new[j] = stream[j]
          /\ Left(new, n, stream[last].depth)
               = Left(stream, n, stream[last].depth + 1) \o Behind(node)
      <4>1. ReplacedBy(stream, new, last, node)
        BY <3>0, Replaced
      <4> HIDE DEF new, b, r, D
      <4> QED BY <4>1 DEF ReplacedBy
    <3>2. stream[last].depth = D + 1 /\ stream[last].depth + 1 = D + 2
      BY <1>0, <1>1, <1>3
    <3> HIDE DEF new
    <3>3. new[g] = stream[g]
      BY <1>0, <2>1, <3>1
    <3>4. Left(new, n, D + 1) = Left(stream, n, D + 2) \o Behind(node)
      <4> HIDE DEF D, n
      <4> QED BY <3>1, <3>2
    <3> QED BY <3>1, <3>3, <3>4
  <2> HIDE DEF new
  <2>10. Left(stream, n, D + 1) = Left(stream, n, D + 2) \o b /\ Left(stream, n, D + 2) \in Ranges
    <3> DEFINE d == D + 1
    <3>1. last \in 1 .. n /\ \A j \in last + 1 .. n : stream[j].depth > stream[last].depth
      BY <1>1, <1>3, <2>1 DEF OnSpine
    <3>2. Ancestor(stream, n, d) = last /\ d <= stream[n].depth
      <4>1. Ancestor(stream, n, stream[last].depth) = last /\ stream[last].depth <= stream[n].depth
        BY <1>0, <3>1, SpineNodeIs
      <4> QED BY <1>1, <1>3, <4>1
    <3>3. d \in 0 .. stream[n].depth /\ d + 1 \in 0 .. stream[n].depth + 1 /\ d + 1 = D + 2
      <4> HIDE DEF D
      <4> QED BY <1>0, <3>2
    <3> HIDE DEF d
    <3>4. Left(stream, n, d) = Left(stream, n, d + 1) \o Behind(stream[last])
          /\ Left(stream, n, d + 1) \in Ranges
      BY <1>0, <3>2, <3>3, LeftGrows
    <3> QED BY <3>3, <3>4 DEF d
  <2>11. Base(new) = Base(stream) \o r
    <3> DEFINE L == Left(stream, n, D + 2)
    <3>1. Base(new) = L \o (b \o r)
      BY <2>7, <2>8, <2>9 DEF Base
    <3>2. Base(stream) = L \o b
      BY <2>10 DEF Base, g
    <3>3. L \in Ranges /\ b \in Ranges /\ r \in Ranges
      BY <1>2, <2>7, <2>10
    <3> HIDE DEF L, b, r
    <3>4. (L \o b) \o r = L \o (b \o r)
      BY <3>3, Associative
    <3> QED BY <3>1, <3>2, <3>4
  <2> QED BY <2>5, <2>8, <2>9, <2>11 DEF Pending, g
<1>4. CASE last = 0
  <2> DEFINE prefix == Append(stream[g].prefix, comment)
             node == [stream[g] EXCEPT !.prefix = prefix]
             new == [stream EXCEPT ![g] = node]
             a == Ahead(stream[g])
  <2>1. g = n
    BY <1>1, <1>4
  <2>2. stream[g] \in Nodes /\ stream[g].prefix \in Comments
    BY <1>0, FieldsOfNode
  <2>3. prefix \in Comments /\ RangesOf(prefix) = RangesOf(stream[g].prefix) \o r
    BY <2>2, RangeAppended
  <2> HIDE DEF prefix
  <2>4. /\ node \in Nodes /\ node.kind = stream[g].kind /\ node.from = stream[g].from
        /\ node.to = stream[g].to /\ node.depth = D /\ node.open = stream[g].open
        /\ node.lead = stream[g].lead /\ node.trail = stream[g].trail
        /\ node.prefix = prefix /\ node.suffix = stream[g].suffix
    BY <2>2, <2>3 DEF Nodes, Comments
  <2>5. PushTrailing(stream, g, comment) = new
    <3>1. PushTrailing(stream, g, comment)
            = [stream EXCEPT ![g].prefix = Append(@, comment)]
      BY <1>4 DEF PushTrailing, last
    <3> QED BY <3>1 DEF prefix
  <2> HIDE DEF node
  <2>6. Ahead(node) = a \o r /\ a \in Ranges
    <3> DEFINE l == RangesOf(stream[g].lead)
               o == OpenerOf(stream[g])
               p == RangesOf(stream[g].prefix)
    <3>1. l \in Ranges /\ o \in Ranges /\ p \in Ranges /\ a \in Ranges
      BY <2>2, NodeRanges
    <3>2. OpenerOf(node) = o
      BY <2>4 DEF OpenerOf
    <3>3. Ahead(node) = (l \o o) \o (p \o r) /\ a = (l \o o) \o p
      BY <2>3, <2>4, <3>2 DEF Ahead
    <3> HIDE DEF l, o, p, r, a
    <3>4. l \o o \in Ranges
      BY <3>1, Joined
    <3> DEFINE lo == l \o o
    <3> HIDE DEF lo
    <3>5. (lo \o p) \o r = lo \o (p \o r)
      <4>1. lo \in Ranges /\ p \in Ranges /\ r \in Ranges
        BY <1>2, <3>1, <3>4 DEF lo
      <4> QED BY <4>1, Associative
    <3> QED BY <3>1, <3>3, <3>5 DEF lo
  <2>7. stream[g].trail = <<>> /\ stream[g].kind \in {"root", "group"}
    BY <1>0 DEF Threaded
  <2>8. Threaded(new) /\ Innermost(new) = g
    BY <1>0, <2>4, <2>7, Touched DEF g
  <2>9. new \in Seq(Nodes) /\ Len(new) = n /\ new[g] = node
        /\ \A j \in 1 .. n : j # g => new[j] = stream[j]
    BY <1>0, <2>4
  <2> HIDE DEF new
  <2>10. Preorder(new)
    BY <2>8 DEF Threaded
  <2>11. At(new, n) = At(stream, n)
    <3>1. CASE n = 1
      BY <3>1 DEF At
    <3>2. CASE n # 1
      <4> DEFINE m == n - 1
      <4>1. m \in 1 .. n /\ m \in 1 .. m /\ m \in 1 .. Len(new) /\ m \in 1 .. n - 1 /\ m + 1 = n
        BY <1>0, <2>9, <3>2
      <4> HIDE DEF m
      <4>2. \A j \in 1 .. m : new[j] = stream[j]
        <5>1. \A j \in 1 .. m : j \in 1 .. n /\ j # n
          BY <1>0, <4>1
        <5> QED BY <2>1, <2>9, <5>1
      <4>3. Alike(stream, new, m)
        BY <1>0, <2>10, <4>1, <4>2 DEF Alike
      <4>4. Walk(new, m) = Walk(stream, m)
        BY <4>3, AlikeWalk
      <4>5. D \in 0 .. stream[m].depth + 1 /\ stream[m].depth \in Nat
        <5>1. stream[m + 1].depth \in 1 .. stream[m].depth + 1 /\ stream[m].depth \in Nat
          BY <1>0, <4>1, Depths
        <5> HIDE DEF D
        <5> QED BY <2>1, <4>1, <5>1 DEF D
      <4>6. \A e \in D .. stream[m].depth :
              Behind(new[Ancestor(stream, m, e)]) = Behind(stream[Ancestor(stream, m, e)])
        <5> SUFFICES ASSUME NEW e \in D .. stream[m].depth
                     PROVE  Behind(new[Ancestor(stream, m, e)])
                              = Behind(stream[Ancestor(stream, m, e)])
          OBVIOUS
        <5>1. e \in 0 .. stream[m].depth
          <6> HIDE DEF D
          <6> QED BY <1>0, <4>5
        <5>2. Ancestor(stream, m, e) \in 1 .. m
          BY <1>0, <4>1, <5>1, SpineNode
        <5> QED BY <4>2, <5>2
      <4>7. Leaving(new, m, D) = Leaving(stream, m, D)
        <5> HIDE DEF D
        <5> QED BY <4>1, <4>3, <4>5, <4>6, AlikeLeaving
      <4>8. Left(new, m, D) = Left(stream, m, D)
        BY <4>4, <4>7 DEF Left
      <4>9. new[n].depth = D /\ stream[n].depth = D
        BY <2>1, <2>4, <2>9
      <4> QED BY <3>2, <4>8, <4>9 DEF At, m
    <3> QED BY <3>1, <3>2
  <2>12. Walk(new, n) = At(stream, n) \o Ahead(node) /\ At(stream, n) \in Ranges
    <3>1. n \in 1 .. Len(new)
      BY <1>0, <2>9
    <3>2. Walk(new, n) = At(new, n) \o Ahead(new[n])
      BY <2>10, <3>1, WalkFrom
    <3>3. At(stream, n) \in Ranges
      BY <1>0, WalkFrom
    <3> QED BY <2>1, <2>9, <2>11, <3>2, <3>3
  <2>13. Walk(stream, n) = At(stream, n) \o a
    <3>1. Walk(stream, n) = At(stream, n) \o Ahead(stream[n])
      BY <1>0, WalkFrom
    <3> QED BY <2>1, <3>1
  <2>14. Base(new) = Walk(new, n) /\ Base(stream) = Walk(stream, n)
    <3>1. Left(stream, n, stream[n].depth + 1) = Walk(stream, n)
      BY <1>0, LeftGrows
    <3>2. n \in 1 .. Len(new)
      BY <1>0, <2>9
    <3>3. Left(new, n, new[n].depth + 1) = Walk(new, n)
      BY <2>10, <3>2, LeftGrows
    <3> QED BY <2>1, <2>8, <2>9, <3>1, <3>3 DEF Base, g
  <2>15. Base(new) = Base(stream) \o r
    <3> DEFINE at == At(stream, n)
    <3>1. Base(new) = at \o (a \o r) /\ Base(stream) = at \o a
      BY <2>6, <2>12, <2>13, <2>14
    <3>2. at \in Ranges /\ a \in Ranges /\ r \in Ranges
      BY <1>2, <2>6, <2>12
    <3> HIDE DEF at, a, r
    <3>3. (at \o a) \o r = at \o (a \o r)
      BY <3>2, Associative
    <3> QED BY <3>1, <3>3
  <2> QED BY <2>4, <2>5, <2>8, <2>9, <2>15 DEF Pending, g
<1> QED BY <1>3, <1>4

-----------------------------------------------------------------------------
(* A token or group that is pushed, and a group that is completed. *)

\* No comments give no ranges.
LEMMA NoRanges == RangesOf(<<>>) = <<>> /\ <<>> \in Comments /\ <<>> \in Ranges
<1>1. <<>> \in Comments
  BY DEF Comments
<1>2. RangesOf(<<>>) = <<>> /\ <<>> \in Ranges
  BY <1>1, RangesOfFacts, Joined
<1> QED BY <1>1, <1>2

\* The empty stream has the shape of one that is being built.
LEMMA EmptyThreaded ==
  /\ Threaded(EmptyStream) /\ EmptyStream[Innermost(EmptyStream)].suffix = <<>>
  /\ Base(EmptyStream) = <<>> /\ Pending(EmptyStream) = <<>>
<1> DEFINE root == Node("root", "", 0, 0)
<1>1. /\ EmptyStream = <<root>> /\ Len(EmptyStream) = 1 /\ EmptyStream[1] = root
      /\ DOMAIN EmptyStream = {1}
  BY DEF EmptyStream
<1>2. /\ root.kind = "root" /\ root.depth = 0 /\ root.open /\ root.lead = <<>>
      /\ root.trail = <<>> /\ root.prefix = <<>> /\ root.suffix = <<>> /\ root \in Nodes
  <2>1. /\ root.kind = "root" /\ root.depth = 0 /\ root.open /\ root.lead = <<>>
        /\ root.trail = <<>> /\ root.prefix = <<>> /\ root.suffix = <<>>
    BY DEF Node
  <2>2. root \in Nodes
    <3>1. <<>> \in Seq(Spans)
      OBVIOUS
    <3> QED BY <3>1 DEF Node, Nodes, Spellings
  <2> QED BY <2>1, <2>2
<1> HIDE DEF root
<1>3. EmptyStream \in Seq(Nodes)
  BY <1>1, <1>2
<1>4. OpenNodes(EmptyStream) = {1}
  BY <1>1, <1>2 DEF OpenNodes
<1>5. Innermost(EmptyStream) = 1
  <2>1. LargestOf({1}) = 1
    BY LargestIs
  <2> QED BY <1>4, <2>1 DEF Innermost
<1>6. Preorder(EmptyStream)
  BY <1>1, <1>2, <1>3 DEF Preorder
<1>7. Threaded(EmptyStream)
  <2>1. \A k \in 0 .. EmptyStream[Innermost(EmptyStream)].depth :
          \E i \in OpenNodes(EmptyStream) : EmptyStream[i].depth = k
    BY <1>1, <1>2, <1>4, <1>5
  <2>2. \A i \in 1 .. Len(EmptyStream) : i = 1
    BY <1>1
  <2>3. OnSpine(EmptyStream, 1, Len(EmptyStream))
    BY <1>1 DEF OnSpine
  <2> QED BY <1>1, <1>2, <1>5, <1>6, <2>1, <2>2, <2>3 DEF Threaded
<1>8. Base(EmptyStream) = <<>>
  <2>1. Left(EmptyStream, 1, EmptyStream[1].depth + 1) = Walk(EmptyStream, 1)
    <3>1. 1 \in 1 .. Len(EmptyStream)
      BY <1>1
    <3> QED BY <1>6, <3>1, LeftGrows
  <2>2. Walk(EmptyStream, 1) = Ahead(EmptyStream[1])
    BY <1>6, WalkGrows
  <2>3. Ahead(root) = <<>> \o <<>> \o <<>>
    BY <1>2, NoRanges DEF Ahead, OpenerOf
  <2>4. <<>> \o <<>> = <<>>
    BY NoRanges, Joined
  <2> QED BY <1>1, <1>5, <2>1, <2>2, <2>3, <2>4 DEF Base
<1>9. Pending(EmptyStream) = <<>>
  BY <1>1, <1>2, <1>5, NoRanges DEF Pending
<1> QED BY <1>1, <1>2, <1>5, <1>7, <1>8, <1>9

\* A tree behind which nothing waits gives nothing more when it is left.
LEMMA BareBehind ==
  ASSUME NEW node \in Nodes, node.suffix = <<>>, node.trail = <<>>,
         node.open <=> node.kind = "group"
  PROVE  Behind(node) = <<>>
<1>1. CloserOf(node) = <<>>
  BY DEF CloserOf
<1>2. Behind(node) = <<>> \o <<>> \o <<>>
  BY <1>1, NoRanges DEF Behind
<1>3. <<>> \o <<>> = <<>>
  BY NoRanges, Joined
<1> QED BY <1>2, <1>3

\* A tree of the innermost stream, when no comment waits there.
Appendable(stream, tree) ==
  /\ Threaded(stream) /\ stream[Innermost(stream)].suffix = <<>>
  /\ tree \in Nodes /\ tree.kind # "root"
  /\ tree.depth = stream[Innermost(stream)].depth + 1
  /\ tree.trail = <<>> /\ tree.prefix = <<>> /\ tree.suffix = <<>>
  /\ tree.open <=> tree.kind = "group"

\* A tree is added to the stream, which stays in shape; a group is its innermost.
LEMMA AppendedShape ==
  ASSUME NEW stream, NEW tree, Appendable(stream, tree)
  PROVE  LET new == Append(stream, tree)
         IN  /\ Threaded(new) /\ new[Innermost(new)].suffix = <<>>
             /\ Innermost(new) = IF tree.open THEN Len(stream) + 1 ELSE Innermost(stream)
<1> DEFINE g == Innermost(stream)
           n == Len(stream)
           D == stream[g].depth
           new == Append(stream, tree)
           top == IF tree.open THEN n + 1 ELSE g
<1>0. /\ Preorder(stream) /\ stream \in Seq(Nodes) /\ n \in Nat /\ n > 0 /\ g \in 1 .. n
      /\ \A i \in 1 .. n : stream[i].depth \in Nat
      /\ D \in Nat /\ OnSpine(stream, g, n) /\ D <= stream[n].depth
      /\ stream[g].open
      /\ OpenNodes(stream) = { i \in 1 .. n : stream[i].open }
      /\ \A i \in OpenNodes(stream) : i <= g /\ stream[i].depth <= D
      /\ 1 \in 1 .. n /\ n \in 1 .. n /\ Threaded(stream)
  <2>1. /\ Preorder(stream) /\ n \in Nat /\ n > 0 /\ g \in 1 .. n
        /\ \A i \in 1 .. n : stream[i].depth \in Nat
        /\ D \in Nat /\ OnSpine(stream, g, n) /\ D <= stream[n].depth
        /\ stream[g].open
        /\ OpenNodes(stream) = { i \in 1 .. n : stream[i].open }
        /\ \A i \in OpenNodes(stream) : i <= g /\ stream[i].depth <= D
    BY ThreadedFacts DEF Appendable
  <2>2. n \in 1 .. n /\ 1 \in 1 .. n
    BY <2>1
  <2> QED BY <2>1, <2>2 DEF Preorder, Appendable
<1>1. /\ tree \in Nodes /\ tree.kind # "root" /\ tree.depth = D + 1
      /\ tree.trail = <<>> /\ tree.prefix = <<>> /\ tree.suffix = <<>>
      /\ (tree.open <=> tree.kind = "group") /\ stream[g].suffix = <<>>
  BY DEF Appendable
<1>2. /\ new \in Seq(Nodes) /\ Len(new) = n + 1 /\ new[n + 1] = tree
      /\ \A i \in 1 .. n : new[i] = stream[i]
      /\ DOMAIN new = 1 .. n + 1
  BY <1>0, <1>1
<1> HIDE DEF new, g, D, top
<1>3. \A i \in 1 .. n + 1 : i \in 1 .. n \/ i = n + 1
  BY <1>0
<1>4. Preorder(new)
  <2>1. ASSUME NEW i \in 2 .. n + 1
        PROVE  new[i].depth \in 1 .. new[i - 1].depth + 1
    <3>1. CASE i = n + 1
      <4>1. i - 1 = n /\ new[i - 1] = stream[n] /\ new[i].depth = D + 1 /\ stream[n].depth \in Nat
        BY <1>0, <1>1, <1>2, <3>1
      <4> QED BY <1>0, <4>1
    <3>2. CASE i # n + 1
      <4>1. i \in 2 .. n /\ i \in 1 .. n /\ i - 1 \in 1 .. n
        BY <1>0, <3>2
      <4>2. new[i] = stream[i] /\ new[i - 1] = stream[i - 1]
        BY <1>2, <4>1
      <4>3. stream[i].depth \in 1 .. stream[i - 1].depth + 1
        BY <1>0, <4>1 DEF Preorder
      <4> QED BY <4>2, <4>3
    <3> QED BY <3>1, <3>2
  <2>2. new[1].depth = 0 /\ Len(new) > 0
    BY <1>0, <1>2 DEF Preorder
  <2> QED BY <1>2, <2>1, <2>2 DEF Preorder
<1>5. \A i \in OpenNodes(new) : i = n + 1 \/ i \in OpenNodes(stream)
  BY <1>0, <1>2, <1>3 DEF OpenNodes
<1>6. \A i \in OpenNodes(stream) : i \in OpenNodes(new) /\ i \in 1 .. n
  <2>1. \A i \in 1 .. n : i \in 1 .. n + 1
    BY <1>0
  <2> QED BY <1>0, <1>2, <2>1 DEF OpenNodes
<1>7. n + 1 \in OpenNodes(new) <=> tree.open
  BY <1>0, <1>2 DEF OpenNodes
<1>8. Innermost(new) = top
  <2>1. OpenNodes(new) \in SUBSET Nat
    BY <1>2 DEF OpenNodes
  <2>2. top \in OpenNodes(new)
    <3>1. g \in OpenNodes(stream)
      BY <1>0
    <3> QED BY <1>6, <1>7, <3>1 DEF top
  <2>3. \A j \in OpenNodes(new) : j <= top
    <3> SUFFICES ASSUME NEW j \in OpenNodes(new)
                 PROVE  j <= top
      OBVIOUS
    <3>1. CASE j = n + 1
      BY <1>0, <1>7, <3>1 DEF top
    <3>2. CASE j \in OpenNodes(stream)
      <4>1. j <= g /\ j \in 1 .. n
        BY <1>0, <1>6, <3>2
      <4> QED BY <1>0, <4>1 DEF top
    <3> QED BY <1>5, <3>1, <3>2
  <2> QED BY <2>1, <2>2, <2>3, LargestIs DEF Innermost
<1>9. new[top].suffix = <<>> /\ new[top].depth = IF tree.open THEN D + 1 ELSE D
  BY <1>0, <1>1, <1>2 DEF top, D
<1>10. ASSUME NEW i \in 1 .. n + 1, new[i].open
       PROVE  /\ new[i].kind \in {"root", "group"} /\ new[i].trail = <<>>
              /\ OnSpine(new, i, n + 1) /\ new[i].suffix = <<>>
  <2>1. CASE i = n + 1
    <3>1. OnSpine(new, i, n + 1)
      BY <1>0, <2>1 DEF OnSpine
    <3> QED BY <1>1, <1>2, <1>10, <2>1, <3>1
  <2>2. CASE i \in 1 .. n
    <3>1. new[i] = stream[i] /\ stream[i].open /\ i \in OpenNodes(stream)
      BY <1>0, <1>2, <1>10, <2>2
    <3>2. /\ stream[i].kind \in {"root", "group"} /\ stream[i].trail = <<>>
          /\ OnSpine(stream, i, n) /\ (i # g => stream[i].suffix = <<>>)
      BY <1>0, <2>2, <3>1 DEF Threaded, g
    <3>3. ASSUME NEW j \in i + 1 .. n + 1
          PROVE  new[j].depth > new[i].depth
      <4>1. CASE j = n + 1
        <5>1. new[j].depth = D + 1 /\ stream[i].depth <= D /\ stream[i].depth \in Nat
          BY <1>0, <1>1, <1>2, <2>2, <3>1, <4>1
        <5> QED BY <1>0, <3>1, <5>1
      <4>2. CASE j # n + 1
        <5>1. j \in i + 1 .. n /\ j \in 1 .. n
          BY <1>0, <2>2, <4>2
        <5> QED BY <1>2, <3>1, <3>2, <5>1 DEF OnSpine
      <4> QED BY <4>1, <4>2
    <3>4. OnSpine(new, i, n + 1)
      BY <3>3 DEF OnSpine
    <3>5. new[i].suffix = <<>>
      BY <1>1, <3>1, <3>2
    <3>6. new[i].kind \in {"root", "group"}
      BY <3>1, <3>2
    <3>7. new[i].trail = <<>>
      BY <3>1, <3>2
    <3> QED BY <3>4, <3>5, <3>6, <3>7
  <2> QED BY <1>3, <2>1, <2>2
<1>11. \A k \in 0 .. new[top].depth : \E i \in OpenNodes(new) : new[i].depth = k
  <2> SUFFICES ASSUME NEW k \in 0 .. new[top].depth
               PROVE  \E i \in OpenNodes(new) : new[i].depth = k
    OBVIOUS
  <2>1. k \in 0 .. D \/ (tree.open /\ k = D + 1)
    BY <1>0, <1>9
  <2>2. CASE k \in 0 .. D
    <3>1. \E i \in OpenNodes(stream) : stream[i].depth = k
      BY <1>0, <2>2 DEF Threaded, g, D
    <3> QED BY <1>2, <1>6, <3>1
  <2>3. CASE tree.open /\ k = D + 1
    BY <1>1, <1>2, <1>7, <2>3
  <2> QED BY <2>1, <2>2, <2>3
<1>12. ASSUME NEW i \in 1 .. n + 1, new[i].kind \notin {"root", "group"}
       PROVE  /\ new[i].prefix = <<>> /\ new[i].suffix = <<>>
              /\ i < n + 1 => new[i + 1].depth <= new[i].depth
  <2>1. CASE i = n + 1
    BY <1>0, <1>1, <1>2, <2>1
  <2>2. CASE i \in 1 .. n
    <3>1. new[i] = stream[i]
      BY <1>2, <2>2
    <3>2. /\ stream[i].prefix = <<>> /\ stream[i].suffix = <<>>
          /\ i < n => stream[i + 1].depth <= stream[i].depth
      BY <1>0, <1>12, <2>2, <3>1 DEF Threaded
    <3>3. new[i + 1].depth <= new[i].depth
      <4>1. CASE i = n
        <5>1. n # g
          BY <1>0, <1>12, <3>1, <4>1 DEF Threaded
        <5>2. n \in g + 1 .. n
          BY <1>0, <5>1
        <5>3. stream[n].depth > D /\ stream[n].depth \in Nat
          BY <1>0, <5>2 DEF OnSpine, D
        <5> QED BY <1>0, <1>1, <1>2, <3>1, <4>1, <5>3
      <4>2. CASE i # n
        <5>1. i < n /\ i + 1 \in 1 .. n
          BY <1>0, <2>2, <4>2
        <5> QED BY <1>2, <3>1, <3>2, <5>1
      <4> QED BY <4>1, <4>2
    <3> QED BY <3>1, <3>2, <3>3
  <2> QED BY <1>3, <2>1, <2>2
<1>13. /\ new[1].open /\ new[1].kind = "root" /\ new[1].lead = <<>>
       /\ \A i \in 2 .. n + 1 : new[i].kind # "root"
  <2>1. \A i \in 2 .. n + 1 : i = n + 1 \/ (i \in 2 .. n /\ i \in 1 .. n)
    BY <1>0
  <2> QED BY <1>0, <1>1, <1>2, <2>1 DEF Threaded
<1>14. Threaded(new)
  BY <1>2, <1>4, <1>8, <1>10, <1>11, <1>12, <1>13 DEF Threaded
<1> QED BY <1>8, <1>9, <1>14 DEF new, top, g

\* And its comments and its opener are given next.
LEMMA AppendedGives ==
  ASSUME NEW stream, NEW tree, Appendable(stream, tree)
  PROVE  Base(Append(stream, tree))
           = (Base(stream) \o RangesOf(tree.lead)) \o OpenerOf(tree)
<1> DEFINE g == Innermost(stream)
           n == Len(stream)
           D == stream[g].depth
           new == Append(stream, tree)
           l == RangesOf(tree.lead)
           o == OpenerOf(tree)
           base == Base(stream)
<1>0. /\ Preorder(stream) /\ stream \in Seq(Nodes) /\ n \in Nat /\ n > 0 /\ n \in 1 .. n
      /\ \A i \in 1 .. n : stream[i].depth \in Nat
      /\ D \in Nat /\ D <= stream[n].depth /\ Threaded(stream)
  <2>1. /\ Preorder(stream) /\ n \in Nat /\ n > 0
        /\ \A i \in 1 .. n : stream[i].depth \in Nat
        /\ D \in Nat /\ D <= stream[n].depth
    BY ThreadedFacts DEF Appendable
  <2>2. n \in 1 .. n
    BY <2>1
  <2> QED BY <2>1, <2>2 DEF Preorder, Appendable
<1>1. /\ tree \in Nodes /\ tree.depth = D + 1 /\ tree.prefix = <<>>
      /\ Behind(tree) = <<>>
  BY BareBehind DEF Appendable
<1>2. /\ Threaded(new) /\ Innermost(new) = IF tree.open THEN n + 1 ELSE g
  BY AppendedShape
<1>3. /\ Len(new) = n + 1 /\ new[n + 1] = tree /\ \A i \in 1 .. n : new[i] = stream[i]
      /\ g \in 1 .. n
  <2>1. g \in 1 .. n
    BY ThreadedFacts DEF Appendable
  <2> QED BY <1>0, <1>1, <2>1
<1> HIDE DEF new
<1>4. Preorder(new) /\ n + 1 \in 1 .. Len(new) /\ n \in 1 .. Len(new) - 1 /\ n \in 1 .. Len(new)
  BY <1>0, <1>2, <1>3 DEF Threaded
<1>5. Alike(stream, new, n)
  BY <1>0, <1>3, <1>4 DEF Alike
<1>6. Walk(new, n) = Walk(stream, n)
  BY <1>5, AlikeWalk
<1>7. Leaving(new, n, D + 1) = Leaving(stream, n, D + 1)
  <2>1. D + 1 \in 0 .. stream[n].depth + 1
    <3>1. stream[n].depth \in Nat
      BY <1>0
    <3> HIDE DEF D
    <3> QED BY <1>0, <3>1
  <2>2. \A e \in D + 1 .. stream[n].depth :
          Behind(new[Ancestor(stream, n, e)]) = Behind(stream[Ancestor(stream, n, e)])
    <3> SUFFICES ASSUME NEW e \in D + 1 .. stream[n].depth
                 PROVE  Behind(new[Ancestor(stream, n, e)]) = Behind(stream[Ancestor(stream, n, e)])
      OBVIOUS
    <3>1. e \in 0 .. stream[n].depth
      <4>1. stream[n].depth \in Nat
        BY <1>0
      <4> HIDE DEF D
      <4> QED BY <1>0, <4>1
    <3>2. Ancestor(stream, n, e) \in 1 .. n
      BY <1>0, <3>1, SpineNode
    <3> QED BY <1>3, <3>2
  <2> HIDE DEF D
  <2> QED BY <1>0, <1>5, <2>1, <2>2, AlikeLeaving
<1>8. Walk(new, n + 1) = At(new, n + 1) \o Ahead(tree)
  BY <1>3, <1>4, WalkFrom
<1>9. At(new, n + 1) = base
  <2>1. At(new, n + 1) = Left(new, n, D + 1)
    <3>1. n + 1 # 1 /\ n + 1 - 1 = n
      BY <1>0
    <3> QED BY <1>1, <1>3, <3>1 DEF At
  <2>2. Left(new, n, D + 1) = Left(stream, n, D + 1)
    BY <1>6, <1>7 DEF Left
  <2> QED BY <2>1, <2>2 DEF Base
<1>10. /\ l \in Ranges /\ o \in Ranges /\ base \in Ranges
       /\ Ahead(tree) = (l \o o) \o <<>>
  <2>1. base \in Ranges
    BY <1>0, BaseTyped
  <2>2. Ahead(tree) = (l \o o) \o <<>>
    BY <1>1, NoRanges DEF Ahead
  <2> QED BY <1>1, <2>1, <2>2, NodeRanges
<1> HIDE DEF l, o, base
<1>11. l \o o \in Ranges
  BY <1>10, Joined
<1>12. Ahead(tree) = l \o o
  <2> DEFINE lo == l \o o
  <2>1. lo \in Ranges
    BY <1>11
  <2> HIDE DEF lo
  <2>2. lo \o <<>> = lo
    BY <2>1, Joined
  <2> QED BY <1>10, <2>2 DEF lo
<1>13. Walk(new, n + 1) = base \o (l \o o)
  BY <1>8, <1>9, <1>12
<1>14. Base(new) = Walk(new, n + 1)
  <2>1. /\ Left(new, n + 1, D + 2) = Walk(new, n + 1)
        /\ Walk(new, n + 1) \in Ranges
        /\ Left(new, n + 1, D + 1) = Left(new, n + 1, D + 2) \o Behind(new[Ancestor(new, n + 1, D + 1)])
    <3> DEFINE d == D + 1
    <3>1. /\ new[n + 1].depth = d /\ d \in 0 .. d /\ d + 1 = D + 2
      <4> HIDE DEF D
      <4> QED BY <1>0, <1>1, <1>3
    <3> HIDE DEF d
    <3>2. /\ Left(new, n + 1, d + 1) = Walk(new, n + 1)
          /\ Walk(new, n + 1) \in Ranges
          /\ Left(new, n + 1, d) = Left(new, n + 1, d + 1) \o Behind(new[Ancestor(new, n + 1, d)])
      BY <1>4, <3>1, LeftGrows
    <3> QED BY <3>1, <3>2 DEF d
  <2>2. Ancestor(new, n + 1, D + 1) = n + 1
    <3>1. n + 1 \in 1 .. n + 1 /\ \A j \in (n + 1) + 1 .. n + 1 : new[j].depth > new[n + 1].depth
      BY <1>0
    <3>2. Ancestor(new, n + 1, new[n + 1].depth) = n + 1
      BY <1>4, <3>1, SpineNodeIs
    <3> QED BY <1>1, <1>3, <3>2
  <2>3. Left(new, n + 1, D + 1) = Walk(new, n + 1)
    <3> DEFINE w == Walk(new, n + 1)
    <3>1. Left(new, n + 1, D + 1) = w \o <<>>
      BY <1>1, <1>3, <2>1, <2>2
    <3>2. w \in Ranges
      BY <2>1
    <3> HIDE DEF w
    <3>3. w \o <<>> = w
      BY <3>2, Joined
    <3> QED BY <3>1, <3>3 DEF w
  <2>4. CASE tree.open
    <3>1. Innermost(new) = n + 1 /\ new[n + 1].depth + 1 = D + 2
      <4> HIDE DEF D
      <4> QED BY <1>0, <1>1, <1>2, <1>3, <2>4
    <3> QED BY <1>3, <2>1, <3>1 DEF Base
  <2>5. CASE ~ tree.open
    <3>1. Innermost(new) = g /\ new[g].depth = D
      BY <1>2, <1>3, <2>5
    <3> QED BY <1>3, <2>3, <3>1 DEF Base
  <2> QED BY <2>4, <2>5
<1>15. (base \o l) \o o = base \o (l \o o)
  BY <1>10, Associative
<1> QED BY <1>13, <1>14, <1>15 DEF new, base, l, o

\* A token or a group that is pushed takes the waiting comments along.
LEMMA Pushed ==
  ASSUME NEW stream, Threaded(stream), NEW node \in Nodes, node.kind # "root",
         node.trail = <<>>, node.prefix = <<>>, node.suffix = <<>>,
         node.open <=> node.kind = "group"
  PROVE  LET new == Push(stream, node)
         IN  /\ Threaded(new) /\ new[Innermost(new)].suffix = <<>>
             /\ Base(new) = (Base(stream) \o Pending(stream)) \o OpenerOf(node)
<1> DEFINE g == Innermost(stream)
           waiting == stream[g].suffix
           cleared == [stream EXCEPT ![g].suffix = <<>>]
           depth == stream[g].depth + 1
           tree == [node EXCEPT !.depth = depth, !.lead = waiting]
<1>1. /\ Threaded(cleared) /\ Innermost(cleared) = g /\ cleared[g].suffix = <<>>
      /\ Base(cleared) = Base(stream)
  <2>1. <<>> \in Comments
    BY NoRanges
  <2> QED BY <2>1, SuffixReplaced
<1>2. /\ stream \in Seq(Nodes) /\ g \in 1 .. Len(stream) /\ stream[g] \in Nodes
      /\ stream[g].depth \in Nat /\ waiting \in Comments
  <2>1. /\ Preorder(stream) /\ g \in 1 .. Len(stream) /\ stream[g] \in Nodes
        /\ stream[g].depth \in Nat
    BY ThreadedFacts
  <2> QED BY <2>1, FieldsOfNode DEF Preorder
<1>3. cleared[g].depth = stream[g].depth
  BY <1>2
<1>4. depth \in Nat
  BY <1>2
<1>5. Push(stream, node) = Append(cleared, tree)
  BY DEF Push
<1> HIDE DEF cleared, waiting, depth
<1>6. /\ tree \in Nodes /\ tree.kind = node.kind /\ tree.depth = depth /\ tree.lead = waiting
      /\ tree.trail = <<>> /\ tree.prefix = <<>> /\ tree.suffix = <<>>
      /\ tree.open = node.open /\ tree.from = node.from /\ tree.to = node.to
  BY <1>2, <1>4 DEF Nodes, Comments
<1> HIDE DEF tree
<1>7. tree.open <=> tree.kind = "group"
  BY <1>6
<1>8. Appendable(cleared, tree)
  BY <1>1, <1>3, <1>6, <1>7 DEF Appendable, depth
<1> DEFINE new == Append(cleared, tree)
<1>9. Threaded(new) /\ new[Innermost(new)].suffix = <<>>
  BY <1>8, AppendedShape
<1>10. Base(new) = (Base(cleared) \o RangesOf(tree.lead)) \o OpenerOf(tree)
  BY <1>8, AppendedGives
<1>11. OpenerOf(tree) = OpenerOf(node)
  BY <1>6 DEF OpenerOf
<1>12. RangesOf(tree.lead) = Pending(stream)
  BY <1>6 DEF Pending, waiting
<1> HIDE DEF new
<1>13. Base(new) = (Base(stream) \o Pending(stream)) \o OpenerOf(node)
  BY <1>1, <1>10, <1>11, <1>12
<1> QED BY <1>5, <1>9, <1>13 DEF new

\* The stream that is innermost once the innermost group is closed.
LEMMA ClosedInnermost ==
  ASSUME NEW stream, Threaded(stream), stream[Innermost(stream)].kind = "group",
         NEW new, Preorder(new), Len(new) = Len(stream),
         \A i \in 1 .. Len(stream) : new[i].depth = stream[i].depth,
         \A i \in 1 .. Len(stream) : i # Innermost(stream) => new[i] = stream[i],
         ~ new[Innermost(stream)].open, new[Innermost(stream)].kind = "group"
  PROVE  /\ Threaded(new) /\ new[Innermost(new)].suffix = <<>>
         /\ new[Innermost(new)].depth + 1 = stream[Innermost(stream)].depth
<1> DEFINE g == Innermost(stream)
           n == Len(stream)
           D == stream[g].depth
           open == OpenNodes(stream)
<1>0. /\ Preorder(stream) /\ n \in Nat /\ n > 0 /\ g \in 1 .. n /\ 1 \in 1 .. n
      /\ \A i \in 1 .. n : stream[i].depth \in Nat
      /\ D \in Nat
      /\ open = { i \in 1 .. n : stream[i].open }
      /\ \A i \in open : i <= g /\ stream[i].depth <= D
      /\ \A i, j \in open : i < j => stream[i].depth < stream[j].depth
      /\ stream[g].open /\ DOMAIN new = 1 .. n
  <2>1. /\ Preorder(stream) /\ n \in Nat /\ n > 0 /\ g \in 1 .. n
        /\ \A i \in 1 .. n : stream[i].depth \in Nat
        /\ D \in Nat
        /\ open = { i \in 1 .. n : stream[i].open }
        /\ \A i \in open : i <= g /\ stream[i].depth <= D
        /\ \A i, j \in open : i < j => stream[i].depth < stream[j].depth
        /\ stream[g].open
    BY ThreadedFacts
  <2>2. 1 \in 1 .. n
    BY <2>1
  <2>3. DOMAIN new = 1 .. n
    BY DEF Preorder
  <2> QED BY <2>1, <2>2, <2>3
<1>1. /\ g # 1 /\ D > 0 /\ D - 1 \in 0 .. D /\ D - 1 # D
  <2>1. g # 1
    BY DEF Threaded
  <2>2. g \in 2 .. n
    BY <1>0, <2>1
  <2>3. stream[g].depth \in 1 .. stream[g - 1].depth + 1
    BY <1>0, <2>2 DEF Preorder
  <2>4. D > 0
    BY <1>0, <2>3
  <2> HIDE DEF D
  <2> QED BY <1>0, <2>1, <2>4
<1> HIDE DEF g, D, open
<1>2. /\ stream[g].kind = "group" /\ \A i \in 1 .. n : i # g => new[i] = stream[i]
      /\ ~ new[g].open /\ new[g].kind = "group"
      /\ \A i \in 1 .. n : new[i].depth = stream[i].depth
  BY DEF g
<1>3. OpenNodes(new) = open \ {g}
  <2>1. \A i \in 1 .. n : new[i].open <=> stream[i].open /\ i # g
    BY <1>2
  <2>2. OpenNodes(new) = { i \in 1 .. n : new[i].open }
    BY <1>0 DEF OpenNodes
  <2> QED BY <1>0, <2>1, <2>2
<1>4. PICK p \in open : stream[p].depth = D - 1
  BY <1>1 DEF Threaded, g, D, open
<1>5. p \in 1 .. n /\ p # g /\ p \in OpenNodes(new) /\ new[p] = stream[p]
  <2>1. p # g
    BY <1>0, <1>1, <1>4 DEF D
  <2> QED BY <1>0, <1>2, <1>3, <1>4, <2>1
<1>6. Innermost(new) = p
  <2>1. \A j \in OpenNodes(new) : j <= p
    <3> SUFFICES ASSUME NEW j \in OpenNodes(new), ~ (j <= p)
                 PROVE  FALSE
      OBVIOUS
    <3>1. j \in open /\ j # g /\ j \in 1 .. n /\ j <= g
      BY <1>0, <1>3
    <3>2. g \in open /\ p < j /\ j < g
      BY <1>0, <1>5, <3>1
    <3>3. stream[p].depth < stream[j].depth /\ stream[j].depth < stream[g].depth
      BY <1>0, <1>4, <3>1, <3>2
    <3>4. stream[j].depth \in Nat
      BY <1>0, <3>1
    <3>5. D - 1 < stream[j].depth /\ stream[j].depth < D
      BY <1>4, <3>3 DEF D
    <3> QED BY <1>0, <3>4, <3>5
  <2>2. OpenNodes(new) \in SUBSET Nat
    BY <1>0, <1>3
  <2> QED BY <1>5, <2>1, <2>2, LargestIs DEF Innermost
<1>7. stream[p].suffix = <<>> /\ new[p].suffix = <<>> /\ new[p].depth = D - 1
  BY <1>0, <1>4, <1>5 DEF Threaded, g
<1>8. ASSUME NEW i \in 1 .. n, new[i].open
      PROVE  /\ new[i].kind \in {"root", "group"} /\ new[i].trail = <<>>
             /\ OnSpine(new, i, n) /\ new[i].suffix = <<>>
  <2>1. i # g /\ new[i] = stream[i]
    BY <1>2, <1>8
  <2>2. /\ stream[i].kind \in {"root", "group"} /\ stream[i].trail = <<>>
        /\ OnSpine(stream, i, n) /\ stream[i].suffix = <<>>
    BY <1>8, <2>1 DEF Threaded, g
  <2>3. OnSpine(new, i, n)
    <3> SUFFICES ASSUME NEW j \in i + 1 .. n
                 PROVE  new[j].depth > new[i].depth
      BY DEF OnSpine
    <3>1. j \in 1 .. n
      BY <1>0
    <3> QED BY <1>2, <2>2, <3>1 DEF OnSpine
  <2> QED BY <2>1, <2>2, <2>3
<1>9. \A k \in 0 .. new[p].depth : \E i \in OpenNodes(new) : new[i].depth = k
  <2> SUFFICES ASSUME NEW k \in 0 .. new[p].depth
               PROVE  \E i \in OpenNodes(new) : new[i].depth = k
    OBVIOUS
  <2>1. k \in 0 .. D /\ k # D
    BY <1>0, <1>7
  <2>2. PICK i \in open : stream[i].depth = k
    BY <2>1 DEF Threaded, g, D, open
  <2>3. i # g /\ i \in 1 .. n
    BY <1>0, <2>1, <2>2 DEF D
  <2> QED BY <1>2, <1>3, <2>2, <2>3
<1>10. ASSUME NEW i \in 1 .. n, new[i].kind \notin {"root", "group"}
       PROVE  /\ new[i].prefix = <<>> /\ new[i].suffix = <<>>
              /\ i < n => new[i + 1].depth <= new[i].depth
  <2>1. i # g /\ new[i] = stream[i]
    BY <1>2, <1>10
  <2>2. /\ stream[i].prefix = <<>> /\ stream[i].suffix = <<>>
        /\ i < n => stream[i + 1].depth <= stream[i].depth
    BY <1>10, <2>1 DEF Threaded
  <2>3. i < n => i + 1 \in 1 .. n
    BY <1>0
  <2> QED BY <1>2, <2>1, <2>2, <2>3
<1>11. /\ new[1].open /\ new[1].kind = "root" /\ new[1].lead = <<>>
       /\ \A i \in 2 .. n : new[i].kind # "root"
  <2>1. \A i \in 2 .. n : i \in 1 .. n
    BY <1>0
  <2>2. /\ stream[1].open /\ stream[1].kind = "root" /\ stream[1].lead = <<>>
        /\ \A i \in 2 .. n : stream[i].kind # "root"
    BY DEF Threaded
  <2>3. new[1] = stream[1]
    BY <1>0, <1>1, <1>2
  <2> QED BY <1>2, <2>1, <2>2, <2>3
<1>12. Threaded(new)
  BY <1>6, <1>8, <1>9, <1>10, <1>11 DEF Threaded
<1>13. new[p].depth + 1 = D
  BY <1>0, <1>7
<1> QED BY <1>6, <1>7, <1>12, <1>13 DEF g, D

\* The innermost group is closed behind what waits in it.
LEMMA GroupCompleted ==
  ASSUME NEW stream, Threaded(stream), NEW to \in Nat,
         stream[Innermost(stream)].kind = "group"
  PROVE  LET g == Innermost(stream)
             new == [stream EXCEPT ![g].open = FALSE, ![g].to = to]
         IN  /\ Threaded(new) /\ new[Innermost(new)].suffix = <<>>
             /\ Base(new) = (Base(stream) \o Pending(stream)) \o << <<to - 1, to>> >>
<1> DEFINE g == Innermost(stream)
           n == Len(stream)
           D == stream[g].depth
           node == [stream[g] EXCEPT !.open = FALSE, !.to = to]
           new == [stream EXCEPT ![g] = node]
           closer == << <<to - 1, to>> >>
<1>0. /\ Preorder(stream) /\ stream \in Seq(Nodes) /\ n \in Nat /\ g \in 1 .. n /\ stream[g] \in Nodes
      /\ stream[g].open /\ OnSpine(stream, g, n) /\ D \in Nat
  <2>1. /\ Preorder(stream) /\ n \in Nat /\ g \in 1 .. n
        /\ \A i \in 1 .. n : stream[i] \in Nodes
        /\ stream[g].open /\ OnSpine(stream, g, n) /\ D \in Nat
    BY ThreadedFacts
  <2> QED BY <2>1 DEF Preorder
<1>1. [stream EXCEPT ![g].open = FALSE, ![g].to = to] = new
  BY <1>0
<1>2. /\ node \in Nodes /\ node.kind = "group" /\ node.from = stream[g].from
      /\ node.to = to /\ node.depth = D /\ node.open = FALSE
      /\ node.lead = stream[g].lead /\ node.trail = stream[g].trail
      /\ node.prefix = stream[g].prefix /\ node.suffix = stream[g].suffix
  BY <1>0 DEF Nodes
<1> HIDE DEF node
<1>3. Ahead(node) = Ahead(stream[g])
  BY <1>2 DEF Ahead, OpenerOf
<1>4. ReplacedBy(stream, new, g, node)
  BY <1>0, <1>2, <1>3, Replaced
<1> HIDE DEF new
<1>5. /\ Preorder(new) /\ Len(new) = n
      /\ \A j \in 1 .. n : new[j].depth = stream[j].depth
      /\ \A j \in 1 .. n : j # g => new[j] = stream[j]
      /\ new[g] = node
      /\ Left(new, n, D) = Left(stream, n, D + 1) \o Behind(node)
  BY <1>4 DEF ReplacedBy
<1>6. /\ Threaded(new) /\ new[Innermost(new)].suffix = <<>>
      /\ new[Innermost(new)].depth + 1 = D
  BY <1>2, <1>5, ClosedInnermost
<1>7. Base(new) = Base(stream) \o Behind(node)
  BY <1>5, <1>6 DEF Base
<1>8. /\ Base(stream) \in Ranges /\ Pending(stream) \in Ranges /\ closer \in Ranges
  <2>1. closer \in Ranges
    BY DEF Ranges
  <2> QED BY <2>1, BaseTyped
<1>9. Behind(node) = Pending(stream) \o closer
  <2>1. stream[g].trail = <<>>
    BY <1>0 DEF Threaded
  <2>2. CloserOf(node) = closer
    BY <1>2 DEF CloserOf
  <2> DEFINE p == Pending(stream)
  <2>3. Behind(node) = (p \o closer) \o <<>>
    BY <1>2, <2>1, <2>2, NoRanges DEF Behind, Pending
  <2>4. p \in Ranges /\ closer \in Ranges
    BY <1>8
  <2> HIDE DEF p, closer
  <2>5. p \o closer \in Ranges
    BY <2>4, Joined
  <2> DEFINE pc == p \o closer
  <2> HIDE DEF pc
  <2>6. pc \o <<>> = pc
    BY <2>5, Joined DEF pc
  <2> QED BY <2>3, <2>6 DEF pc, p
<1> DEFINE b == Base(stream)
           p == Pending(stream)
<1> HIDE DEF b, p, closer
<1>10. (b \o p) \o closer = b \o (p \o closer)
  <2>1. b \in Ranges /\ p \in Ranges /\ closer \in Ranges
    BY <1>8 DEF b, p
  <2> QED BY <2>1, Associative
<1>11. Base(new) = (b \o p) \o closer
  BY <1>7, <1>9, <1>10 DEF b, p
<1> QED BY <1>1, <1>6, <1>11 DEF b, p, closer

=============================================================================
