-------------------------- MODULE CellParserProofs --------------------------
(***************************************************************************)
(* The shell front end, for every set of texts and lines: no input is      *)
(* lost, the state is the truth about the buffer, and Invalid is final.    *)
(* Lexing, framing and parsing are arbitrary, up to what CellFraming       *)
(* states of them.                                                         *)
(***************************************************************************)
EXTENDS CellFraming, TextTheorems

-----------------------------------------------------------------------------
(***************************************************************************)
(* Joining texts, and the ink of a text.                                   *)
(***************************************************************************)
JoinsUp(f, texts) ==
  f = [i \in 0 .. Len(texts) |-> IF i = 0 THEN <<>> ELSE f[i - 1] \o texts[i]]

\* Joining adds one text after another.
LEMMA JoinedFacts ==
  ASSUME NEW texts \in Seq(Text)
  PROVE  \E f \in [0 .. Len(texts) -> Text] :
           /\ Joined(texts) = f[Len(texts)]
           /\ f[0] = <<>>
           /\ \A i \in 1 .. Len(texts) : f[i] = f[i - 1] \o texts[i]
<1> DEFINE n == Len(texts)
           D == 0 .. n
           stop == {0}
           base == [i \in D |-> <<>>]
           next == [i \in D |-> IF i = 0 THEN 0 ELSE i - 1]
           step == [p \in D \X Text |-> IF p[1] = 0 THEN <<>> ELSE p[2] \o texts[p[1]]]
           m == [i \in D |-> i]
<1>0. n \in Nat /\ \A i \in 1 .. n : texts[i] \in Text
  OBVIOUS
<1> HIDE DEF n
<1>1. \A a, b \in Text : a \o b \in Text
  BY ConcatProperties DEF Text
<1>2. <<>> \in Text
  BY EmptySeq DEF Text
<1>3. /\ m \in [D -> Nat] /\ base \in [D -> Text] /\ stop \in SUBSET D /\ next \in [D -> D]
      /\ \A i \in D \ stop : m[next[i]] < m[i]
  BY <1>0, <1>2
<1>4. step \in [D \X Text -> Text]
  <2>1. \A p \in D \X Text : (IF p[1] = 0 THEN <<>> ELSE p[2] \o texts[p[1]]) \in Text
    <3> TAKE p \in D \X Text
    <3>1. p[1] \in D /\ p[2] \in Text
      OBVIOUS
    <3>2. p[1] # 0 => texts[p[1]] \in Text
      BY <1>0, <3>1
    <3> QED BY <1>1, <1>2, <3>1, <3>2
  <2> QED BY <2>1
<1>5. PICK f \in [D -> Text] : \A i \in D :
        f[i] = IF i \in stop THEN base[i] ELSE step[<<i, f[next[i]]>>]
  <2> HIDE DEF D, stop, base, next, step, m
  <2>1. Descends(D, Text, m, stop, base, next, step)
    BY <1>3, <1>4 DEF Descends
  <2> QED BY <2>1, RecursionByMeasure
<1>6. \A i \in D : f[i] = IF i = 0 THEN <<>> ELSE f[i - 1] \o texts[i]
  <2> TAKE i \in D
  <2>1. CASE i = 0
    BY <1>5, <2>1
  <2>2. CASE i # 0
    <3>1. next[i] = i - 1 /\ i - 1 \in D /\ f[i - 1] \in Text
      BY <1>0, <2>2
    <3>2. f[i] = step[<<i, f[i - 1]>>]
      BY <1>5, <2>2, <3>1
    <3>3. step[<<i, f[i - 1]>>] = f[i - 1] \o texts[i]
      BY <2>2, <3>1
    <3> QED BY <2>2, <3>2, <3>3
  <2> QED BY <2>1, <2>2
<1>7. JoinsUp(f, texts)
  BY <1>6 DEF JoinsUp, n
<1> DEFINE g == CHOOSE h : JoinsUp(h, texts)
<1>8. JoinsUp(g, texts)
  BY <1>7
<1>9. Joined(texts) = g[n]
  BY DEF Joined, JoinsUp, n
<1> HIDE DEF g
<1>10. g[0] = <<>> /\ \A i \in 1 .. n : g[i] = g[i - 1] \o texts[i]
  BY <1>0, <1>8 DEF JoinsUp, n
<1> DEFINE typed == { i \in D : g[i] \in Text }
<1>11. ASSUME NEW i \in D, \A k \in D : m[k] < m[i] => k \in typed
       PROVE  i \in typed
  <2>1. CASE i = 0
    BY <1>2, <1>10, <2>1
  <2>2. CASE i # 0
    <3>1. i - 1 \in D /\ m[i - 1] < m[i] /\ i \in 1 .. n
      BY <1>0, <2>2
    <3>2. g[i - 1] \in Text /\ texts[i] \in Text
      BY <1>0, <1>11, <3>1
    <3> QED BY <1>1, <1>10, <3>1, <3>2
  <2> QED BY <2>1, <2>2
<1>12. D \subseteq typed
  <2> HIDE DEF typed, D, m
  <2> QED BY <1>3, <1>11, MeasureInduction
<1>13. g \in [D -> Text]
  <2>1. g = [i \in D |-> IF i = 0 THEN <<>> ELSE g[i - 1] \o texts[i]]
    BY <1>8 DEF JoinsUp, n
  <2> QED BY <1>12, <2>1
<1> QED BY <1>9, <1>10, <1>13 DEF n

\* The join of two lists of texts.
LEMMA JoinedConcat ==
  ASSUME NEW a \in Seq(Text), NEW b \in Seq(Text)
  PROVE  /\ Joined(a) \in Text /\ Joined(b) \in Text
         /\ Joined(a \o b) = Joined(a) \o Joined(b)
<1> DEFINE k == Len(a)
           n == Len(b)
<1>1. PICK f \in [0 .. k -> Text] :
        Joined(a) = f[k] /\ f[0] = <<>> /\ \A i \in 1 .. k : f[i] = f[i - 1] \o a[i]
  BY JoinedFacts
<1>2. PICK g \in [0 .. n -> Text] :
        Joined(b) = g[n] /\ g[0] = <<>> /\ \A i \in 1 .. n : g[i] = g[i - 1] \o b[i]
  BY JoinedFacts
<1>3. /\ a \o b \in Seq(Text) /\ Len(a \o b) = k + n
      /\ \A i \in 1 .. k + n : (a \o b)[i] = IF i <= k THEN a[i] ELSE b[i - k]
  BY ConcatProperties
<1>4. PICK h \in [0 .. k + n -> Text] :
        Joined(a \o b) = h[k + n] /\ h[0] = <<>>
        /\ \A i \in 1 .. k + n : h[i] = h[i - 1] \o (a \o b)[i]
  <2>1. \E h \in [0 .. Len(a \o b) -> Text] :
          /\ Joined(a \o b) = h[Len(a \o b)] /\ h[0] = <<>>
          /\ \A i \in 1 .. Len(a \o b) : h[i] = h[i - 1] \o (a \o b)[i]
    BY <1>3, JoinedFacts
  <2> QED BY <1>3, <2>1
<1>5. k \in Nat /\ n \in Nat /\ \A i \in 1 .. n : b[i] \in Text
  OBVIOUS
<1> HIDE DEF k, n
<1>6. \A i \in 0 .. k : h[i] = f[i]
  <2> DEFINE D == 0 .. k
             same == { i \in D : h[i] = f[i] }
             m == [i \in D |-> i]
  <2>1. m \in [D -> Nat]
    BY <1>5
  <2>2. ASSUME NEW i \in D, \A j \in D : m[j] < m[i] => j \in same
        PROVE  i \in same
    <3>1. CASE i = 0
      BY <1>1, <1>4, <3>1
    <3>2. CASE i # 0
      <4>1. i - 1 \in D /\ m[i - 1] < m[i] /\ i \in 1 .. k /\ i \in 1 .. k + n /\ i <= k
        BY <1>5, <3>2
      <4>2. h[i - 1] = f[i - 1]
        BY <2>2, <4>1
      <4>3. (a \o b)[i] = a[i]
        BY <1>3, <4>1
      <4> QED BY <1>1, <1>4, <4>1, <4>2, <4>3
    <3> QED BY <3>1, <3>2
  <2>3. D \subseteq same
    <3> HIDE DEF D, same, m
    <3> QED BY <2>1, <2>2, MeasureInduction
  <2> QED BY <2>3
<1>7. \A i \in 0 .. n : h[k + i] = f[k] \o g[i]
  <2> DEFINE D == 0 .. n
             same == { i \in D : h[k + i] = f[k] \o g[i] }
             m == [i \in D |-> i]
  <2>0. f[k] \in Text
    BY <1>1, <1>5
  <2>1. m \in [D -> Nat]
    BY <1>5
  <2>2. ASSUME NEW i \in D, \A j \in D : m[j] < m[i] => j \in same
        PROVE  i \in same
    <3>1. CASE i = 0
      <4>1. f[k] \o <<>> = f[k]
        BY <2>0, ConcatEmptySeq DEF Text
      <4>2. h[k + 0] = f[k]
        BY <1>5, <1>6
      <4> QED BY <1>2, <3>1, <4>1, <4>2
    <3>2. CASE i # 0
      <4> DEFINE q == k + i
      <4>1. i - 1 \in D /\ m[i - 1] < m[i] /\ i \in 1 .. n /\ q \in 1 .. k + n
            /\ ~ (q <= k) /\ q - k = i /\ q - 1 = k + (i - 1)
        BY <1>5, <3>2
      <4>2. h[k + (i - 1)] = f[k] \o g[i - 1]
        BY <2>2, <4>1
      <4> HIDE DEF q
      <4>3. (a \o b)[q] = b[i]
        BY <1>3, <4>1
      <4>4a. h[q] = h[q - 1] \o (a \o b)[q]
        BY <1>4, <4>1
      <4>4. h[k + i] = h[k + (i - 1)] \o b[i]
        BY <4>1, <4>3, <4>4a DEF q
      <4>5. g[i - 1] \in Text /\ b[i] \in Text
        BY <1>2, <1>5, <4>1
      <4> DEFINE u == f[k]
                 v == g[i - 1]
                 w == b[i]
      <4>5a. u \in Seq(STRING) /\ v \in Seq(STRING) /\ w \in Seq(STRING)
        BY <2>0, <4>5 DEF Text
      <4> HIDE DEF u, v, w
      <4>5b. (u \o v) \o w = u \o (v \o w)
        BY <4>5a, ConcatAssociative
      <4>6. (f[k] \o g[i - 1]) \o b[i] = f[k] \o (g[i - 1] \o b[i])
        BY <4>5b DEF u, v, w
      <4>7. g[i] = g[i - 1] \o b[i]
        BY <1>2, <4>1
      <4> QED BY <4>2, <4>4, <4>6, <4>7
    <3> QED BY <3>1, <3>2
  <2>3. D \subseteq same
    <3> HIDE DEF D, same, m
    <3> QED BY <2>1, <2>2, MeasureInduction
  <2> QED BY <2>3
<1> QED
  <2>1. n \in 0 .. n /\ k \in 0 .. k
    BY <1>5
  <2> QED BY <1>1, <1>2, <1>4, <1>7, <2>1

\* No text joined is the empty text, and one text joined is itself.
LEMMA JoinedFew ==
  /\ Joined(<<>>) = <<>>
  /\ \A t \in Text : Joined(<<t>>) = t
<1>1. Joined(<<>>) = <<>>
  <2>1. <<>> \in Seq(Text) /\ Len(<<>>) = 0
    BY EmptySeq
  <2> QED BY <2>1, JoinedFacts
<1>2. ASSUME NEW t \in Text
      PROVE  Joined(<<t>>) = t
  <2>1. <<t>> \in Seq(Text) /\ Len(<<t>>) = 1 /\ <<t>>[1] = t
    OBVIOUS
  <2>2. PICK f \in [0 .. 1 -> Text] :
          Joined(<<t>>) = f[1] /\ f[0] = <<>> /\ \A i \in 1 .. 1 : f[i] = f[i - 1] \o <<t>>[i]
    BY <2>1, JoinedFacts
  <2>3. 1 \in 1 .. 1 /\ 1 - 1 = 0
    OBVIOUS
  <2>3a. f[1] = f[1 - 1] \o <<t>>[1]
    BY <2>2, <2>3
  <2>3b. f[1 - 1] = <<>>
    BY <2>2, <2>3
  <2>4. f[1] = <<>> \o t
    BY <2>1, <2>3a, <2>3b
  <2> QED BY <2>2, <2>4, ConcatEmptySeq DEF Text
<1> QED BY <1>1, <1>2

Pieces(text) == [p \in 1 .. Len(text) |-> IF text[p] \in Layout THEN <<>> ELSE <<text[p]>>]

\* Ink is the join of pieces, one per symbol.
LEMMA PiecesFacts ==
  ASSUME NEW t \in Text
  PROVE  /\ Ink(t) = Joined(Pieces(t))
         /\ Pieces(t) \in Seq(Text) /\ Len(Pieces(t)) = Len(t)
         /\ \A p \in 1 .. Len(t) :
              Pieces(t)[p] = IF t[p] \in Layout THEN <<>> ELSE <<t[p]>>
<1>1. Ink(t) = Joined(Pieces(t))
  BY DEF Ink, Pieces
<1>2. Len(t) \in Nat /\ \A p \in 1 .. Len(t) : t[p] \in STRING
  BY DEF Text
<1>3. \A p \in 1 .. Len(t) : (IF t[p] \in Layout THEN <<>> ELSE <<t[p]>>) \in Text
  <2> TAKE p \in 1 .. Len(t)
  <2>1. <<t[p]>> \in Text /\ <<>> \in Text
    BY <1>2 DEF Text
  <2> QED BY <2>1
<1>4. Pieces(t) \in [1 .. Len(t) -> Text]
  BY <1>3 DEF Pieces
<1>5. Pieces(t) \in Seq(Text) /\ Len(Pieces(t)) = Len(t)
  BY <1>2, <1>4
<1> QED BY <1>1, <1>5 DEF Pieces

\* The ink of a text is the ink of its parts.
LEMMA InkConcat ==
  ASSUME NEW a \in Text, NEW b \in Text
  PROVE  Ink(a) \in Text /\ Ink(b) \in Text /\ Ink(a \o b) = Ink(a) \o Ink(b)
<1>1. /\ a \o b \in Text /\ Len(a \o b) = Len(a) + Len(b)
      /\ \A i \in 1 .. Len(a) + Len(b) :
           (a \o b)[i] = IF i <= Len(a) THEN a[i] ELSE b[i - Len(a)]
  BY ConcatProperties DEF Text
<1>2. Len(a) \in Nat /\ Len(b) \in Nat
  BY DEF Text
<1> DEFINE c == a \o b
           pa == Pieces(a)
           pb == Pieces(b)
           pc == Pieces(c)
<1>3. /\ pa \in Seq(Text) /\ Len(pa) = Len(a)
      /\ \A p \in 1 .. Len(a) : pa[p] = IF a[p] \in Layout THEN <<>> ELSE <<a[p]>>
  BY PiecesFacts
<1>4. /\ pb \in Seq(Text) /\ Len(pb) = Len(b)
      /\ \A p \in 1 .. Len(b) : pb[p] = IF b[p] \in Layout THEN <<>> ELSE <<b[p]>>
  BY PiecesFacts
<1> HIDE DEF c
<1>5. c \in Text
  BY <1>1 DEF c
<1>6. /\ pc \in Seq(Text) /\ Len(pc) = Len(c)
      /\ \A p \in 1 .. Len(c) : pc[p] = IF c[p] \in Layout THEN <<>> ELSE <<c[p]>>
  BY <1>5, PiecesFacts
<1>7. Ink(a) = Joined(pa) /\ Ink(b) = Joined(pb) /\ Ink(c) = Joined(pc)
  BY <1>5, PiecesFacts
<1> HIDE DEF pa, pb, pc
<1>8. /\ pa \o pb \in Seq(Text) /\ Len(pa \o pb) = Len(a) + Len(b)
      /\ \A i \in 1 .. Len(a) + Len(b) :
           (pa \o pb)[i] = IF i <= Len(a) THEN pa[i] ELSE pb[i - Len(a)]
  <2>1. /\ pa \o pb \in Seq(Text) /\ Len(pa \o pb) = Len(pa) + Len(pb)
        /\ \A i \in 1 .. Len(pa) + Len(pb) :
             (pa \o pb)[i] = IF i <= Len(pa) THEN pa[i] ELSE pb[i - Len(pa)]
    BY <1>3, <1>4, ConcatProperties
  <2> QED BY <1>3, <1>4, <2>1
<1>9. pc = pa \o pb
  <2>1. \A i \in 1 .. Len(a) + Len(b) : pc[i] = (pa \o pb)[i]
    <3> TAKE i \in 1 .. Len(a) + Len(b)
    <3>0. Len(c) = Len(a) + Len(b) /\ c[i] = IF i <= Len(a) THEN a[i] ELSE b[i - Len(a)]
      BY <1>1 DEF c
    <3>1. pc[i] = IF c[i] \in Layout THEN <<>> ELSE <<c[i]>>
      BY <1>6, <3>0
    <3>2. CASE i <= Len(a)
      <4>1. i \in 1 .. Len(a) /\ c[i] = a[i] /\ (pa \o pb)[i] = pa[i]
        BY <1>2, <1>8, <3>0, <3>2
      <4> QED BY <1>3, <3>1, <4>1
    <3>3. CASE ~ (i <= Len(a))
      <4>1. i - Len(a) \in 1 .. Len(b) /\ c[i] = b[i - Len(a)]
            /\ (pa \o pb)[i] = pb[i - Len(a)]
        BY <1>2, <1>8, <3>0, <3>3
      <4> QED BY <1>4, <3>1, <4>1
    <3> QED BY <3>2, <3>3
  <2>2. Len(pc) = Len(pa \o pb) /\ Len(pc) = Len(a) + Len(b)
    BY <1>1, <1>6, <1>8 DEF c
  <2> QED BY <1>6, <1>8, <2>1, <2>2, SeqEqual
<1>10. Ink(c) = Ink(a) \o Ink(b)
  BY <1>3, <1>4, <1>7, <1>9, JoinedConcat
<1>11. Ink(a) \in Text /\ Ink(b) \in Text
  BY <1>3, <1>4, <1>7, JoinedConcat
<1> QED BY <1>10, <1>11 DEF c

\* Layout has no ink.
LEMMA InkOfLayout ==
  ASSUME NEW t \in Text, \A p \in 1 .. Len(t) : t[p] \in Layout
  PROVE  Ink(t) = <<>>
<1> DEFINE n == Len(t)
           D == 0 .. n
           m == [i \in D |-> i]
<1>0. n \in Nat
  BY DEF Text
<1>1a. Pieces(t) \in Seq(Text) /\ Len(Pieces(t)) = n /\ Ink(t) = Joined(Pieces(t))
  BY PiecesFacts
<1>1b. \E f \in [0 .. Len(Pieces(t)) -> Text] :
         /\ Joined(Pieces(t)) = f[Len(Pieces(t))] /\ f[0] = <<>>
         /\ \A i \in 1 .. Len(Pieces(t)) : f[i] = f[i - 1] \o Pieces(t)[i]
  BY <1>1a, JoinedFacts
<1>1. PICK f \in [0 .. n -> Text] :
        Ink(t) = f[n] /\ f[0] = <<>> /\ \A i \in 1 .. n : f[i] = f[i - 1] \o Pieces(t)[i]
  BY <1>1a, <1>1b
<1>2. \A i \in 1 .. n : f[i] = f[i - 1] \o <<>>
  BY <1>1, PiecesFacts
<1> HIDE DEF n
<1> DEFINE none == { i \in D : f[i] = <<>> }
<1>3. ASSUME NEW i \in D, \A j \in D : m[j] < m[i] => j \in none
      PROVE  i \in none
  <2>1. CASE i = 0
    BY <1>1, <2>1
  <2>2. CASE i # 0
    <3>1. i - 1 \in D /\ m[i - 1] < m[i] /\ i \in 1 .. n
      BY <1>0, <2>2
    <3>2. f[i - 1] = <<>> /\ f[i - 1] \in Text
      BY <1>3, <3>1
    <3>3. f[i - 1] \o <<>> = f[i - 1]
      BY <3>2, ConcatEmptySeq DEF Text
    <3> QED BY <1>2, <3>1, <3>2, <3>3
  <2> QED BY <2>1, <2>2
<1>4. D \subseteq none
  <2>1. m \in [D -> Nat]
    BY <1>0
  <2> HIDE DEF none, D, m
  <2> QED BY <1>3, <2>1, MeasureInduction
<1> QED BY <1>0, <1>1, <1>4

-----------------------------------------------------------------------------
(***************************************************************************)
(* One pass over the buffer: the unit cut off, and what is left behind.    *)
(***************************************************************************)
\* What refresh leaves behind.
Results ==
  [units : Seq(Texts), active : Texts, tokens : Texts, syntax : BOOLEAN,
   errors : SUBSET {"lexer", "parser"}, state : {"waiting", "Incomplete", "Invalid"}]

\* Giving a result other units.
LEMMA WithUnits ==
  ASSUME NEW r \in Results, NEW units
  PROVE  [r EXCEPT !.units = units] =
           [units |-> units, active |-> r.active, tokens |-> r.tokens, syntax |-> r.syntax,
            errors |-> r.errors, state |-> r.state]
BY DEF Results

\* A text is the part in front of an offset and the part behind it.
LEMMA Cut ==
  ASSUME NEW t \in Texts, NEW k \in 0 .. Len(t)
  PROVE  /\ t \in Text /\ Len(t) \in Nat
         /\ SubSeq(t, 1, k) \in Texts /\ SubSeq(t, k + 1, Len(t)) \in Texts
         /\ t = SubSeq(t, 1, k) \o SubSeq(t, k + 1, Len(t))
         /\ Len(SubSeq(t, 1, k)) = k /\ Len(SubSeq(t, k + 1, Len(t))) = Len(t) - k
         /\ \A i \in 1 .. k : SubSeq(t, 1, k)[i] = t[i]
         /\ \A i \in 1 .. Len(t) - k : SubSeq(t, k + 1, Len(t))[i] = t[k + i]
<1>1. t \in Seq(STRING) /\ Len(t) \in Nat /\ \A i \in 1 .. Len(t) : t[i] \in STRING
  BY TextsAssumption
<1>2. SubSeq(t, 1, k) \in Texts /\ SubSeq(t, k + 1, Len(t)) \in Texts
  <2>1. 0 \in 0 .. Len(t) /\ Len(t) \in 0 .. Len(t)
    BY <1>1
  <2>2. \A from, to \in 0 .. Len(t) : SubSeq(t, from + 1, to) \in Texts
    BY TextsAssumption
  <2>3. SubSeq(t, 0 + 1, k) \in Texts
    BY <2>1, <2>2
  <2> QED BY <2>1, <2>2, <2>3
<1>3. t = SubSeq(t, 1, k) \o SubSeq(t, k + 1, Len(t))
  <2>1. 1 \in 1 .. Len(t) + 1 /\ k \in 1 - 1 .. Len(t) /\ Len(t) \in k .. Len(t)
    BY <1>1
  <2>2. SubSeq(t, 1, k) \o SubSeq(t, k + 1, Len(t)) = SubSeq(t, 1, Len(t))
    BY <1>1, <2>1, ConcatAdjacentSubSeq
  <2> QED BY <1>1, <2>2, SubSeqFull
<1>4. /\ Len(SubSeq(t, 1, k)) = k
      /\ \A i \in 1 .. k : SubSeq(t, 1, k)[i] = t[i]
  <2>1. 1 \in Int /\ k \in Int /\ \A i \in 1 .. k : t[i] \in STRING
    BY <1>1
  <2>2. /\ Len(SubSeq(t, 1, k)) = IF 1 <= k THEN k - 1 + 1 ELSE 0
        /\ \A i \in 1 .. k - 1 + 1 : SubSeq(t, 1, k)[i] = t[1 + i - 1]
    BY <2>1, SubSeqProperties
  <2>3. k - 1 + 1 = k /\ \A i \in 1 .. k : 1 + i - 1 = i
    BY <1>1
  <2> QED BY <1>1, <2>2, <2>3
<1>5. /\ Len(SubSeq(t, k + 1, Len(t))) = Len(t) - k
      /\ \A i \in 1 .. Len(t) - k : SubSeq(t, k + 1, Len(t))[i] = t[k + i]
  <2> DEFINE n == Len(t)
             a == k + 1
  <2>1. n \in Int /\ a \in Int /\ \A i \in a .. n : t[i] \in STRING
    BY <1>1
  <2>3. n - a + 1 = n - k /\ (a <= n <=> k # n) /\ \A i \in 1 .. n - k : a + i - 1 = k + i
    BY <1>1
  <2> HIDE DEF n, a
  <2>2. /\ Len(SubSeq(t, a, n)) = IF a <= n THEN n - a + 1 ELSE 0
        /\ \A i \in 1 .. n - a + 1 : SubSeq(t, a, n)[i] = t[a + i - 1]
    BY <2>1, SubSeqProperties
  <2>4. Len(SubSeq(t, a, n)) = n - k
    BY <1>1, <2>1, <2>2, <2>3 DEF n
  <2>5. \A i \in 1 .. n - k : SubSeq(t, a, n)[i] = t[k + i]
    BY <2>2, <2>3
  <2> QED BY <2>4, <2>5 DEF a, n
<1> QED BY <1>1, <1>2, <1>3, <1>4, <1>5 DEF Text

\* The parts of a submitted text behind a cut are submitted text too.
LEMMA WholeSuffix ==
  ASSUME NEW t \in Texts, Whole(t), NEW k \in 0 .. Len(t)
  PROVE  Whole(SubSeq(t, k + 1, Len(t)))
<1> DEFINE s == SubSeq(t, k + 1, Len(t))
<1>1. s \in Seq(STRING) /\ Len(t) \in Nat /\ Len(s) = Len(t) - k
      /\ \A i \in 1 .. Len(t) - k : s[i] = t[k + i]
  BY Cut, TextsAssumption
<1> HIDE DEF s
<1>2. CASE s = <<>>
  BY <1>2 DEF Whole, s
<1>3. CASE s # <<>>
  <2>1. Len(s) \in Nat \ {0}
    BY <1>1, <1>3, EmptySeq
  <2>2. Len(s) \in 1 .. Len(t) - k /\ k + Len(s) = Len(t) /\ Len(t) # 0
    <3> DEFINE n == Len(t)
               l == Len(s)
    <3>1. n \in Nat /\ l \in Nat \ {0} /\ l = n - k /\ k \in 0 .. n
      BY <1>1, <2>1
    <3> HIDE DEF n, l
    <3>2. l \in 1 .. n - k /\ k + l = n /\ n # 0
      BY <3>1
    <3> QED BY <3>2 DEF n, l
  <2>3. s[Len(s)] = t[Len(t)]
    BY <1>1, <2>2
  <2>4. t # <<>>
    BY <2>2, EmptySeq
  <2> QED BY <1>3, <2>3, <2>4 DEF Whole, EndsWithNewline, s
<1> QED BY <1>2, <1>3

\* A complete first cell is a proper front of the text.
LEMMA FirstCell ==
  ASSUME NEW t \in Texts, CellComplete(Frame(t))
  PROVE  /\ Frame(t).cells[1].end \in 1 .. Len(t)
         /\ FirstUnit(Frame(t), t) \in Texts /\ AfterFirst(Frame(t), t) \in Texts
         /\ t = FirstUnit(Frame(t), t) \o AfterFirst(Frame(t), t)
         /\ Len(AfterFirst(Frame(t), t)) < Len(t)
         /\ Whole(t) => Whole(AfterFirst(Frame(t), t))
<1> DEFINE cells == Frame(t).cells
           k == cells[1].end
<1>1. k \in 1 .. Len(t)
  <2>1. cells \in Seq([end : Nat, semi : BOOLEAN])
    BY FrameAssumption
  <2>2. cells # <<>>
    BY DEF CellComplete
  <2>3. Len(cells) \in Nat \ {0} /\ DOMAIN cells = 1 .. Len(cells)
    BY <2>1, <2>2, EmptySeq, LenProperties
  <2>4. 1 \in DOMAIN cells
    BY <2>3
  <2> QED BY <2>4, FrameAssumption
<1>2. Len(t) \in Nat
  BY TextsAssumption
<1>3. k \in 0 .. Len(t)
  BY <1>1, <1>2
<1>4. FirstUnit(Frame(t), t) = SubSeq(t, 1, k) /\ AfterFirst(Frame(t), t) = SubSeq(t, k + 1, Len(t))
  BY DEF FirstUnit, AfterFirst
<1> HIDE DEF k
<1>5. /\ SubSeq(t, 1, k) \in Texts /\ SubSeq(t, k + 1, Len(t)) \in Texts
      /\ t = SubSeq(t, 1, k) \o SubSeq(t, k + 1, Len(t))
      /\ Len(SubSeq(t, k + 1, Len(t))) = Len(t) - k
  BY <1>3, Cut
<1>6. Len(t) - k < Len(t)
  BY <1>1, <1>2
<1>7. Whole(t) => Whole(SubSeq(t, k + 1, Len(t)))
  BY <1>3, WholeSuffix
<1> QED BY <1>1, <1>4, <1>5, <1>6, <1>7 DEF k

\* Texts and outcomes of which the loop takes the first cell.
Taking == { t \in Texts : TakesFirst(Frame(t), FirstOutcome(t)) }

\* How the loop ends, as a record.
LEMMA RestFacts ==
  ASSUME NEW t \in Texts
  PROVE  LET frame == Frame(t)
             outcome == FirstOutcome(t)
             rest == Rest(frame, outcome, t)
         IN  /\ rest \in Results
             /\ frame.fatal # "none" =>
                  rest = Left(t, <<>>, FALSE, {"lexer"},
                              IF frame.fatal \in IncompleteLexErrors THEN "Incomplete" ELSE "Invalid")
             /\ frame.fatal = "none" /\ (~ HasCell(frame) \/ outcome = "empty") =>
                  rest = Left(t, t, FALSE, Diagnosed(frame), "waiting")
             /\ TakesLast(frame, outcome) =>
                  rest = [units |-> <<FirstUnit(frame, t)>>, active |-> <<>>, tokens |-> <<>>,
                          syntax |-> FALSE, errors |-> {}, state |-> "waiting"]
             /\ frame.fatal = "none" /\ HasCell(frame) /\ outcome = "syntax"
                  /\ ~ TakesLast(frame, outcome) =>
                  rest = Left(t, t, TRUE, Diagnosed(frame), "Incomplete")
             /\ frame.fatal = "none" /\ HasCell(frame) /\ outcome \notin {"empty", "syntax"} =>
                  rest = Left(t, t, FALSE, Diagnosed(frame) \cup {"parser"},
                              ErrorState(frame, outcome))
<1> DEFINE frame == Frame(t)
           outcome == FirstOutcome(t)
           rest == Rest(frame, outcome, t)
           class == IF frame.fatal \in IncompleteLexErrors THEN "Incomplete" ELSE "Invalid"
           last == [Left(<<>>, <<>>, FALSE, {}, "waiting") EXCEPT !.units = <<FirstUnit(frame, t)>>]
<1>1. ASSUME NEW text \in Texts, NEW tokens \in Texts, NEW syntax \in BOOLEAN,
             NEW kinds \in SUBSET {"lexer", "parser"},
             NEW s \in {"waiting", "Incomplete", "Invalid"}
      PROVE  Left(text, tokens, syntax, kinds, s) \in Results
  <2>1. <<>> \in Seq(Texts)
    BY EmptySeq
  <2> QED BY <2>1 DEF Left, Results
<1>2. <<>> \in Texts
  BY TextsAssumption
<1>3. Diagnosed(frame) \in SUBSET {"lexer", "parser"}
  BY DEF Diagnosed
<1>4. ErrorState(frame, outcome) \in {"waiting", "Incomplete", "Invalid"}
  BY DEF ErrorState
<1>5. TakesLast(frame, outcome) => frame.fatal = "none" /\ HasCell(frame) /\ outcome = "syntax"
  BY DEF TakesLast, CellComplete, HasCell
<1>6. rest = CASE frame.fatal # "none" -> Left(t, <<>>, FALSE, {"lexer"}, class)
               [] frame.fatal = "none" /\ (~ HasCell(frame) \/ outcome = "empty") ->
                    Left(t, t, FALSE, Diagnosed(frame), "waiting")
               [] TakesLast(frame, outcome) -> last
               [] /\ frame.fatal = "none" /\ HasCell(frame) /\ outcome = "syntax"
                  /\ ~ TakesLast(frame, outcome) ->
                    Left(t, t, TRUE, Diagnosed(frame), "Incomplete")
               [] OTHER ->
                    Left(t, t, FALSE, Diagnosed(frame) \cup {"parser"}, ErrorState(frame, outcome))
  BY DEF Rest
<1>7. last = [units |-> <<FirstUnit(frame, t)>>, active |-> <<>>, tokens |-> <<>>,
              syntax |-> FALSE, errors |-> {}, state |-> "waiting"]
  <2> DEFINE r == Left(<<>>, <<>>, FALSE, {}, "waiting")
             unit == <<FirstUnit(frame, t)>>
  <2>1. r \in Results
    BY <1>1, <1>2
  <2>2. r.active = <<>> /\ r.tokens = <<>> /\ r.syntax = FALSE /\ r.errors = {}
        /\ r.state = "waiting"
    BY DEF Left
  <2> HIDE DEF r, unit
  <2>3. [r EXCEPT !.units = unit] =
          [units |-> unit, active |-> <<>>, tokens |-> <<>>, syntax |-> FALSE, errors |-> {},
           state |-> "waiting"]
    BY <2>1, <2>2, WithUnits
  <2> QED BY <2>3 DEF r, unit
<1>8. TakesLast(frame, outcome) => last \in Results
  <2> SUFFICES ASSUME TakesLast(frame, outcome)
               PROVE  last \in Results
    OBVIOUS
  <2>1. FirstUnit(frame, t) \in Texts
    BY FirstCell DEF TakesLast
  <2>2. <<FirstUnit(frame, t)>> \in Seq(Texts)
    BY <2>1
  <2> QED BY <1>2, <1>7, <2>2 DEF Results
<1> HIDE DEF frame, outcome, rest, last
<1>9. CASE frame.fatal # "none"
  <2>1. rest = Left(t, <<>>, FALSE, {"lexer"}, class)
    BY <1>5, <1>6, <1>9
  <2>2. rest \in Results
    BY <1>1, <1>2, <2>1
  <2> QED BY <1>5, <1>9, <2>1, <2>2 DEF frame, outcome, rest, last
<1>10. CASE frame.fatal = "none" /\ (~ HasCell(frame) \/ outcome = "empty")
  <2>1. rest = Left(t, t, FALSE, Diagnosed(frame), "waiting")
    BY <1>5, <1>6, <1>10
  <2>2. rest \in Results
    BY <1>1, <1>3, <2>1
  <2> QED BY <1>5, <1>10, <2>1, <2>2 DEF frame, outcome, rest, last
<1>11. CASE TakesLast(frame, outcome)
  <2>1. rest = last
    BY <1>5, <1>6, <1>11
  <2> QED BY <1>5, <1>7, <1>8, <1>11, <2>1 DEF frame, outcome, rest, last
<1>12. CASE /\ frame.fatal = "none" /\ HasCell(frame) /\ outcome = "syntax"
            /\ ~ TakesLast(frame, outcome)
  <2>1. rest = Left(t, t, TRUE, Diagnosed(frame), "Incomplete")
    BY <1>5, <1>6, <1>12
  <2>2. rest \in Results
    BY <1>1, <1>3, <2>1
  <2> QED BY <1>5, <1>12, <2>1, <2>2 DEF frame, outcome, rest, last
<1>13. CASE frame.fatal = "none" /\ HasCell(frame) /\ outcome \notin {"empty", "syntax"}
  <2>1. rest = Left(t, t, FALSE, Diagnosed(frame) \cup {"parser"}, ErrorState(frame, outcome))
    BY <1>5, <1>6, <1>13
  <2>2. Diagnosed(frame) \cup {"parser"} \in SUBSET {"lexer", "parser"}
    BY <1>3
  <2>3. rest \in Results
    BY <1>1, <1>4, <2>1, <2>2
  <2> QED BY <1>5, <1>13, <2>1, <2>3 DEF frame, outcome, rest, last
<1> QED BY <1>9, <1>10, <1>11, <1>12, <1>13

-----------------------------------------------------------------------------
(***************************************************************************)
(* refresh: the loop, as a recursion on the length of the buffer.          *)
(***************************************************************************)
Refreshes(f) ==
  f = [text \in Texts |->
         IF ~ TakesFirst(Frame(text), FirstOutcome(text))
         THEN Rest(Frame(text), FirstOutcome(text), text)
         ELSE [f[AfterFirst(Frame(text), text)] EXCEPT
                 !.units = <<FirstUnit(Frame(text), text)>> \o @]]

\* The loop either ends, or goes on behind its first cell.
LEMMA RefreshEquation ==
  /\ RefreshOf \in [Texts -> Results]
  /\ \A t \in Texts \ Taking : RefreshOf[t] = Rest(Frame(t), FirstOutcome(t), t)
  /\ \A t \in Taking :
       RefreshOf[t] = [RefreshOf[AfterFirst(Frame(t), t)] EXCEPT
                         !.units = <<FirstUnit(Frame(t), t)>> \o @]
<1> DEFINE m == [t \in Texts |-> Len(t)]
           stop == Texts \ Taking
           base == [t \in Texts |-> Rest(Frame(t), FirstOutcome(t), t)]
           next == [t \in Texts |-> IF t \in Taking THEN AfterFirst(Frame(t), t) ELSE t]
           step == [p \in Texts \X Results |->
                      IF p[1] \in Taking
                      THEN [p[2] EXCEPT !.units = <<FirstUnit(Frame(p[1]), p[1])>> \o @]
                      ELSE p[2]]
<1>1. \A t \in Taking : t \in Texts /\ CellComplete(Frame(t))
  BY DEF Taking, TakesFirst
<1>2. \A t \in Taking : /\ FirstUnit(Frame(t), t) \in Texts
                        /\ AfterFirst(Frame(t), t) \in Texts
                        /\ Len(AfterFirst(Frame(t), t)) < Len(t)
  BY <1>1, FirstCell
<1>3. /\ m \in [Texts -> Nat] /\ stop \in SUBSET Texts /\ next \in [Texts -> Texts]
      /\ \A t \in Texts \ stop : m[next[t]] < m[t]
  <2>1. m \in [Texts -> Nat]
    BY TextsAssumption
  <2>2. next \in [Texts -> Texts]
    BY <1>2
  <2>3. ASSUME NEW t \in Texts \ stop
        PROVE  m[next[t]] < m[t]
    <3>1. t \in Taking /\ next[t] = AfterFirst(Frame(t), t) /\ next[t] \in Texts
      BY <1>2, <2>3
    <3> HIDE DEF next
    <3> QED BY <1>2, <3>1
  <2> QED BY <2>1, <2>2, <2>3
<1>4. base \in [Texts -> Results]
  BY RestFacts
<1>5. ASSUME NEW r \in Results, NEW t \in Taking
      PROVE  [r EXCEPT !.units = <<FirstUnit(Frame(t), t)>> \o @] \in Results
  <2> DEFINE unit == FirstUnit(Frame(t), t)
  <2>1. <<unit>> \in Seq(Texts) /\ r.units \in Seq(Texts)
    BY <1>2 DEF Results
  <2> HIDE DEF unit
  <2>2. <<unit>> \o r.units \in Seq(Texts)
    BY <2>1, ConcatProperties
  <2> QED BY <2>2 DEF Results, unit
<1>6. step \in [Texts \X Results -> Results]
  <2>1. \A p \in Texts \X Results :
          (IF p[1] \in Taking
           THEN [p[2] EXCEPT !.units = <<FirstUnit(Frame(p[1]), p[1])>> \o @]
           ELSE p[2]) \in Results
    <3> TAKE p \in Texts \X Results
    <3>1. p[2] \in Results
      OBVIOUS
    <3>2. CASE p[1] \in Taking
      BY <1>5, <3>1, <3>2
    <3>3. CASE p[1] \notin Taking
      BY <3>1, <3>3
    <3> QED BY <3>2, <3>3
  <2> QED BY <2>1
<1>7. PICK f \in [Texts -> Results] : \A t \in Texts :
        f[t] = IF t \in stop THEN base[t] ELSE step[<<t, f[next[t]]>>]
  <2> HIDE DEF stop, base, next, step, m
  <2>1. Descends(Texts, Results, m, stop, base, next, step)
    BY <1>3, <1>4, <1>6 DEF Descends
  <2> QED BY <2>1, RecursionByMeasure
<1>8. Refreshes(f)
  <2>1. ASSUME NEW t \in Texts \ Taking
        PROVE  f[t] = Rest(Frame(t), FirstOutcome(t), t)
    BY <1>7, <2>1
  <2>2. ASSUME NEW t \in Taking
        PROVE  f[t] = [f[AfterFirst(Frame(t), t)] EXCEPT
                         !.units = <<FirstUnit(Frame(t), t)>> \o @]
    <3>1. t \in Texts /\ t \notin stop /\ next[t] = AfterFirst(Frame(t), t) /\ next[t] \in Texts
      BY <1>1, <1>2, <2>2
    <3>2. f[t] = step[<<t, f[next[t]]>>] /\ f[next[t]] \in Results
      BY <1>7, <3>1
    <3> HIDE DEF next, stop
    <3>3. step[<<t, f[next[t]]>>] =
            [f[next[t]] EXCEPT !.units = <<FirstUnit(Frame(t), t)>> \o @]
      <4> DEFINE p == <<t, f[next[t]]>>
      <4>1. p \in Texts \X Results /\ p[1] = t /\ p[2] = f[next[t]]
        BY <3>1, <3>2
      <4> HIDE DEF p
      <4>2. step[p] = [p[2] EXCEPT !.units = <<FirstUnit(Frame(p[1]), p[1])>> \o @]
        BY <2>2, <4>1
      <4> QED BY <4>1, <4>2 DEF p
    <3> QED BY <3>1, <3>2, <3>3
  <2> DEFINE F == [text \in Texts |->
                     IF ~ TakesFirst(Frame(text), FirstOutcome(text))
                     THEN Rest(Frame(text), FirstOutcome(text), text)
                     ELSE [f[AfterFirst(Frame(text), text)] EXCEPT
                             !.units = <<FirstUnit(Frame(text), text)>> \o @]]
  <2>3. \A t \in Texts : f[t] = F[t]
    BY <2>1, <2>2 DEF Taking
  <2>4. f = F
    <3> HIDE DEF F
    <3>1. f = [t \in Texts |-> f[t]]
      OBVIOUS
    <3>2. F = [t \in Texts |-> F[t]]
      BY DEF F
    <3> QED BY <2>3, <3>1, <3>2
  <2> QED BY <2>4 DEF Refreshes
<1>9. RefreshOf = CHOOSE g : Refreshes(g)
  BY DEF RefreshOf, Refreshes
<1>10. Refreshes(RefreshOf)
  BY <1>8, <1>9
<1> HIDE DEF stop, base, next, step
<1>11. ASSUME NEW t \in Texts \ Taking
       PROVE  RefreshOf[t] = Rest(Frame(t), FirstOutcome(t), t)
  <2>1. ~ TakesFirst(Frame(t), FirstOutcome(t))
    BY DEF Taking
  <2> QED BY <1>10, <2>1 DEF Refreshes
<1>12. ASSUME NEW t \in Taking
       PROVE  RefreshOf[t] = [RefreshOf[AfterFirst(Frame(t), t)] EXCEPT
                                !.units = <<FirstUnit(Frame(t), t)>> \o @]
  <2>1. t \in Texts /\ TakesFirst(Frame(t), FirstOutcome(t))
    BY DEF Taking
  <2> QED BY <1>10, <2>1 DEF Refreshes
<1> DEFINE typed == { t \in Texts : RefreshOf[t] \in Results }
<1>13. ASSUME NEW t \in Texts, \A u \in Texts : m[u] < m[t] => u \in typed
       PROVE  t \in typed
  <2>1. CASE t \notin Taking
    <3>1. Rest(Frame(t), FirstOutcome(t), t) \in Results
      BY RestFacts
    <3>2. t \in Texts \ Taking
      BY <2>1
    <3>3. RefreshOf[t] \in Results
      BY <1>11, <3>1, <3>2
    <3> QED BY <3>3
  <2>2. CASE t \in Taking
    <3>1. AfterFirst(Frame(t), t) \in Texts /\ m[AfterFirst(Frame(t), t)] < m[t]
      BY <1>2, <2>2
    <3>2. RefreshOf[AfterFirst(Frame(t), t)] \in Results
      BY <1>13, <3>1
    <3>3. [RefreshOf[AfterFirst(Frame(t), t)] EXCEPT
             !.units = <<FirstUnit(Frame(t), t)>> \o @] \in Results
      BY <1>5, <2>2, <3>2
    <3>4. RefreshOf[t] \in Results
      BY <1>12, <2>2, <3>3
    <3> QED BY <3>4
  <2> QED BY <2>1, <2>2
<1>14. Texts \subseteq typed
  <2> HIDE DEF typed, m
  <2> QED BY <1>3, <1>13, MeasureInduction
<1>15. RefreshOf \in [Texts -> Results]
  <2>1. RefreshOf = [t \in Texts |->
         IF ~ TakesFirst(Frame(t), FirstOutcome(t))
         THEN Rest(Frame(t), FirstOutcome(t), t)
         ELSE [RefreshOf[AfterFirst(Frame(t), t)] EXCEPT
                 !.units = <<FirstUnit(Frame(t), t)>> \o @]]
    BY <1>10 DEF Refreshes
  <2>2. RefreshOf = [t \in Texts |-> RefreshOf[t]]
    BY <2>1
  <2> QED BY <1>14, <2>2
<1> QED BY <1>11, <1>12, <1>15

\* Nothing is unfinished in the empty text.
LEMMA NothingUnfinished == Whole(<<>>) /\ ~ Unfinished(<<>>)
<1>1. Len(<<>>) = 0
  OBVIOUS
<1> DEFINE Reads(f) == f = [i \in 0 .. Len(<<>>) |->
                              IF i = 0 THEN "code" ELSE Enters(f[i - 1], <<>>[i])]
           start == [i \in 0 .. 0 |-> "code"]
<1>2. Reads(start)
  <2>1. \A i \in 0 .. 0 :
          start[i] = IF i = 0 THEN "code" ELSE Enters(start[i - 1], <<>>[i])
    OBVIOUS
  <2> QED BY <1>1, <2>1
<1>3. Within(<<>>) = CHOOSE f : Reads(f)
  BY DEF Within
<1>4. Reads(Within(<<>>))
  <2> HIDE DEF Reads, start
  <2> QED BY <1>2, <1>3
<1>5. Within(<<>>)[0] = "code"
  BY <1>1, <1>4
<1>6. Written(<<>>) = {}
  BY DEF Written
<1>7. Within(<<>>)[Len(<<>>)] # "block"
  BY <1>1, <1>5
<1> QED BY <1>6, <1>7 DEF Unfinished, Whole

-----------------------------------------------------------------------------
(***************************************************************************)
(* What a refresh of submitted text is worth.                              *)
(***************************************************************************)
\* The units and what is left spell the text, unless what the units were cut
\* from mixes line and block comments.
Spells(text, units, active) ==
  \E done \in Text :
    /\ text = done \o active
    /\ MixesComments(done) \/ Ink(done) = Ink(Joined(units))

Truthful(r) ==
  /\ r.tokens \in {<<>>, r.active}
  /\ r.state = "waiting" <=> ~ Unfinished(r.active)
  /\ r.state = "Invalid" => r.errors # {} /\ Hopeless(r.active)
  /\ r.syntax => r.state = "Incomplete"
  /\ Whole(r.active)

Good(text, r) ==
  /\ r \in Results
  /\ Spells(text, r.units, r.active)
  /\ Truthful(r)

\* A text mixes comments when a part of it does.
LEMMA MixedParts ==
  ASSUME NEW a \in Text, NEW b \in Text, MixesComments(a) \/ MixesComments(b)
  PROVE  MixesComments(a \o b)
<1>1. /\ Len(a) \in Nat /\ Len(b) \in Nat /\ DOMAIN a = 1 .. Len(a) /\ DOMAIN b = 1 .. Len(b)
      /\ DOMAIN (a \o b) = 1 .. Len(a) + Len(b)
      /\ \A i \in 1 .. Len(a) + Len(b) :
           (a \o b)[i] = IF i <= Len(a) THEN a[i] ELSE b[i - Len(a)]
  <2>1. a \in Seq(STRING) /\ b \in Seq(STRING)
    BY DEF Text
  <2>2. a \o b \in Seq(STRING) /\ Len(a \o b) = Len(a) + Len(b)
        /\ \A i \in 1 .. Len(a) + Len(b) :
             (a \o b)[i] = IF i <= Len(a) THEN a[i] ELSE b[i - Len(a)]
    BY <2>1, ConcatProperties
  <2> QED BY <2>1, <2>2, LenProperties
<1> DEFINE c == a \o b
<1> HIDE DEF c
<1>2. CASE MixesComments(a)
  <2>1. PICK i, j \in DOMAIN a : a[i] = "LC" /\ a[j] = "BO"
    BY <1>2 DEF MixesComments
  <2>2. i \in DOMAIN c /\ j \in DOMAIN c /\ c[i] = "LC" /\ c[j] = "BO"
    BY <1>1, <2>1 DEF c
  <2> QED BY <2>2 DEF MixesComments, c
<1>3. CASE MixesComments(b)
  <2>1. PICK i, j \in DOMAIN b : b[i] = "LC" /\ b[j] = "BO"
    BY <1>3 DEF MixesComments
  <2> DEFINE p == Len(a) + i
             q == Len(a) + j
  <2>2. /\ p \in 1 .. Len(a) + Len(b) /\ ~ (p <= Len(a)) /\ p - Len(a) = i
        /\ q \in 1 .. Len(a) + Len(b) /\ ~ (q <= Len(a)) /\ q - Len(a) = j
    BY <1>1, <2>1
  <2> HIDE DEF p, q
  <2>3. p \in DOMAIN c /\ q \in DOMAIN c /\ c[p] = "LC" /\ c[q] = "BO"
    BY <1>1, <2>1, <2>2 DEF c
  <2> QED BY <2>3 DEF MixesComments, c
<1> QED BY <1>2, <1>3

\* Text in front is spelled by the units in front.
LEMMA SpellsConcat ==
  ASSUME NEW front \in Text, NEW before \in Seq(Text),
         MixesComments(front) \/ Ink(front) = Ink(Joined(before)),
         NEW text \in Text, NEW units \in Seq(Text), NEW active \in Text,
         Spells(text, units, active)
  PROVE  Spells(front \o text, before \o units, active)
<1>1. PICK done \in Text :
        text = done \o active /\ (MixesComments(done) \/ Ink(done) = Ink(Joined(units)))
  BY DEF Spells
<1>2. front \o (done \o active) = (front \o done) \o active
  <2>1. front \in Seq(STRING) /\ done \in Seq(STRING) /\ active \in Seq(STRING)
    BY <1>1 DEF Text
  <2> QED BY <2>1, ConcatAssociative
<1>3. front \o done \in Text
  BY <1>1, ConcatProperties DEF Text
<1>4. Ink(front \o done) = Ink(front) \o Ink(done)
  BY <1>1, InkConcat
<1>5. Joined(before) \in Text /\ Joined(units) \in Text
      /\ Joined(before \o units) = Joined(before) \o Joined(units)
  BY JoinedConcat
<1>6. Ink(Joined(before) \o Joined(units)) = Ink(Joined(before)) \o Ink(Joined(units))
  BY <1>5, InkConcat
<1>7. MixesComments(front \o done) \/ Ink(front \o done) = Ink(Joined(before \o units))
  <2>1. CASE MixesComments(front) \/ MixesComments(done)
    BY <1>1, <2>1, MixedParts
  <2>2. CASE Ink(front) = Ink(Joined(before)) /\ Ink(done) = Ink(Joined(units))
    BY <1>4, <1>5, <1>6, <2>2
  <2> QED BY <1>1, <2>1, <2>2
<1> QED BY <1>1, <1>2, <1>3, <1>7 DEF Spells

\* A text is a text.
LEMMA TextsAreText == \A t \in Texts : t \in Text
BY TextsAssumption DEF Text

\* A first cell is a list of one unit.
LEMMA UnitCut ==
  ASSUME NEW t \in Texts, CellComplete(Frame(t))
  PROVE  <<FirstUnit(Frame(t), t)>> \in Seq(Texts)
BY FirstCell

\* A text left alone spells itself.
LEMMA SpellsItself ==
  ASSUME NEW t \in Text
  PROVE  Spells(t, <<>>, t)
<1>1. <<>> \in Text /\ t = <<>> \o t
  BY ConcatEmptySeq, EmptySeq DEF Text
<1>2. Joined(<<>>) = <<>>
  BY JoinedFew
<1> QED BY <1>1, <1>2 DEF Spells

\* The loop ends well.
LEMMA RestGood ==
  ASSUME NEW t \in Texts, Whole(t)
  PROVE  Good(t, Rest(Frame(t), FirstOutcome(t), t))
<1> DEFINE frame == Frame(t)
           outcome == FirstOutcome(t)
           rest == Rest(frame, outcome, t)
<1>1. /\ rest \in Results
      /\ frame.fatal # "none" =>
           rest = Left(t, <<>>, FALSE, {"lexer"},
                       IF frame.fatal \in IncompleteLexErrors THEN "Incomplete" ELSE "Invalid")
      /\ frame.fatal = "none" /\ (~ HasCell(frame) \/ outcome = "empty") =>
           rest = Left(t, t, FALSE, Diagnosed(frame), "waiting")
      /\ TakesLast(frame, outcome) =>
           rest = [units |-> <<FirstUnit(frame, t)>>, active |-> <<>>, tokens |-> <<>>,
                   syntax |-> FALSE, errors |-> {}, state |-> "waiting"]
      /\ frame.fatal = "none" /\ HasCell(frame) /\ outcome = "syntax"
           /\ ~ TakesLast(frame, outcome) =>
           rest = Left(t, t, TRUE, Diagnosed(frame), "Incomplete")
      /\ frame.fatal = "none" /\ HasCell(frame) /\ outcome \notin {"empty", "syntax"} =>
           rest = Left(t, t, FALSE, Diagnosed(frame) \cup {"parser"}, ErrorState(frame, outcome))
  BY RestFacts
<1>2. Unfinished(t) <=> ~ (frame.fatal = "none" /\ (~ HasCell(frame) \/ outcome = "empty"))
  BY CodeAssumption
<1>3. t \in Text
  BY TextsAreText
<1>4. Hopeless(t) <=> \/ frame.fatal # "none" /\ frame.fatal \notin IncompleteLexErrors
                      \/ /\ frame.fatal = "none" /\ HasCell(frame)
                         /\ outcome \notin {"empty", "syntax"}
                         /\ ErrorState(frame, outcome) = "Invalid"
  BY DEF Hopeless
<1>5. ASSUME NEW tokens \in {<<>>, t}, NEW syntax \in BOOLEAN, NEW kinds, NEW class,
             rest = Left(t, tokens, syntax, kinds, class),
             class = "waiting" <=> ~ Unfinished(t),
             class = "Invalid" => kinds # {} /\ Hopeless(t),
             syntax => class = "Incomplete"
      PROVE  Good(t, rest)
  <2> HIDE DEF rest
  <2>1. rest.units = <<>> /\ rest.active = t /\ rest.tokens = tokens /\ rest.syntax = syntax
        /\ rest.errors = kinds /\ rest.state = class
    BY <1>5 DEF Left
  <2>3. Spells(t, rest.units, rest.active)
    BY <1>3, <2>1, SpellsItself
  <2>4. Truthful(rest)
    BY <1>5, <2>1 DEF Truthful
  <2>5. rest \in Results
    BY <1>1
  <2> QED BY <2>3, <2>4, <2>5 DEF Good
<1>6. CASE TakesLast(frame, outcome)
  <2> DEFINE unit == FirstUnit(frame, t)
             behind == AfterFirst(frame, t)
             k == frame.cells[1].end
  <2>1. frame.fatal = "none" /\ CellComplete(frame) /\ ~ HasFollowing(frame)
        /\ ~ frame.diagnosed /\ outcome = "syntax"
    BY <1>6 DEF TakesLast
  <2>2. unit \in Texts /\ behind \in Texts /\ t = unit \o behind /\ k \in 1 .. Len(t)
    BY <2>1, FirstCell
  <2>3. unit \in Text /\ behind \in Text
    BY <2>2, TextsAreText
  <2>4. ASSUME ~ MixesComments(t)
        PROVE  \A p \in 1 .. Len(behind) : behind[p] \in Layout
    <3>1. Len(t) \in Nat /\ k \in 0 .. Len(t) /\ k \in Nat
      BY <2>2, TextsAssumption
    <3>2. \A p \in k + 1 .. Len(t) : t[p] \in Layout
      BY <2>1, <2>4, OnlyCellAssumption
    <3>3. behind = SubSeq(t, k + 1, Len(t))
      BY DEF AfterFirst
    <3> HIDE DEF k, behind
    <3>4. Len(behind) = Len(t) - k /\ \A p \in 1 .. Len(t) - k : behind[p] = t[k + p]
      BY <3>1, <3>3, Cut
    <3>5. \A p \in 1 .. Len(t) - k : k + p \in k + 1 .. Len(t)
      BY <3>1
    <3> QED BY <3>2, <3>4, <3>5
  <2>5. rest = [units |-> <<unit>>, active |-> <<>>, tokens |-> <<>>,
                syntax |-> FALSE, errors |-> {}, state |-> "waiting"]
    BY <1>1, <1>6
  <2> HIDE DEF unit, behind, rest, k
  <2>7. ASSUME ~ MixesComments(t)
        PROVE  Ink(t) = Ink(Joined(<<unit>>))
    <3>1. Ink(behind) = <<>>
      BY <2>3, <2>4, <2>7, InkOfLayout
    <3>2. Ink(t) = Ink(unit) \o <<>> /\ Ink(unit) \in Text
      BY <2>2, <2>3, <3>1, InkConcat
    <3>3. Ink(unit) \o <<>> = Ink(unit)
      BY <3>2, ConcatEmptySeq DEF Text
    <3> QED BY <2>3, <3>2, <3>3, JoinedFew
  <2>8. Spells(t, <<unit>>, <<>>)
    <3>1. t = t \o <<>>
      BY <1>3, ConcatEmptySeq DEF Text
    <3> QED BY <1>3, <2>7, <3>1 DEF Spells
  <2>9. rest.units = <<unit>> /\ rest.active = <<>> /\ rest.tokens = <<>> /\ rest.syntax = FALSE
        /\ rest.state = "waiting"
    BY <2>5
  <2>10. rest \in Results
    BY <1>1 DEF rest
  <2>11. Truthful(rest)
    BY <2>9, NothingUnfinished DEF Truthful
  <2> QED BY <2>8, <2>9, <2>10, <2>11 DEF Good, rest
<1> HIDE DEF frame, outcome, rest
<1>7. CASE frame.fatal # "none"
  <2> DEFINE class == IF frame.fatal \in IncompleteLexErrors THEN "Incomplete" ELSE "Invalid"
  <2>1. rest = Left(t, <<>>, FALSE, {"lexer"}, class)
    BY <1>1, <1>7
  <2>2. class = "waiting" <=> ~ Unfinished(t)
    BY <1>2, <1>7
  <2>3. class = "Invalid" => {"lexer"} # {} /\ Hopeless(t)
    BY <1>4, <1>7
  <2> HIDE DEF class
  <2> QED BY <1>5, <2>1, <2>2, <2>3 DEF rest, frame, outcome
<1>8. CASE frame.fatal = "none" /\ (~ HasCell(frame) \/ outcome = "empty")
  <2> DEFINE kinds == Diagnosed(frame)
  <2>1. rest = Left(t, t, FALSE, kinds, "waiting")
    BY <1>1, <1>8
  <2>2. ~ Unfinished(t)
    BY <1>2, <1>8
  <2> HIDE DEF kinds
  <2>3. Good(t, rest)
    BY <1>5, <2>1, <2>2
  <2> QED BY <2>3 DEF rest, frame, outcome
<1>9. CASE frame.fatal = "none" /\ HasCell(frame) /\ outcome = "syntax"
           /\ ~ TakesLast(frame, outcome)
  <2> DEFINE kinds == Diagnosed(frame)
  <2>1. rest = Left(t, t, TRUE, kinds, "Incomplete")
    BY <1>1, <1>9
  <2>2. Unfinished(t)
    BY <1>2, <1>9
  <2> HIDE DEF kinds
  <2>3. Good(t, rest)
    BY <1>5, <2>1, <2>2
  <2> QED BY <2>3 DEF rest, frame, outcome
<1>10. CASE frame.fatal = "none" /\ HasCell(frame) /\ outcome \notin {"empty", "syntax"}
  <2> DEFINE class == ErrorState(frame, outcome)
             kinds == Diagnosed(frame) \cup {"parser"}
  <2>1. rest = Left(t, t, FALSE, kinds, class)
    BY <1>1, <1>10
  <2>2. Unfinished(t)
    BY <1>2, <1>10
  <2>3. class \in {"Incomplete", "Invalid"}
    BY DEF ErrorState
  <2>4. class = "Invalid" => Hopeless(t)
    BY <1>4, <1>10
  <2>5. kinds # {}
    OBVIOUS
  <2> HIDE DEF class, kinds
  <2>6. class = "waiting" <=> ~ Unfinished(t)
    BY <2>2, <2>3
  <2> QED BY <1>5, <2>1, <2>4, <2>5, <2>6 DEF rest, frame, outcome
<1> QED BY <1>6, <1>7, <1>8, <1>9, <1>10 DEF rest, frame, outcome

\* Refreshing submitted text is good.
LEMMA RefreshGood ==
  ASSUME NEW t \in Texts, Whole(t)
  PROVE  Good(t, RefreshOf[t])
<1> DEFINE m == [u \in Texts |-> Len(u)]
           good == { u \in Texts : Whole(u) => Good(u, RefreshOf[u]) }
<1>1. ASSUME NEW u \in Texts, \A v \in Texts : m[v] < m[u] => v \in good
      PROVE  u \in good
  <2> SUFFICES ASSUME Whole(u)
               PROVE  Good(u, RefreshOf[u])
    OBVIOUS
  <2>1. CASE u \notin Taking
    <3>1. RefreshOf[u] = Rest(Frame(u), FirstOutcome(u), u)
      BY <2>1, RefreshEquation
    <3>2. Good(u, Rest(Frame(u), FirstOutcome(u), u))
      BY RestGood
    <3> QED BY <3>1, <3>2
  <2>2. CASE u \in Taking
    <3> DEFINE frame == Frame(u)
               unit == FirstUnit(frame, u)
               behind == AfterFirst(frame, u)
               r == RefreshOf[behind]
    <3>1. frame.fatal = "none" /\ CellComplete(frame) /\ HasFollowing(frame)
          /\ FirstOutcome(u) = "syntax"
      BY <2>2 DEF Taking, TakesFirst
    <3>2. unit \in Texts /\ behind \in Texts /\ u = unit \o behind
          /\ Len(behind) < Len(u) /\ Whole(behind)
      BY <3>1, FirstCell
    <3>3. <<unit>> \in Seq(Texts)
      BY <3>1, UnitCut
    <3>4. RefreshOf[u] = [r EXCEPT !.units = <<unit>> \o @]
      BY <2>2, RefreshEquation
    <3> HIDE DEF frame, unit, behind
    <3>5. Good(behind, r)
      <4>1. m[behind] < m[u]
        BY <3>2
      <4>2. behind \in good
        BY <1>1, <3>2, <4>1
      <4> QED BY <3>2, <4>2
    <3> HIDE DEF r
    <3>6. r \in Results /\ Spells(behind, r.units, r.active) /\ Truthful(r)
      BY <3>5 DEF Good
    <3>7. r.units \in Seq(Texts) /\ r.active \in Texts
      BY <3>6 DEF Results
    <3> DEFINE units == <<unit>> \o r.units
    <3>9. RefreshOf[u] = [units |-> units, active |-> r.active, tokens |-> r.tokens,
                          syntax |-> r.syntax, errors |-> r.errors, state |-> r.state]
      <4>1. [r EXCEPT !.units = <<unit>> \o @] = [r EXCEPT !.units = units]
        OBVIOUS
      <4> HIDE DEF units
      <4>2. [r EXCEPT !.units = units] =
              [units |-> units, active |-> r.active, tokens |-> r.tokens, syntax |-> r.syntax,
               errors |-> r.errors, state |-> r.state]
        BY <3>6, WithUnits
      <4> QED BY <3>4, <4>1, <4>2
    <3>10. Spells(u, units, r.active)
      <4>1. unit \in Text /\ behind \in Text /\ r.active \in Text
        BY <3>2, <3>7, TextsAreText
      <4>2. r.units \in Seq(Text) /\ <<unit>> \in Seq(Text)
        BY <3>3, <3>7, TextsAssumption, SeqMonotonic DEF Text
      <4>3. Ink(unit) = Ink(Joined(<<unit>>))
        BY <4>1, JoinedFew
      <4>4. Spells(unit \o behind, <<unit>> \o r.units, r.active)
        BY <3>6, <4>1, <4>2, <4>3, SpellsConcat
      <4> QED BY <3>2, <4>4
    <3> HIDE DEF units
    <3>11. Truthful(RefreshOf[u])
      BY <3>6, <3>9 DEF Truthful
    <3>12. RefreshOf[u] \in Results
      BY RefreshEquation
    <3>13. RefreshOf[u].units = units /\ RefreshOf[u].active = r.active
      BY <3>9
    <3> QED BY <3>10, <3>11, <3>12, <3>13 DEF Good
  <2> QED BY <2>1, <2>2
<1>2. m \in [Texts -> Nat]
  BY TextsAssumption
<1>3. Texts \subseteq good
  <2> HIDE DEF m, good
  <2> QED BY <1>1, <1>2, MeasureInduction
<1> QED BY <1>3

\* Some front of the text was refused.
Doomed(text) ==
  \E n \in 0 .. Len(text) : Whole(SubSeq(text, 1, n)) /\ Hopeless(SubSeq(text, 1, n))

\* Behind a hopeless front nothing is taken.
LEMMA Stuck ==
  ASSUME NEW t \in Texts, Whole(t), Doomed(t)
  PROVE  /\ RefreshOf[t].units = <<>> /\ RefreshOf[t].active = t
         /\ \/ RefreshOf[t].state = "Invalid"
            \/ RefreshOf[t].state = "Incomplete" /\ RefreshOf[t].tokens = <<>>
<1> DEFINE frame == Frame(t)
           outcome == FirstOutcome(t)
           rest == Rest(frame, outcome, t)
<1>1. Hopeless(t) \/ frame.fatal \in IncompleteLexErrors
  BY HopelessAssumption DEF Doomed
<1>2. \/ frame.fatal # "none"
      \/ /\ frame.fatal = "none" /\ HasCell(frame) /\ outcome \notin {"empty", "syntax"}
         /\ ErrorState(frame, outcome) = "Invalid"
  BY <1>1 DEF Hopeless, IncompleteLexErrors
<1>3. t \notin Taking
  BY <1>2 DEF Taking, TakesFirst
<1>4. RefreshOf[t] = rest
  BY <1>3, RefreshEquation
<1>5. CASE frame.fatal # "none"
  <2> DEFINE class == IF frame.fatal \in IncompleteLexErrors THEN "Incomplete" ELSE "Invalid"
  <2>1. rest = Left(t, <<>>, FALSE, {"lexer"}, class)
    BY <1>5, RestFacts
  <2>2. rest.units = <<>> /\ rest.active = t /\ rest.tokens = <<>> /\ rest.state = class
    BY <2>1 DEF Left
  <2>3. class \in {"Incomplete", "Invalid"}
    OBVIOUS
  <2> HIDE DEF rest, class
  <2> QED BY <1>4, <2>2, <2>3
<1>6. CASE /\ frame.fatal = "none" /\ HasCell(frame) /\ outcome \notin {"empty", "syntax"}
           /\ ErrorState(frame, outcome) = "Invalid"
  <2>1. rest = Left(t, t, FALSE, Diagnosed(frame) \cup {"parser"}, "Invalid")
    BY <1>6, RestFacts
  <2>2. rest.units = <<>> /\ rest.active = t /\ rest.state = "Invalid"
    BY <2>1 DEF Left
  <2> HIDE DEF rest
  <2> QED BY <1>4, <2>2
<1> QED BY <1>2, <1>5, <1>6

-----------------------------------------------------------------------------
(***************************************************************************)
(* The inductive invariant: the buffer holds what the units do not spell,  *)
(* and a buffer once refused keeps a front that cannot be repaired.        *)
(***************************************************************************)
Refusal == refused => (state = "Invalid" \/ Unlexable) /\ Doomed(active_source)

IInv ==
  /\ TypeOK
  /\ Whole(active_source)
  /\ Spells(submitted, Units, active_source)
  /\ StateTruthful
  /\ Refusal

\* The invariant holds at the start.
LEMMA InitIInv == Init => IInv
<1> SUFFICES ASSUME Init
             PROVE  IInv
  OBVIOUS
<1> USE DEF Init
<1>1. <<>> \in Texts /\ <<>> \in Seq(Texts) /\ <<>> \in Text
  BY TextsAssumption, EmptySeq DEF Text
<1>2. TypeOK
  BY <1>1 DEF TypeOK
<1>3. Whole(active_source) /\ ~ Unfinished(active_source)
  BY NothingUnfinished
<1>4. Units = <<>>
  <2>1. <<>> \o <<>> = <<>>
    BY <1>1, ConcatEmptySeq
  <2> QED BY <2>1 DEF Units
<1>5. Spells(submitted, Units, active_source)
  <2>1. Spells(<<>>, <<>>, <<>>)
    BY <1>1, SpellsItself
  <2> QED BY <1>4, <2>1
<1>7. StateTruthful
  BY <1>3 DEF StateTruthful
<1>8. Refusal
  BY DEF Refusal
<1> QED BY <1>2, <1>3, <1>5, <1>7, <1>8 DEF IInv

\* What a submission adds to the buffer is submitted text.
LEMMA SubmittedText ==
  ASSUME NEW line \in Lines, NEW active \in Text, NEW t \in Text,
         t = active \o Submission(line)
  PROVE  Submission(line) \in Text /\ Whole(t) /\ t # <<>>
<1> DEFINE added == Submission(line)
           S == STRING \cup {"NL"}
<1>0. line \in Seq(S) /\ active \in Seq(S) /\ t \in Seq(STRING)
  <2>1. line \in Seq(STRING) /\ active \in Seq(STRING)
    BY LinesAssumption DEF Text
  <2> QED BY <2>1, SeqMonotonic DEF Text
<1>1. added \in Seq(S) /\ added # <<>> /\ added[Len(added)] = "NL"
  <2>1. CASE EndsWithNewline(line)
    BY <1>0, <2>1 DEF Submission, EndsWithNewline
  <2>2. CASE ~ EndsWithNewline(line)
    <3>1. "NL" \in S
      OBVIOUS
    <3> HIDE DEF S
    <3>2. Append(line, "NL") \in Seq(S) /\ Append(line, "NL") # <<>>
          /\ Len(Append(line, "NL")) = Len(line) + 1 /\ Append(line, "NL")[Len(line) + 1] = "NL"
      BY <1>0, <3>1, AppendProperties
    <3>3. added = Append(line, "NL")
      BY <2>2 DEF Submission
    <3> HIDE DEF added
    <3> QED BY <3>2, <3>3
  <2> QED BY <2>1, <2>2
<1> HIDE DEF added, S
<1>3. t = active \o added
  BY DEF added
<1>4. /\ Len(active \o added) = Len(active) + Len(added)
      /\ \A i \in 1 .. Len(active) + Len(added) :
           (active \o added)[i] = IF i <= Len(active) THEN active[i] ELSE added[i - Len(active)]
  BY <1>0, <1>1, ConcatProperties
<1> DEFINE a == Len(active)
           k == Len(added)
           q == a + k
<1>5. a \in Nat /\ k \in Nat \ {0}
  BY <1>0, <1>1, EmptySeq
<1>6. Len(t) = q /\ \A i \in 1 .. q : t[i] = IF i <= a THEN active[i] ELSE added[i - a]
  BY <1>3, <1>4
<1>7. added[k] = "NL"
  BY <1>1
<1> HIDE DEF a, k
<1>8. q \in 1 .. q /\ ~ (q <= a) /\ q - a = k /\ q # 0
  BY <1>5
<1> HIDE DEF q
<1>9. t[q] = "NL"
  BY <1>6, <1>7, <1>8
<1>10. t # <<>>
  BY <1>6, <1>8, EmptySeq
<1>11. Submission(line) \in Text
  <2>1. t[q] \in STRING
    BY <1>0, <1>6, <1>8, ElementOfSeq
  <2>2. S = STRING
    BY <1>9, <2>1 DEF S
  <2> QED BY <1>1, <2>2 DEF added, Text
<1>12. Whole(t)
  BY <1>6, <1>9, <1>10 DEF Whole, EndsWithNewline
<1> QED BY <1>10, <1>11, <1>12

\* The units and the queue.
LEMMA UnitsFacts ==
  ASSUME TypeOK
  PROVE  /\ Units \in Seq(Texts) /\ Units \in Seq(Text)
         /\ submitted \in Text /\ active_source \in Text
<1>1. taken \in Seq(Texts) /\ completed \in Seq(Texts)
  BY DEF TypeOK
<1>2. Units \in Seq(Texts)
  BY <1>1, ConcatProperties DEF Units
<1>3. Texts \subseteq Text
  BY TextsAreText
<1>4. Units \in Seq(Text)
  BY <1>2, <1>3, SeqMonotonic
<1> QED BY <1>2, <1>3, <1>4 DEF TypeOK

\* A pushed line is refreshed into the state.
LEMMA PushLineIInv ==
  ASSUME IInv, NEW line \in Lines,
         active_source \o Submission(line) \in Texts,
         submitted \o Submission(line) \in Texts,
         Refresh(RefreshOf[active_source \o Submission(line)]),
         submitted' = submitted \o Submission(line),
         refused' = (refused \/ state' = "Invalid"),
         UNCHANGED taken
  PROVE  /\ IInv'
         /\ refused => (state' = "Invalid" \/ Unlexable') /\ completed' = completed
<1> DEFINE added == Submission(line)
           t == active_source \o added
           r == RefreshOf[t]
<1>1. TypeOK /\ Whole(active_source) /\ Spells(submitted, Units, active_source)
      /\ StateTruthful /\ Refusal
  BY DEF IInv
<1>2. /\ Units \in Seq(Texts) /\ Units \in Seq(Text)
      /\ submitted \in Text /\ active_source \in Text
  BY <1>1, UnitsFacts
<1>3. t \in Texts /\ t \in Text
  BY TextsAreText
<1>4. added \in Text /\ Whole(t) /\ t # <<>>
  BY <1>2, <1>3, SubmittedText
<1>5. Good(t, r)
  BY <1>3, <1>4, RefreshGood
<1>6. /\ active_source' = r.active /\ active_tokens' = r.tokens /\ active_syntax' = r.syntax
      /\ errors' = r.errors /\ completed' = completed \o r.units
      /\ state' = IF r.state = "waiting" THEN Waiting(completed \o r.units) ELSE r.state
  BY DEF Refresh, Settle
<1>7. submitted' = submitted \o added /\ taken' = taken /\ submitted' \in Texts
  OBVIOUS
<1>8. refused' = (refused \/ state' = "Invalid")
  OBVIOUS
<1>9. ASSUME NEW n \in 0 .. Len(active_source),
             Whole(SubSeq(active_source, 1, n)), Hopeless(SubSeq(active_source, 1, n))
      PROVE  /\ r.units = <<>> /\ r.active = t
             /\ r.state = "Invalid" \/ (r.state = "Incomplete" /\ r.tokens = <<>>)
             /\ n \in 0 .. Len(t) /\ SubSeq(t, 1, n) = SubSeq(active_source, 1, n)
  <2>1. active_source \in Texts /\ active_source \in Seq(STRING) /\ added \in Seq(STRING)
    BY <1>1, <1>2, <1>4 DEF TypeOK, Text
  <2> HIDE DEF added
  <2>2. Len(t) = Len(active_source) + Len(added) /\ Len(active_source) \in Nat /\ Len(added) \in Nat
        /\ \A i \in 1 .. Len(active_source) + Len(added) :
             t[i] = IF i <= Len(active_source) THEN active_source[i]
                                               ELSE added[i - Len(active_source)]
    BY <2>1, ConcatProperties
  <2> HIDE DEF t
  <2>3. n \in 0 .. Len(t) /\ \A i \in 1 .. n : t[i] = active_source[i]
    BY <2>2
  <2>4. /\ Len(SubSeq(t, 1, n)) = n /\ SubSeq(t, 1, n) \in Texts
        /\ \A i \in 1 .. n : SubSeq(t, 1, n)[i] = t[i]
    BY <1>3, <2>3, Cut
  <2>5. /\ Len(SubSeq(active_source, 1, n)) = n /\ SubSeq(active_source, 1, n) \in Texts
        /\ \A i \in 1 .. n : SubSeq(active_source, 1, n)[i] = active_source[i]
    BY <2>1, Cut
  <2> DEFINE new == SubSeq(t, 1, n)
             old == SubSeq(active_source, 1, n)
  <2>6. new \in Text /\ old \in Text
    BY <2>4, <2>5, TextsAreText
  <2>7. Len(new) = Len(old) /\ \A i \in 1 .. Len(new) : new[i] = old[i]
    BY <2>3, <2>4, <2>5
  <2> HIDE DEF new, old
  <2>8. new = old
    BY <2>6, <2>7, SameText
  <2>9. Whole(new) /\ Hopeless(new)
    BY <1>9, <2>8 DEF old
  <2>10. /\ r.units = <<>> /\ r.active = t
         /\ r.state = "Invalid" \/ (r.state = "Incomplete" /\ r.tokens = <<>>)
    <3>1. Doomed(t)
      BY <2>3, <2>9 DEF new, Doomed
    <3>2. Whole(t) /\ t \in Texts
      BY <1>3, <1>4
    <3> QED BY <3>1, <3>2, Stuck
  <2> QED BY <2>3, <2>8, <2>10 DEF new, old
<1> HIDE DEF r, t, added
<1>10. r \in Results /\ Spells(t, r.units, r.active) /\ Truthful(r)
  BY <1>5 DEF Good
<1>11. /\ r.units \in Seq(Texts) /\ r.active \in Texts /\ r.tokens \in Texts
       /\ r.syntax \in BOOLEAN /\ r.errors \in SUBSET {"lexer", "parser"}
       /\ r.state \in {"waiting", "Incomplete", "Invalid"}
  BY <1>10 DEF Results
<1>12. completed \in Seq(Texts) /\ taken \in Seq(Texts)
  BY <1>1 DEF TypeOK
<1>13. completed' \in Seq(Texts)
  BY <1>6, <1>11, <1>12, ConcatProperties
<1>14. TypeOK'
  <2>1. state' \in {"Empty", "Complete", "Incomplete", "Invalid"}
    BY <1>6, <1>11 DEF Waiting
  <2>2. active_tokens' \in {<<>>, active_source'}
    BY <1>6, <1>10 DEF Truthful
  <2>3. refused' \in BOOLEAN
    BY <1>8
  <2>4. taken' \in Seq(Texts)
    BY <1>7, <1>12
  <2>5. active_source' \in Texts /\ active_syntax' \in BOOLEAN /\ errors' \subseteq {"lexer", "parser"}
    BY <1>6, <1>11
  <2> QED BY <1>7, <1>13, <2>1, <2>2, <2>3, <2>4, <2>5 DEF TypeOK
<1>15. Whole(active_source)'
  <2>1. Whole(active_source')
    BY <1>6, <1>10 DEF Truthful
  <2> QED BY <2>1 DEF Whole, EndsWithNewline
<1>16. Spells(submitted, Units, active_source)'
  <2>1. PICK done \in Text :
          /\ submitted = done \o active_source
          /\ MixesComments(done) \/ Ink(done) = Ink(Joined(Units))
    BY <1>1 DEF Spells
  <2>2. submitted' = done \o t
    <3>1. done \in Seq(STRING) /\ active_source \in Seq(STRING) /\ added \in Seq(STRING)
      BY <1>2, <1>4, <2>1 DEF Text
    <3>2. (done \o active_source) \o added = done \o (active_source \o added)
      BY <3>1, ConcatAssociative
    <3> QED BY <1>7, <2>1, <3>2 DEF t
  <2>3. Units' = Units \o r.units
    <3> DEFINE cut == r.units
    <3>0. cut \in Seq(Texts)
      BY <1>11
    <3> HIDE DEF cut
    <3>1. (taken \o completed) \o cut = taken \o (completed \o cut)
      BY <1>12, <3>0, ConcatAssociative
    <3> QED BY <1>6, <1>7, <3>1 DEF Units, cut
  <2>4. r.units \in Seq(Text) /\ r.active \in Text
    BY <1>11, TextsAreText, SeqMonotonic
  <2>5. Spells(done \o t, Units \o r.units, r.active)
    BY <1>2, <1>3, <1>10, <2>1, <2>4, SpellsConcat
  <2>6. Spells(submitted', Units', active_source')
    BY <1>6, <2>2, <2>3, <2>5
  <2> QED BY <2>6 DEF Spells
<1>18. StateTruthful'
  <2>1. state' \in {"Incomplete", "Invalid"} <=> Unfinished(active_source')
    BY <1>6, <1>10, <1>11 DEF Truthful, Waiting
  <2>2. /\ state' = "Empty" => completed' = <<>>
        /\ state' = "Complete" => completed' # <<>>
    BY <1>6, <1>11 DEF Waiting
  <2>3. state' = "Invalid" => errors' # {}
    BY <1>6, <1>10 DEF Truthful, Waiting
  <2>4. active_syntax' => state' = "Incomplete"
    BY <1>6, <1>10 DEF Truthful, Waiting
  <2>5. Unfinished(active_source') <=> Unfinished(active_source)'
    BY DEF Unfinished, Written, Within
  <2> QED BY <2>1, <2>2, <2>3, <2>4, <2>5 DEF StateTruthful
<1>19. refused => (state' = "Invalid" \/ Unlexable') /\ completed' = completed
  <2> SUFFICES ASSUME refused
               PROVE  (state' = "Invalid" \/ Unlexable') /\ completed' = completed
    OBVIOUS
  <2>1. PICK n \in 0 .. Len(active_source) :
          Whole(SubSeq(active_source, 1, n)) /\ Hopeless(SubSeq(active_source, 1, n))
    BY <1>1 DEF Refusal, Doomed
  <2>2. r.units = <<>> /\ r.active = t
        /\ (r.state = "Invalid" \/ (r.state = "Incomplete" /\ r.tokens = <<>>))
    BY <1>9, <2>1
  <2>3. completed' = completed
    BY <1>6, <1>12, <2>2, ConcatEmptySeq
  <2>4. state' = "Invalid" \/ Unlexable'
    BY <1>4, <1>6, <2>2 DEF Unlexable
  <2> QED BY <2>3, <2>4
<1>20. Refusal'
  <2>0. Doomed(active_source') => Doomed(active_source)'
    BY DEF Doomed, Whole, EndsWithNewline, Hopeless, ErrorState, HasCell, CellComplete,
           HasFollowing, IncompleteLexErrors
  <2>1. ASSUME refused
        PROVE  Doomed(active_source')
    <3>1. PICK n \in 0 .. Len(active_source) :
            Whole(SubSeq(active_source, 1, n)) /\ Hopeless(SubSeq(active_source, 1, n))
      BY <1>1, <2>1 DEF Refusal, Doomed
    <3>2. r.active = t /\ n \in 0 .. Len(t) /\ SubSeq(t, 1, n) = SubSeq(active_source, 1, n)
      BY <1>9, <3>1
    <3>3. Doomed(t)
      BY <3>1, <3>2 DEF Doomed
    <3> QED BY <1>6, <3>2, <3>3
  <2>2. ASSUME state' = "Invalid"
        PROVE  Doomed(active_source')
    <3>1. r.state = "Invalid"
      BY <1>6, <1>11, <2>2 DEF Waiting
    <3>2. Hopeless(r.active) /\ Whole(r.active)
      BY <1>10, <3>1 DEF Truthful
    <3>3. r.active \in Seq(STRING) /\ Len(r.active) \in Nat
      BY <1>11, TextsAssumption
    <3>4. SubSeq(r.active, 1, Len(r.active)) = r.active
      BY <3>3, SubSeqFull
    <3>5. Len(r.active) \in 0 .. Len(r.active)
      BY <3>3
    <3>6. Doomed(r.active)
      BY <3>2, <3>4, <3>5 DEF Doomed
    <3> QED BY <1>6, <3>6
  <2>3. refused' => Doomed(active_source)'
    BY <1>8, <2>0, <2>1, <2>2
  <2>4. refused' => (state' = "Invalid" \/ Unlexable')
    BY <1>8, <1>19
  <2> QED BY <2>3, <2>4 DEF Refusal
<1> QED BY <1>14, <1>15, <1>16, <1>18, <1>19, <1>20 DEF IInv

\* The queue handed out.
LEMMA TakeCompletedIInv ==
  ASSUME IInv, TakeCompleted
  PROVE  IInv' /\ (refused => (state' = "Invalid" \/ Unlexable'))
<1>1. TypeOK /\ Whole(active_source) /\ Spells(submitted, Units, active_source)
      /\ StateTruthful /\ Refusal
  BY DEF IInv
<1>2. /\ completed' = <<>> /\ taken' = taken \o completed
      /\ state' = IF state = "Complete" THEN "Empty" ELSE state
      /\ active_source' = active_source /\ active_tokens' = active_tokens
      /\ active_syntax' = active_syntax /\ errors' = errors
      /\ submitted' = submitted /\ refused' = refused
  BY DEF TakeCompleted
<1>3. taken \o completed \in Seq(Texts) /\ <<>> \in Seq(Texts)
  BY <1>1, ConcatProperties, EmptySeq DEF TypeOK
<1>4. TypeOK'
  BY <1>1, <1>2, <1>3 DEF TypeOK
<1>5. Units' = Units
  <2>1. (taken \o completed) \o <<>> = taken \o completed
    BY <1>3, ConcatEmptySeq
  <2> QED BY <1>2, <2>1 DEF Units
<1>6. Whole(active_source)'
  BY <1>1, <1>2 DEF Whole, EndsWithNewline
<1>7. Spells(submitted, Units, active_source)'
  <2>1. Spells(submitted', Units', active_source')
    BY <1>1, <1>2, <1>5
  <2> QED BY <2>1 DEF Spells
<1>9. StateTruthful'
  <2>1. Unfinished(active_source)' <=> Unfinished(active_source)
    BY <1>2 DEF Unfinished, Written, Within
  <2> QED BY <1>1, <1>2, <2>1 DEF StateTruthful
<1>10. Doomed(active_source) => Doomed(active_source)'
  BY <1>2 DEF Doomed, Whole, EndsWithNewline, Hopeless, ErrorState, HasCell, CellComplete,
         HasFollowing, IncompleteLexErrors
<1>11. refused => (state' = "Invalid" \/ Unlexable')
  BY <1>1, <1>2 DEF Refusal, Unlexable
<1>12. Refusal'
  BY <1>1, <1>2, <1>10, <1>11 DEF Refusal
<1> QED BY <1>4, <1>6, <1>7, <1>9, <1>11, <1>12 DEF IInv

\* The unfinished cell dropped.
LEMMA ResetActiveIInv ==
  ASSUME IInv, ResetActive
  PROVE  IInv'
<1>1. TypeOK /\ Spells(submitted, Units, active_source)
  BY DEF IInv
<1>2. /\ active_source' = <<>> /\ active_tokens' = <<>> /\ active_syntax' = FALSE
      /\ errors' = {} /\ state' = Waiting(completed) /\ completed' = completed
      /\ submitted' = SubSeq(submitted, 1, Len(submitted) - Len(active_source))
      /\ taken' = taken /\ refused' = FALSE
  BY DEF ResetActive
<1>3. PICK done \in Text :
        /\ submitted = done \o active_source
        /\ MixesComments(done) \/ Ink(done) = Ink(Joined(Units))
  BY <1>1 DEF Spells
<1>4. active_source \in Text /\ submitted \in Text /\ submitted \in Texts
  BY <1>1, UnitsFacts DEF TypeOK
<1>5. submitted' = done /\ submitted' \in Texts
  <2> DEFINE n == Len(done)
             a == Len(active_source)
             front == SubSeq(submitted, 1, n)
  <2>1. n \in Nat /\ a \in Nat
    BY <1>4 DEF Text
  <2>2. /\ Len(submitted) = n + a
        /\ \A i \in 1 .. n + a : submitted[i] = IF i <= n THEN done[i] ELSE active_source[i - n]
    BY <1>3, <1>4, ConcatProperties DEF Text
  <2>3. n \in 0 .. Len(submitted)
    BY <2>1, <2>2
  <2>4. front \in Texts /\ Len(front) = n /\ \A i \in 1 .. n : front[i] = submitted[i]
    BY <1>4, <2>3, Cut
  <2>5. front \in Text
    BY <2>4, TextsAreText
  <2> HIDE DEF front
  <2>6. \A i \in 1 .. Len(front) : front[i] = done[i]
    BY <2>1, <2>2, <2>4
  <2>7. front = done
    BY <2>4, <2>5, <2>6, SameText
  <2>8. Len(submitted) - Len(active_source) = n
    BY <2>1, <2>2
  <2> QED BY <1>2, <2>4, <2>7, <2>8 DEF front
<1>6. TypeOK'
  BY <1>1, <1>2, <1>5, TextsAssumption DEF TypeOK, Waiting
<1>7. Whole(active_source)'
  BY <1>2 DEF Whole
<1>8. Spells(submitted, Units, active_source)'
  <2>1. done = done \o <<>>
    BY ConcatEmptySeq DEF Text
  <2>2. Units' = Units
    BY <1>2 DEF Units
  <2>3. Spells(submitted', Units', active_source')
    BY <1>2, <1>3, <1>5, <2>1, <2>2 DEF Spells
  <2> QED BY <2>3 DEF Spells
<1>10. StateTruthful'
  <2>1. ~ Unfinished(active_source')
    BY <1>2, NothingUnfinished
  <2>2. ~ Unfinished(active_source)'
    BY <2>1 DEF Unfinished, Written, Within
  <2> QED BY <1>2, <2>2 DEF StateTruthful, Waiting
<1>11. Refusal'
  BY <1>2 DEF Refusal
<1> QED BY <1>6, <1>7, <1>8, <1>10, <1>11 DEF IInv

\* Nothing changed.
LEMMA StutterIInv == IInv /\ UNCHANGED vars => IInv'
<1> SUFFICES ASSUME IInv, UNCHANGED vars
             PROVE  IInv'
  OBVIOUS
<1>1. /\ active_source' = active_source /\ active_tokens' = active_tokens
      /\ active_syntax' = active_syntax /\ errors' = errors /\ completed' = completed
      /\ state' = state /\ submitted' = submitted /\ refused' = refused /\ taken' = taken
  BY DEF vars
<1>2. TypeOK'
  BY <1>1 DEF IInv, TypeOK
<1>3. Whole(active_source)'
  BY <1>1 DEF IInv, Whole, EndsWithNewline
<1>4. Spells(submitted, Units, active_source)'
  <2>1. Spells(submitted', Units', active_source')
    BY <1>1 DEF IInv, Units
  <2> QED BY <2>1 DEF Spells
<1>5. StateTruthful'
  <2>1. Unfinished(active_source)' <=> Unfinished(active_source)
    BY <1>1 DEF Unfinished, Written, Within
  <2> QED BY <1>1, <2>1 DEF IInv, StateTruthful
<1>6. Refusal'
  <2>1. Doomed(active_source) => Doomed(active_source)'
    BY <1>1 DEF Doomed, Whole, EndsWithNewline, Hopeless, ErrorState, HasCell, CellComplete,
           HasFollowing, IncompleteLexErrors
  <2> QED BY <1>1, <2>1 DEF IInv, Refusal, Unlexable
<1> QED BY <1>2, <1>3, <1>4, <1>5, <1>6 DEF IInv

\* Every step keeps the invariant.
LEMMA NextIInv == IInv /\ [Next]_vars => IInv'
<1> SUFFICES ASSUME IInv, [Next]_vars
             PROVE  IInv'
  OBVIOUS
<1>1. CASE PushLine
  BY <1>1, PushLineIInv DEF PushLine
<1>2. CASE TakeCompleted
  BY <1>2, TakeCompletedIInv
<1>3. CASE ResetActive
  BY <1>3, ResetActiveIInv
<1>4. CASE UNCHANGED vars
  BY <1>4, StutterIInv
<1> QED BY <1>1, <1>2, <1>3, <1>4 DEF Next

\* It holds of every behaviour.
LEMMA CellInvariant == Spec => []IInv
<1> QED BY InitIInv, NextIInv, PTL DEF Spec

-----------------------------------------------------------------------------
\* push_line, take_completed and reset_active keep the fields of the parser of
\* their kinds; the tokens retained are none or those of the active source.
THEOREM CellTyped == Spec => []TypeOK
<1>1. IInv => TypeOK
  BY DEF IInv
<1> QED BY <1>1, CellInvariant, PTL

\* Cutting units out of the buffer loses no token and no comment of submitted
\* text that does not mix line and block comments, whatever is pushed, taken
\* and reset and however the lines are cut.
THEOREM CellsLoseNothing == Spec => []NothingLost
<1>1. IInv => NothingLost
  <2> SUFFICES ASSUME IInv, ~ MixesComments(submitted)
               PROVE  Ink(submitted) = Ink(Joined(Units) \o active_source)
    BY DEF NothingLost
  <2>1. TypeOK /\ Spells(submitted, Units, active_source)
    BY DEF IInv
  <2>2. PICK done \in Text :
          /\ submitted = done \o active_source
          /\ MixesComments(done) \/ Ink(done) = Ink(Joined(Units))
    BY <2>1 DEF Spells
  <2>3. active_source \in Text /\ Units \in Seq(Text)
    BY <2>1, UnitsFacts
  <2>4. Joined(Units) \in Text
    BY <2>3, JoinedConcat
  <2>5. Ink(submitted) = Ink(done) \o Ink(active_source)
    BY <2>2, <2>3, InkConcat
  <2>6. Ink(Joined(Units) \o active_source) = Ink(Joined(Units)) \o Ink(active_source)
    BY <2>3, <2>4, InkConcat
  <2>7. ~ MixesComments(done)
    BY <2>2, <2>3, MixedParts
  <2> QED BY <2>2, <2>5, <2>6, <2>7
<1> QED BY <1>1, CellInvariant, PTL

\* The state a shell prompts by says what the buffer holds and why.
THEOREM StateSaysWhy == Spec => []StateTruthful
<1>1. IInv => StateTruthful
  BY DEF IInv
<1> QED BY <1>1, CellInvariant, PTL

\* Once Invalid is reported no unit completes before reset_active, and the
\* state stays Invalid as long as the text can be lexed.
THEOREM RefusedStaysRefused == Spec => InvalidIsFinal
<1>1. IInv /\ [Next]_vars =>
        [refused => \/ ResetActive
                    \/ /\ state' = "Invalid" \/ Unlexable'
                       /\ Len(completed') <= Len(completed)]_vars
  <2> SUFFICES ASSUME IInv, Next, refused, ~ ResetActive
               PROVE  (state' = "Invalid" \/ Unlexable') /\ Len(completed') <= Len(completed)
    OBVIOUS
  <2>1. completed \in Seq(Texts) /\ Len(completed) \in Nat
    BY DEF IInv, TypeOK
  <2>2. CASE PushLine
    <3>1. (state' = "Invalid" \/ Unlexable') /\ completed' = completed
      BY <2>2, PushLineIInv DEF PushLine
    <3> QED BY <2>1, <3>1
  <2>3. CASE TakeCompleted
    <3>1. state' = "Invalid" \/ Unlexable'
      BY <2>3, TakeCompletedIInv
    <3>2. completed' = <<>> /\ Len(<<>>) = 0
      BY <2>3 DEF TakeCompleted
    <3>3. Len(completed') <= Len(completed)
      BY <2>1, <3>2
    <3> QED BY <3>1, <3>3
  <2> QED BY <2>2, <2>3 DEF Next
<1> QED BY <1>1, CellInvariant, PTL DEF Spec, InvalidIsFinal

=============================================================================
