---------------------------- MODULE TextTheorems ----------------------------
(***************************************************************************)
(* Facts the proofs about texts rest on: what slicing, applying an edit    *)
(* and shifting an offset do to texts and positions of any length, and     *)
(* induction and recursion over a measure.                                 *)
(*                                                                         *)
(* Induction is stated about sets and not about predicates: to prove P of  *)
(* every member of D, take the subset of D of which P holds.               *)
(***************************************************************************)
EXTENDS TextEdit, SequenceTheorems, WellFoundedInduction, TLAPS

-----------------------------------------------------------------------------
\* A non-empty set of numbers has a least member.
LEMMA LeastMember ==
  ASSUME NEW S, S \subseteq Nat, S # {}
  PROVE  \E i \in S : \A j \in S : i <= j
<1>1. PICK i \in S : \A j \in S : <<j, i>> \notin OpToRel(<, Nat)
  BY NatLessThanWellFounded, WFMin
<1>2. \A j \in S : ~ (j < i)
  BY <1>1 DEF OpToRel
<1>3. \A j \in S : i <= j
  <2> TAKE j \in S
  <2>1. i \in Nat /\ j \in Nat /\ ~ (j < i)
    BY <1>2
  <2> QED BY <2>1
<1> QED BY <1>3

\* A bounded one has a greatest.
LEMMA GreatestMember ==
  ASSUME NEW S, S \subseteq Nat, S # {}, NEW n \in Nat, \A i \in S : i <= n
  PROVE  \E i \in S : \A j \in S : j <= i
<1> DEFINE gaps == { n - i : i \in S }
<1>1. gaps \subseteq Nat /\ gaps # {}
  <2>1. \A i \in S : n - i \in Nat
    <3> TAKE i \in S
    <3>1. i \in Nat /\ i <= n
      OBVIOUS
    <3> QED BY <3>1
  <2> QED BY <2>1
<1>2. PICK gap \in gaps : \A other \in gaps : gap <= other
  BY <1>1, LeastMember
<1>3. PICK i \in S : gap = n - i
  OBVIOUS
<1>4. \A j \in S : j <= i
  <2> TAKE j \in S
  <2>1. n - j \in gaps
    OBVIOUS
  <2>2. n - i <= n - j
    BY <1>2, <1>3, <2>1
  <2>3. i \in Nat /\ j \in Nat
    OBVIOUS
  <2> QED BY <2>2, <2>3
<1> QED BY <1>4

\* Induction over a measure: G holds everything whose smaller ones it holds.
LEMMA MeasureInduction ==
  ASSUME NEW D, NEW m \in [D -> Nat], NEW G,
         \A t \in D : (\A u \in D : m[u] < m[t] => u \in G) => t \in G
  PROVE  D \subseteq G
<1> SUFFICES ASSUME D \ G # {}
             PROVE  FALSE
  OBVIOUS
<1> DEFINE failing == { m[t] : t \in D \ G }
<1>1. failing \subseteq Nat /\ failing # {}
  OBVIOUS
<1>2. PICK k \in failing : \A other \in failing : k <= other
  BY <1>1, LeastMember
<1>3. PICK t \in D \ G : k = m[t]
  OBVIOUS
<1>4. \A u \in D : m[u] < m[t] => u \in G
  <2> SUFFICES ASSUME NEW u \in D, m[u] < m[t], u \notin G
               PROVE  FALSE
    OBVIOUS
  <2>1. m[u] \in failing
    OBVIOUS
  <2>2. m[t] <= m[u]
    BY <1>2, <1>3, <2>1
  <2>3. m[u] \in Nat /\ m[t] \in Nat
    OBVIOUS
  <2> QED BY <2>2, <2>3
<1> QED BY <1>3, <1>4

\* A recursion on D with values in S that calls itself at most once, on an
\* argument of a smaller measure.
Descends(D, S, m, stop, base, next, step) ==
  /\ m \in [D -> Nat]
  /\ stop \in SUBSET D
  /\ base \in [D -> S]
  /\ next \in [D -> D]
  /\ step \in [D \X S -> S]
  /\ \A t \in D \ stop : m[next[t]] < m[t]

\* Such a recursion is defined by its equation.
LEMMA RecursionByMeasure ==
  ASSUME NEW D, NEW S, NEW m, NEW stop, NEW base, NEW next, NEW step,
         Descends(D, S, m, stop, base, next, step)
  PROVE  \E f \in [D -> S] : \A t \in D :
           f[t] = IF t \in stop THEN base[t] ELSE step[<<t, f[next[t]]>>]
<1>0. /\ m \in [D -> Nat]
      /\ stop \in SUBSET D
      /\ base \in [D -> S]
      /\ next \in [D -> D]
      /\ step \in [D \X S -> S]
      /\ \A t \in D \ stop : m[next[t]] < m[t]
  BY DEF Descends
<1> USE <1>0
<1> DEFINE Solves(f, t) == f[t] = IF t \in stop THEN base[t] ELSE step[<<t, f[next[t]]>>]
           below(n) == { t \in D : m[t] < n }
           solved == { n \in Nat : \E f \in [D -> S] : \A t \in below(n) : Solves(f, t) }
           agreed == { t \in D : \A n \in Nat : \A f, g \in [D -> S] :
                         m[t] < n /\ (\A u \in below(n) : Solves(f, u) /\ Solves(g, u))
                           => f[t] = g[t] }
<1>1. D \subseteq agreed
  <2>1. ASSUME NEW t \in D, \A u \in D : m[u] < m[t] => u \in agreed
        PROVE  t \in agreed
    <3> SUFFICES ASSUME NEW n \in Nat, NEW f \in [D -> S], NEW g \in [D -> S],
                        m[t] < n, \A u \in below(n) : Solves(f, u) /\ Solves(g, u)
                 PROVE  f[t] = g[t]
      OBVIOUS
    <3>1. Solves(f, t) /\ Solves(g, t)
      OBVIOUS
    <3>2. CASE t \in stop
      BY <3>1, <3>2
    <3>3. CASE t \notin stop
      <4>1. next[t] \in D /\ m[next[t]] < m[t]
        BY <3>3
      <4>2. next[t] \in agreed
        BY <2>1, <4>1
      <4>3. m[next[t]] < n
        <5>1. m[next[t]] \in Nat /\ m[t] \in Nat
          BY <4>1
        <5> QED BY <4>1, <5>1
      <4>4. \A u \in below(n) : Solves(f, u) /\ Solves(g, u)
        OBVIOUS
      <4>5. f[next[t]] = g[next[t]]
        <5> HIDE DEF Solves, below
        <5> QED BY <4>2, <4>3, <4>4
      <4> QED BY <3>1, <3>3, <4>5
    <3> QED BY <3>2, <3>3
  <2> HIDE DEF agreed
  <2> QED BY <2>1, MeasureInduction
<1>2. \A n \in Nat : n \in solved
  <2> DEFINE id == [n \in Nat |-> n]
  <2>1. ASSUME NEW n \in Nat, \A k \in Nat : id[k] < id[n] => k \in solved
        PROVE  n \in solved
    <3>1. CASE n = 0
      <4>1. below(n) = {}
        BY <3>1
      <4> QED BY <4>1
    <3>2. CASE n # 0
      <4>1. n - 1 \in Nat /\ n - 1 < n
        BY <3>2
      <4>2. n - 1 \in solved
        BY <2>1, <4>1
      <4>3. PICK f \in [D -> S] : \A t \in below(n - 1) : Solves(f, t)
        BY <4>2
      <4> DEFINE new == [t \in D |-> IF t \in stop THEN base[t] ELSE step[<<t, f[next[t]]>>]]
      <4>4. new \in [D -> S]
        OBVIOUS
      <4>5. \A t \in below(n) : Solves(new, t)
        <5> SUFFICES ASSUME NEW t \in below(n), t \notin stop
                     PROVE  new[t] = step[<<t, new[next[t]]>>]
          OBVIOUS
        <5>1. next[t] \in D /\ m[next[t]] < m[t] /\ m[next[t]] \in Nat /\ m[t] \in Nat
              /\ m[t] < n
          OBVIOUS
        <5>2. m[next[t]] < n - 1
          BY <4>1, <5>1
        <5>3. Solves(f, next[t])
          BY <4>3, <5>1, <5>2
        <5>4. new[next[t]] = f[next[t]]
          BY <5>1, <5>3
        <5> QED BY <5>4
      <4> HIDE DEF new
      <4> QED BY <4>4, <4>5
    <3> QED BY <3>1, <3>2
  <2>2. id \in [Nat -> Nat]
    OBVIOUS
  <2> HIDE DEF solved, id
  <2>3. Nat \subseteq solved
    BY <2>1, <2>2, MeasureInduction
  <2> QED BY <2>3
<1> DEFINE upTo(t) == CHOOSE f \in [D -> S] : \A u \in below(m[t] + 1) : Solves(f, u)
           whole == [t \in D |-> upTo(t)[t]]
<1>3. ASSUME NEW t \in D
      PROVE  upTo(t) \in [D -> S] /\ \A u \in below(m[t] + 1) : Solves(upTo(t), u)
  <2>1. m[t] + 1 \in Nat
    OBVIOUS
  <2>2. \E f \in [D -> S] : \A u \in below(m[t] + 1) : Solves(f, u)
    BY <1>2, <2>1
  <2> QED BY <2>2
<1>4. whole \in [D -> S]
  BY <1>3
<1>5. ASSUME NEW t \in D
      PROVE  Solves(whole, t)
  <2>1. Solves(upTo(t), t)
    <3>1. t \in below(m[t] + 1)
      OBVIOUS
    <3> QED BY <1>3, <3>1
  <2>2. CASE t \in stop
    BY <2>1, <2>2
  <2>3. CASE t \notin stop
    <3> DEFINE u == next[t]
    <3>1. u \in D /\ m[u] < m[t] /\ m[u] \in Nat /\ m[t] \in Nat
      BY <2>3
    <3> HIDE DEF u
    <3>2. \A v \in below(m[u] + 1) : v \in below(m[t] + 1)
      <4> TAKE v \in below(m[u] + 1)
      <4>1. m[v] \in Nat /\ m[v] < m[u] + 1
        OBVIOUS
      <4> QED BY <3>1, <4>1
    <3>3. \A v \in below(m[u] + 1) : Solves(upTo(t), v) /\ Solves(upTo(u), v)
      BY <1>3, <3>1, <3>2
    <3>4. m[u] < m[u] + 1 /\ m[u] + 1 \in Nat
      BY <3>1
    <3>5. upTo(t) \in [D -> S] /\ upTo(u) \in [D -> S]
      BY <1>3, <3>1
    <3>6. u \in agreed
      BY <1>1, <3>1
    <3> HIDE DEF Solves, upTo, below
    <3>7. upTo(t)[u] = upTo(u)[u]
      BY <3>3, <3>4, <3>5, <3>6
    <3>8. whole[u] = upTo(u)[u] /\ whole[t] = upTo(t)[t]
      BY <3>1
    <3> QED BY <2>1, <2>3, <3>7, <3>8 DEF Solves, u
  <2> QED BY <2>2, <2>3
<1> HIDE DEF whole
<1> QED BY <1>4, <1>5

-----------------------------------------------------------------------------
Text == Seq(STRING)

\* The edits that Insertion and Deletion build.
Edit == [kind : {"insertion", "deletion"}, start : Nat, end : Nat, text : Text]

WellFormed(edit) ==
  /\ edit \in Edit
  /\ edit.start <= edit.end
  /\ edit.kind = "insertion" => edit.start = edit.end
  /\ edit.kind = "deletion" => edit.text = <<>>

-----------------------------------------------------------------------------
\* A slice holds the symbols between its two offsets.
LEMMA SliceFacts ==
  ASSUME NEW d \in Text, NEW a \in Nat, NEW b \in Nat, a <= b, b <= Len(d)
  PROVE  /\ Slice(d, a, b) \in Text
         /\ Len(Slice(d, a, b)) = b - a
         /\ \A k \in 1 .. b - a : Slice(d, a, b)[k] = d[a + k]
<1>1. \A k \in a + 1 .. b : d[k] \in STRING
  BY DEF Text
<1>2. a + 1 \in Int /\ b \in Int
  OBVIOUS
<1>3. /\ SubSeq(d, a + 1, b) \in Seq(STRING)
      /\ Len(SubSeq(d, a + 1, b)) = IF a + 1 <= b THEN b - (a + 1) + 1 ELSE 0
      /\ \A k \in 1 .. b - (a + 1) + 1 : SubSeq(d, a + 1, b)[k] = d[a + 1 + k - 1]
  BY <1>1, <1>2, SubSeqProperties
<1>4. \A k \in 1 .. b - a : a + 1 + k - 1 = a + k
  OBVIOUS
<1> QED BY <1>3, <1>4 DEF Slice, Text

\* Two texts of one length with the same symbols are the same text.
LEMMA SameText ==
  ASSUME NEW s \in Text, NEW t \in Text, Len(s) = Len(t),
         \A k \in 1 .. Len(s) : s[k] = t[k]
  PROVE  s = t
BY SeqEqual DEF Text

\* A slice of a slice is a slice.
LEMMA SliceOfSlice ==
  ASSUME NEW d \in Text, NEW a \in Nat, NEW b \in Nat, a <= b, b <= Len(d),
         NEW p \in Nat, NEW q \in Nat, p <= q, q <= b - a
  PROVE  Slice(Slice(d, a, b), p, q) = Slice(d, a + p, a + q)
<1> DEFINE s == Slice(d, a, b)
<1>1. s \in Text /\ Len(s) = b - a /\ \A k \in 1 .. b - a : s[k] = d[a + k]
  BY SliceFacts
<1>2. Slice(s, p, q) \in Text /\ Len(Slice(s, p, q)) = q - p
      /\ \A k \in 1 .. q - p : Slice(s, p, q)[k] = s[p + k]
  BY <1>1, SliceFacts
<1>3. /\ Slice(d, a + p, a + q) \in Text
      /\ Len(Slice(d, a + p, a + q)) = (a + q) - (a + p)
      /\ \A k \in 1 .. (a + q) - (a + p) : Slice(d, a + p, a + q)[k] = d[a + p + k]
  <2>1. a + p \in Nat /\ a + q \in Nat /\ a + p <= a + q /\ a + q <= Len(d)
    BY DEF Text
  <2> QED BY <2>1, SliceFacts
<1>4. \A k \in 1 .. q - p : Slice(s, p, q)[k] = Slice(d, a + p, a + q)[k]
  <2> SUFFICES ASSUME NEW k \in 1 .. q - p
               PROVE  Slice(s, p, q)[k] = Slice(d, a + p, a + q)[k]
    OBVIOUS
  <2>1. p + k \in 1 .. b - a
    OBVIOUS
  <2>2. s[p + k] = d[a + (p + k)]
    BY <1>1, <2>1
  <2>3. a + (p + k) = a + p + k /\ k \in 1 .. (a + q) - (a + p)
    OBVIOUS
  <2> QED BY <1>2, <1>3, <2>2, <2>3
<1>5. Len(Slice(s, p, q)) = Len(Slice(d, a + p, a + q))
  BY <1>2, <1>3
<1> HIDE DEF s
<1>6. Slice(s, p, q) = Slice(d, a + p, a + q)
  BY <1>2, <1>3, <1>4, <1>5, SameText
<1> QED BY <1>6 DEF s

\* The length of an edited text, and the part in front of the edit.
LEMMA ApplyFacts ==
  ASSUME NEW d \in Text, NEW edit, WellFormed(edit), Applicable(edit, d)
  PROVE  /\ Apply(edit, d) \in Text
         /\ Len(Apply(edit, d)) = Len(d) - (edit.end - edit.start) + Len(edit.text)
         /\ \A k \in 1 .. edit.start : Apply(edit, d)[k] = d[k]
<1> DEFINE head == Slice(d, 0, edit.start)
           tail == Slice(d, edit.end, Len(d))
<1>0. edit.start \in Nat /\ edit.end \in Nat /\ edit.text \in Text /\ Len(d) \in Nat
  BY DEF WellFormed, Edit, Text
<1>1. edit.start <= edit.end /\ edit.end <= Len(d)
  BY DEF Applicable, WellFormed
<1>2. head \in Text /\ Len(head) = edit.start /\ \A k \in 1 .. edit.start : head[k] = d[k]
  <2>1. 0 \in Nat /\ 0 <= edit.start /\ edit.start <= Len(d)
    BY <1>0, <1>1
  <2>2. head \in Text /\ Len(head) = edit.start - 0
        /\ \A k \in 1 .. edit.start - 0 : head[k] = d[0 + k]
    BY <1>0, <2>1, SliceFacts
  <2>3. edit.start - 0 = edit.start /\ \A k \in 1 .. edit.start : 0 + k = k
    BY <1>0
  <2> HIDE DEF head
  <2> QED BY <2>2, <2>3
<1>3. tail \in Text /\ Len(tail) = Len(d) - edit.end
  <2>1. Len(d) <= Len(d)
    BY <1>0
  <2> QED BY <1>0, <1>1, <2>1, SliceFacts
<1> HIDE DEF head, tail
<1>4. /\ head \o edit.text \in Text
      /\ Len(head \o edit.text) = Len(head) + Len(edit.text)
      /\ \A k \in 1 .. Len(head) + Len(edit.text) :
           (head \o edit.text)[k] = IF k <= Len(head) THEN head[k]
                                                     ELSE edit.text[k - Len(head)]
  BY <1>0, <1>2, ConcatProperties DEF Text
<1> DEFINE front == head \o edit.text
<1> HIDE DEF front
<1>4a. front \in Seq(STRING) /\ tail \in Seq(STRING)
  BY <1>3, <1>4 DEF front, Text
<1>4b. front \o tail \in Text
  BY <1>4a DEF Text
<1>5. /\ Len(front \o tail) = Len(front) + Len(tail)
      /\ \A k \in 1 .. Len(front) + Len(tail) :
           (front \o tail)[k] = IF k <= Len(front) THEN front[k] ELSE tail[k - Len(front)]
  BY <1>4a, ConcatProperties
<1>6. Apply(edit, d) = front \o tail
  BY DEF Apply, head, tail, front
<1>7. Len(edit.text) \in Nat
  BY <1>0 DEF Text
<1>8. Len(front) = edit.start + Len(edit.text) /\ Len(tail) = Len(d) - edit.end
  BY <1>2, <1>3, <1>4 DEF front
<1>9. \A k \in 1 .. edit.start : (front \o tail)[k] = d[k]
  <2> SUFFICES ASSUME NEW k \in 1 .. edit.start
               PROVE  (front \o tail)[k] = d[k]
    OBVIOUS
  <2>1. k \in 1 .. Len(front) + Len(tail) /\ k <= Len(front)
        /\ k \in 1 .. Len(head) + Len(edit.text) /\ k <= Len(head)
    BY <1>0, <1>1, <1>2, <1>7, <1>8
  <2>2. (front \o tail)[k] = front[k]
    BY <2>1, <1>5
  <2>3. front[k] = head[k]
    BY <2>1, <1>4 DEF front
  <2> QED BY <2>2, <2>3, <1>2
<1>10. Len(front \o tail) = Len(d) - (edit.end - edit.start) + Len(edit.text)
  BY <1>0, <1>1, <1>5, <1>7, <1>8
<1> QED BY <1>4b, <1>6, <1>9, <1>10

\* What lies in front of an edit stays what it was.
LEMMA SliceBeforeEdit ==
  ASSUME NEW d \in Text, NEW edit, WellFormed(edit), Applicable(edit, d),
         NEW a \in Nat, NEW b \in Nat, a <= b, b <= edit.start
  PROVE  Slice(Apply(edit, d), a, b) = Slice(d, a, b)
<1> DEFINE new == Apply(edit, d)
<1>0. edit.start \in Nat /\ edit.end \in Nat /\ edit.start <= edit.end /\ edit.end <= Len(d)
      /\ Len(edit.text) \in Nat
  BY DEF WellFormed, Edit, Applicable, Text
<1>1. new \in Text /\ Len(new) = Len(d) - (edit.end - edit.start) + Len(edit.text)
      /\ \A k \in 1 .. edit.start : new[k] = d[k]
  BY ApplyFacts
<1> HIDE DEF new
<1>2. b <= Len(d) /\ b <= Len(new)
  <2>1. Len(d) \in Nat
    BY DEF Text
  <2> QED BY <1>0, <1>1, <2>1
<1>3. Slice(d, a, b) \in Text /\ Len(Slice(d, a, b)) = b - a
      /\ \A k \in 1 .. b - a : Slice(d, a, b)[k] = d[a + k]
  BY <1>2, SliceFacts
<1>4. Slice(new, a, b) \in Text /\ Len(Slice(new, a, b)) = b - a
      /\ \A k \in 1 .. b - a : Slice(new, a, b)[k] = new[a + k]
  BY <1>1, <1>2, SliceFacts
<1>5. \A k \in 1 .. b - a : Slice(new, a, b)[k] = Slice(d, a, b)[k]
  <2> SUFFICES ASSUME NEW k \in 1 .. b - a
               PROVE  Slice(new, a, b)[k] = Slice(d, a, b)[k]
    OBVIOUS
  <2>1. a + k \in 1 .. edit.start
    BY <1>0
  <2>2. new[a + k] = d[a + k]
    BY <1>1, <2>1
  <2> QED BY <1>3, <1>4, <2>2
<1>6. Slice(new, a, b) = Slice(d, a, b)
  BY <1>3, <1>4, <1>5, SameText
<1> QED BY <1>6 DEF new

\* A shifted offset is an offset of the new text.
LEMMA ShiftInRange ==
  ASSUME NEW d \in Text, NEW edit, WellFormed(edit), Applicable(edit, d),
         NEW o \in Nat, o <= Len(d)
  PROVE  Shift(edit, o) \in Nat /\ Shift(edit, o) <= Len(Apply(edit, d))
<1>0. edit.start \in Nat /\ edit.end \in Nat /\ edit.start <= edit.end /\ edit.end <= Len(d)
      /\ Len(edit.text) \in Nat /\ Len(d) \in Nat
  BY DEF WellFormed, Edit, Applicable, Text
<1>1. Len(Apply(edit, d)) = Len(d) - (edit.end - edit.start) + Len(edit.text)
  BY ApplyFacts
<1>2. CASE edit.kind = "insertion"
  BY <1>0, <1>1, <1>2 DEF Shift, WellFormed
<1>3. CASE edit.kind # "insertion"
  BY <1>0, <1>1, <1>3 DEF Shift
<1> QED BY <1>2, <1>3

\* Behind an offset whose shift keeps its distance to the end of the text,
\* every offset is shifted by the same amount.
LEMMA UniformShift ==
  ASSUME NEW d \in Text, NEW edit, WellFormed(edit), Applicable(edit, d),
         NEW o \in Nat, NEW p \in Nat, o <= p, p <= Len(d),
         Len(d) - o = Len(Apply(edit, d)) - Shift(edit, o)
  PROVE  Shift(edit, p) = Shift(edit, o) + (p - o)
<1>0. edit.start \in Nat /\ edit.end \in Nat /\ edit.start <= edit.end /\ edit.end <= Len(d)
      /\ Len(edit.text) \in Nat /\ Len(d) \in Nat
  BY DEF WellFormed, Edit, Applicable, Text
<1>1. Len(Apply(edit, d)) = Len(d) - (edit.end - edit.start) + Len(edit.text)
  BY ApplyFacts
<1>2. CASE edit.kind = "insertion"
  BY <1>0, <1>1, <1>2 DEF Shift, WellFormed
<1>3. CASE edit.kind = "deletion"
  <2>1. Len(edit.text) = 0
    BY <1>3, EmptySeq DEF WellFormed
  <2>2. \A x \in Nat : Shift(edit, x) = IF x <= edit.start THEN x
                                        ELSE IF x <= edit.end THEN edit.start
                                        ELSE x - (edit.end - edit.start)
    BY <1>3 DEF Shift
  <2>3. Shift(edit, o) = o - (edit.end - edit.start)
    <3>1. Shift(edit, o) \in Int
      BY <1>0, <2>2
    <3> QED BY <1>0, <1>1, <2>1, <3>1
  <2>4. Shift(edit, p) = p - (edit.end - edit.start)
    <3>1. CASE o <= edit.start
      <4>1. Shift(edit, o) = o
        BY <2>2, <3>1
      <4>2. edit.end = edit.start
        BY <1>0, <2>3, <4>1
      <4>3. CASE p <= edit.start
        <5>1. Shift(edit, p) = p
          BY <2>2, <4>3
        <5> QED BY <1>0, <4>2, <5>1
      <4>4. CASE p > edit.start
        <5>1. ~ (p <= edit.start) /\ ~ (p <= edit.end)
          BY <1>0, <4>2, <4>4
        <5> QED BY <2>2, <5>1
      <4> QED BY <1>0, <4>3, <4>4
    <3>2. CASE o > edit.start
      BY <1>0, <2>2, <2>3, <3>2
    <3> QED BY <1>0, <3>1, <3>2
  <2> QED BY <1>0, <2>3, <2>4
<1> QED BY <1>2, <1>3 DEF WellFormed, Edit

=============================================================================
