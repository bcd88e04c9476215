--------------------------- MODULE RealtimeProofs ---------------------------
(***************************************************************************)
(* What NativeRealtimeParser keeps true for every set of documents and     *)
(* snippets, and for every framing and parsing of the texts.               *)
(*                                                                         *)
(* The inductive invariant says that the cells tile the snapshot (Tiled):  *)
(* apply_edit joins a prefix, the cells of the region and a shifted        *)
(* suffix, each of which tiles its own part of the new text.               *)
(*                                                                         *)
(* From Settled on, for every framing that RealtimeFraming describes: only *)
(* the last cell of a document may be open, after any edits that keep the  *)
(* document Plain (real framings leave an open cell in front of others     *)
(* behind a block comment that leads a line).  A cell is ended when its    *)
(* boundary is EOC.  The inductive invariant says more than that all but   *)
(* the last are: an open one reaches to the end of the snapshot, so that   *)
(* an edit behind it can only be at its end, where first_affected_cell     *)
(* takes it into the region.                                               *)
(***************************************************************************)
EXTENDS Realtime, RealtimeFraming, TextTheorems

\* The cells lie between two offsets of a text, in its order, and hold what
\* their spans name.
Tiled(piece, low, high, text) ==
  /\ piece \in Seq(Cell)
  /\ \A i \in 1 .. Len(piece) :
       /\ low <= piece[i].start
       /\ piece[i].start <= piece[i].end
       /\ piece[i].end <= high
       /\ piece[i].text = Slice(text, piece[i].start, piece[i].end)
  /\ \A i, j \in 1 .. Len(piece) : i < j => piece[i].end <= piece[j].start

IInv == TypeOK /\ RetainedText /\ Ordered

-----------------------------------------------------------------------------
\* Documents are texts, and a slice of one is a document.
LEMMA DocumentSlice ==
  ASSUME NEW d \in Documents, NEW a \in Nat, NEW b \in Nat, a <= b, b <= Len(d)
  PROVE  d \in Text /\ Len(d) \in Nat /\ Slice(d, a, b) \in Documents
<1>1. d \in Text /\ Len(d) \in Nat
  BY DocumentsAssumption DEF Text
<1>2. a \in 0 .. Len(d) /\ b \in 0 .. Len(d)
  BY <1>1
<1> QED BY <1>1, <1>2, DocumentsAssumption

\* What leads a line in a part of a text leads one in the whole.
LEMMA BlocksOfSlice ==
  ASSUME NEW d \in Text, NEW a \in Nat, NEW b \in Nat, a <= b, b <= Len(d),
         BlockLeadsLine(Slice(d, a, b))
  PROVE  BlockLeadsLine(d)
<1> DEFINE part == Slice(d, a, b)
<1>1. part \in Text /\ Len(part) = b - a /\ \A k \in 1 .. b - a : part[k] = d[a + k]
  BY SliceFacts
<1>2. BlockLeadsLine(part) /\ Len(d) \in Nat /\ DOMAIN d = 1 .. Len(d)
  BY DEF Text
<1> HIDE DEF part
<1>3. DOMAIN part = 1 .. b - a
  BY <1>1 DEF Text
<1>4. PICK line \in DOMAIN part, open \in DOMAIN part,
           close \in DOMAIN part, behind \in DOMAIN part :
        /\ part[line] = "NL" /\ part[open] = "BO" /\ part[close] = "BC"
        /\ open < close /\ line < close /\ close < behind
        /\ \A p \in open + 1 .. close - 1 : part[p] # "BC"
        /\ \A p \in line + 1 .. open - 1 : part[p] \in Layout
        /\ part[behind] \notin Layout
        /\ \A p \in close + 1 .. behind - 1 : part[p] # "NL"
  BY <1>2 DEF BlockLeadsLine
<1>5. ASSUME NEW k \in DOMAIN part
      PROVE  k \in Nat /\ a + k \in DOMAIN d /\ d[a + k] = part[k]
  <2>1. k \in 1 .. b - a
    BY <1>3
  <2>2. part[k] = d[a + k]
    BY <1>1, <2>1
  <2> QED BY <1>2, <2>1, <2>2
<1>6. /\ d[a + line] = "NL" /\ d[a + open] = "BO" /\ d[a + close] = "BC"
      /\ d[a + behind] \notin Layout
  BY <1>4, <1>5
<1>7. a + open < a + close /\ a + line < a + close /\ a + close < a + behind
  BY <1>4, <1>5
<1>8. ASSUME NEW from \in DOMAIN part, NEW to \in DOMAIN part,
             NEW p \in a + from + 1 .. (a + to) - 1
      PROVE  p - a \in from + 1 .. to - 1 /\ d[p] = part[p - a]
  <2>1. from \in 1 .. b - a /\ to \in 1 .. b - a
    BY <1>3
  <2>2. p - a \in from + 1 .. to - 1 /\ p - a \in 1 .. b - a /\ a + (p - a) = p
    BY <2>1
  <2> QED BY <1>1, <2>2
<1>9. /\ \A p \in a + open + 1 .. (a + close) - 1 : d[p] # "BC"
      /\ \A p \in a + line + 1 .. (a + open) - 1 : d[p] \in Layout
      /\ \A p \in a + close + 1 .. (a + behind) - 1 : d[p] # "NL"
  BY <1>4, <1>8
<1>10. /\ a + line \in DOMAIN d /\ a + open \in DOMAIN d
       /\ a + close \in DOMAIN d /\ a + behind \in DOMAIN d
  BY <1>5
<1> DEFINE l == a + line
           o == a + open
           c == a + close
           n == a + behind
<1>11. /\ l \in DOMAIN d /\ o \in DOMAIN d /\ c \in DOMAIN d /\ n \in DOMAIN d
       /\ d[l] = "NL" /\ d[o] = "BO" /\ d[c] = "BC" /\ d[n] \notin Layout
  BY <1>6, <1>10
<1>12. o < c /\ l < c /\ c < n
  BY <1>7
<1>13. /\ \A p \in o + 1 .. c - 1 : d[p] # "BC"
       /\ \A p \in l + 1 .. o - 1 : d[p] \in Layout
       /\ \A p \in c + 1 .. n - 1 : d[p] # "NL"
  BY <1>9
<1> HIDE DEF l, o, c, n
<1> QED BY <1>11, <1>12, <1>13 DEF BlockLeadsLine

\* A part of a plain text is plain.
LEMMA PlainSlice ==
  ASSUME NEW d \in Text, NEW a \in Nat, NEW b \in Nat, a <= b, b <= Len(d), Plain(d)
  PROVE  Plain(Slice(d, a, b))
<1>1. ~ BlockLeadsLine(Slice(d, a, b))
  BY BlocksOfSlice DEF Plain
<1>2. ASSUME NEW p \in DOMAIN Slice(d, a, b)
      PROVE  Slice(d, a, b)[p] # "FF"
  <2> DEFINE part == Slice(d, a, b)
  <2>1. part \in Text /\ Len(part) = b - a /\ \A k \in 1 .. b - a : part[k] = d[a + k]
    BY SliceFacts
  <2>2. Len(d) \in Nat /\ DOMAIN d = 1 .. Len(d) /\ p \in DOMAIN part
    BY DEF Text
  <2> HIDE DEF part
  <2>3. p \in 1 .. b - a
    BY <2>1, <2>2 DEF Text
  <2>4. a + p \in DOMAIN d /\ part[p] = d[a + p]
    BY <2>1, <2>2, <2>3
  <2> QED BY <2>4 DEF Plain, part
<1> QED BY <1>1, <1>2 DEF Plain

\* A function on an initial part of the positive numbers is a sequence.
LEMMA FunctionIsSequence ==
  ASSUME NEW S, NEW n \in Nat, NEW f \in [1 .. n -> S]
  PROVE  f \in Seq(S) /\ Len(f) = n
OBVIOUS

\* Two pieces that tile neighbouring parts of a text tile both parts together.
LEMMA Joined ==
  ASSUME NEW a, NEW b, NEW text,
         NEW low \in Nat, NEW middle \in Nat, NEW high \in Nat,
         low <= middle, middle <= high,
         Tiled(a, low, middle, text), Tiled(b, middle, high, text)
  PROVE  Tiled(a \o b, low, high, text) /\ Len(a \o b) = Len(a) + Len(b)
<1> DEFINE c == a \o b
<1>1. a \in Seq(Cell) /\ b \in Seq(Cell)
  BY DEF Tiled
<1>2. /\ c \in Seq(Cell)
      /\ Len(c) = Len(a) + Len(b)
      /\ \A i \in 1 .. Len(a) + Len(b) :
           c[i] = IF i <= Len(a) THEN a[i] ELSE b[i - Len(a)]
  BY <1>1, ConcatProperties
<1> HIDE DEF c
<1>3. Len(a) \in Nat /\ Len(b) \in Nat
  BY <1>1
<1>4. \A i \in 1 .. Len(c) :
        \/ i \in 1 .. Len(a) /\ c[i] = a[i]
        \/ i > Len(a) /\ i - Len(a) \in 1 .. Len(b) /\ c[i] = b[i - Len(a)]
  BY <1>2, <1>3
<1>5. \A i \in 1 .. Len(c) : c[i].start \in Nat /\ c[i].end \in Nat
  <2>1. \A i \in 1 .. Len(c) : c[i] \in Cell
    BY <1>2, ElementOfSeq
  <2> QED BY <2>1 DEF Cell
<1>6. ASSUME NEW i \in 1 .. Len(c)
      PROVE  /\ low <= c[i].start
             /\ c[i].start <= c[i].end
             /\ c[i].end <= high
             /\ c[i].text = Slice(text, c[i].start, c[i].end)
             /\ i <= Len(a) => c[i].end <= middle
             /\ i > Len(a) => middle <= c[i].start
  <2>1. CASE i \in 1 .. Len(a) /\ c[i] = a[i]
    <3>1. /\ low <= c[i].start
          /\ c[i].start <= c[i].end
          /\ c[i].end <= middle
          /\ c[i].text = Slice(text, c[i].start, c[i].end)
      BY <2>1 DEF Tiled
    <3> QED BY <1>3, <1>5, <2>1, <3>1
  <2>2. CASE i > Len(a) /\ i - Len(a) \in 1 .. Len(b) /\ c[i] = b[i - Len(a)]
    <3>1. /\ middle <= c[i].start
          /\ c[i].start <= c[i].end
          /\ c[i].end <= high
          /\ c[i].text = Slice(text, c[i].start, c[i].end)
      BY <2>2 DEF Tiled
    <3> QED BY <1>3, <1>5, <2>2, <3>1
  <2> QED BY <1>4, <2>1, <2>2
<1>7. ASSUME NEW i \in 1 .. Len(c), NEW j \in 1 .. Len(c), i < j
      PROVE  c[i].end <= c[j].start
  <2>1. CASE j <= Len(a)
    <3>1. i \in 1 .. Len(a) /\ j \in 1 .. Len(a)
      BY <1>3, <1>7, <2>1
    <3>2. c[i] = a[i] /\ c[j] = a[j]
      BY <1>3, <1>4, <3>1
    <3> QED BY <1>7, <3>1, <3>2 DEF Tiled
  <2>2. CASE i > Len(a)
    <3>1. i > Len(a) /\ j > Len(a)
      BY <1>3, <1>7, <2>2
    <3>2. /\ i - Len(a) \in 1 .. Len(b) /\ c[i] = b[i - Len(a)]
          /\ j - Len(a) \in 1 .. Len(b) /\ c[j] = b[j - Len(a)]
      <4>1. ASSUME NEW k \in 1 .. Len(c), k > Len(a)
            PROVE  k - Len(a) \in 1 .. Len(b) /\ c[k] = b[k - Len(a)]
        <5>1. ~ (k \in 1 .. Len(a))
          BY <1>3, <4>1
        <5> QED BY <1>4, <5>1
      <4> QED BY <3>1, <4>1
    <3>3. i - Len(a) < j - Len(a)
      BY <1>3, <1>7
    <3> QED BY <3>2, <3>3 DEF Tiled
  <2>3. CASE i <= Len(a) /\ j > Len(a)
    <3>1. c[i].end <= middle /\ middle <= c[j].start
      BY <1>6, <2>3
    <3> QED BY <1>5, <3>1
  <2> QED BY <1>3, <2>1, <2>2, <2>3
<1> QED BY <1>2, <1>6, <1>7 DEF Tiled, c

-----------------------------------------------------------------------------
\* What a cell analyzed alone holds.
LEMMA AnalyzedCell ==
  ASSUME NEW text \in Documents, NEW start \in Nat, NEW boundary \in Boundaries
  PROVE  /\ AnalyzeCell(text, start, boundary) \in Cell
         /\ AnalyzeCell(text, start, boundary).start = start
         /\ AnalyzeCell(text, start, boundary).end = start + Len(text)
         /\ AnalyzeCell(text, start, boundary).text = text
<1>1. Len(text) \in Nat
  BY DocumentsAssumption
<1>2. start + Len(text) \in Nat
  BY <1>1
<1>3. CellState(Outcome(text), Frame(text).diagnosed, boundary) \in CellStates
  BY DEF CellState, CellStates
<1> QED BY <1>2, <1>3 DEF AnalyzeCell, AnalyzedAs, Cell, CellStates, Boundaries

\* The boundary given to a cell of a region is one of the three.
LEMMA BoundaryKind ==
  ASSUME NEW region, NEW i
  PROVE  CellBoundary(Frame(region), region, i) \in Boundaries
BY DEF CellBoundary, Boundaries

\* The ends of the cells of a region that can be lexed.
LEMMA RegionEnds ==
  ASSUME NEW region \in Documents, Frame(region).fatal = "none"
  PROVE  /\ CellCount(Frame(region), region) \in Nat
         /\ \A i \in 1 .. CellCount(Frame(region), region) :
              CellEndAt(Frame(region), region, i) \in 0 .. Len(region)
<1>1. Len(region) \in Nat
  BY DocumentsAssumption
<1>2. Frame(region).cells \in Seq([end : Nat, semi : BOOLEAN])
  BY FrameAssumption
<1>3. Len(Frame(region).cells) \in Nat
  BY <1>2
<1>4. /\ CellCount(Frame(region), region) \in Nat
      /\ CellCount(Frame(region), region) <= Len(Frame(region).cells) + 1
  <2>1. CASE Frame(region).incomplete
    <3>1. CellCount(Frame(region), region) = Len(Frame(region).cells) + 1
      BY <2>1 DEF CellCount
    <3> QED BY <1>3, <3>1
  <2>2. CASE ~ Frame(region).incomplete
    <3>1. CellCount(Frame(region), region) = Len(Frame(region).cells) + 0
      BY <2>2 DEF CellCount
    <3> QED BY <1>3, <3>1
  <2> QED BY <2>1, <2>2
<1>5. ASSUME NEW i \in 1 .. CellCount(Frame(region), region)
      PROVE  CellEndAt(Frame(region), region, i) \in 0 .. Len(region)
  <2>1. CASE i = CellCount(Frame(region), region)
    BY <1>1, <2>1 DEF CellEndAt
  <2>2. CASE i # CellCount(Frame(region), region)
    <3>1. i \in 1 .. Len(Frame(region).cells)
      BY <1>3, <1>4, <2>2
    <3>2. Frame(region).cells[i] \in [end : Nat, semi : BOOLEAN]
      BY <1>2, <3>1, ElementOfSeq
    <3>3. Frame(region).cells[i].end \in Nat
      BY <3>2
    <3> QED BY <1>1, <2>2, <3>3 DEF CellEndAt, Cut
  <2> QED BY <2>1, <2>2
<1> QED BY <1>4, <1>5


\* The cells of a region tile the part of the text that the region is.
LEMMA RegionTiled ==
  ASSUME NEW text \in Text, NEW region \in Documents, NEW at \in Nat,
         at + Len(region) <= Len(text),
         Slice(text, at, at + Len(region)) = region,
         ~ AnalyzeRegionPanics(region)
  PROVE  /\ Tiled(AnalyzeRegion(region, at), at, at + Len(region), text)
         /\ Len(AnalyzeRegion(region, at)) = CellCount(Frame(region), region)
         /\ CellCount(Frame(region), region) \in Nat
<1> DEFINE analyzed == AnalyzeRegion(region, at)
           N == CellCount(Frame(region), region)
<1>1. region \in Text /\ Len(region) \in Nat /\ Len(text) \in Nat
  BY DocumentsAssumption DEF Text
<1>2. CASE Frame(region).fatal # "none"
  <2>1. N \in 0 .. 1
    BY <1>2 DEF CellCount
  <2>2. analyzed = [i \in 1 .. N |-> AnalyzeCell(region, at, "Unbounded")]
    BY <1>2 DEF AnalyzeRegion, RegionCells
  <2>3. /\ AnalyzeCell(region, at, "Unbounded") \in Cell
        /\ AnalyzeCell(region, at, "Unbounded").start = at
        /\ AnalyzeCell(region, at, "Unbounded").end = at + Len(region)
        /\ AnalyzeCell(region, at, "Unbounded").text = region
    BY AnalyzedCell DEF Boundaries
  <2> HIDE DEF analyzed, N
  <2>4. analyzed \in Seq(Cell) /\ Len(analyzed) = N
    BY <2>1, <2>2, <2>3
  <2>5. \A i \in 1 .. Len(analyzed) : analyzed[i] = AnalyzeCell(region, at, "Unbounded")
    BY <2>2, <2>4
  <2>6. at <= at /\ at <= at + Len(region) /\ at + Len(region) <= at + Len(region)
    BY <1>1
  <2>7. \A i, j \in 1 .. Len(analyzed) : ~ (i < j)
    BY <2>1, <2>4
  <2>8. Tiled(analyzed, at, at + Len(region), text)
    BY <2>3, <2>4, <2>5, <2>6, <2>7 DEF Tiled
  <2> QED BY <2>1, <2>4, <2>8 DEF analyzed, N
<1>3. CASE Frame(region).fatal = "none"
  <2> DEFINE end(i) == CellEndAt(Frame(region), region, i)
             begin(i) == CellStartAt(Frame(region), region, i)
  <2>1. N \in Nat /\ \A i \in 1 .. N : end(i) \in 0 .. Len(region)
    BY <1>3, RegionEnds
  <2>2. \A i, j \in 1 .. N : i < j => ~ (end(j) < end(i))
    BY <1>3 DEF AnalyzeRegionPanics, Overlapping
  <2>3. \A i \in 1 .. N : begin(i) = IF i = 1 THEN 0 ELSE end(i - 1)
    BY DEF CellStartAt
  <2>4. analyzed = [i \in 1 .. N |-> AnalyzeCell(CellText(Frame(region), region, i), at + begin(i),
                                                 CellBoundary(Frame(region), region, i))]
    BY <1>3 DEF AnalyzeRegion, RegionCells
  <2>5. \A i \in 1 .. N : CellText(Frame(region), region, i) = Slice(region, begin(i), end(i))
    BY DEF CellText
  <2> HIDE DEF analyzed, N, end, begin
  <2>6. \A i \in 1 .. N : begin(i) \in Nat /\ end(i) \in Nat
                          /\ begin(i) <= end(i) /\ end(i) <= Len(region)
    <3> SUFFICES ASSUME NEW i \in 1 .. N
                 PROVE  begin(i) \in Nat /\ end(i) \in Nat
                        /\ begin(i) <= end(i) /\ end(i) <= Len(region)
      OBVIOUS
    <3>1. end(i) \in Nat /\ end(i) <= Len(region)
      BY <1>1, <2>1
    <3>2. CASE i = 1
      BY <2>3, <3>1, <3>2
    <3>3. CASE i # 1
      <4>1. i - 1 \in 1 .. N /\ i - 1 < i
        BY <2>1, <3>3
      <4>2. end(i - 1) \in Nat
        BY <1>1, <2>1, <4>1
      <4>3. ~ (end(i) < end(i - 1))
        BY <2>2, <4>1
      <4> QED BY <2>3, <3>1, <3>3, <4>2, <4>3
    <3> QED BY <3>2, <3>3
  <2>7. ASSUME NEW i \in 1 .. N
        PROVE  /\ analyzed[i] \in Cell
               /\ analyzed[i].start = at + begin(i)
               /\ analyzed[i].end = at + end(i)
               /\ analyzed[i].text = Slice(text, at + begin(i), at + end(i))
    <3>1. begin(i) \in Nat /\ end(i) \in Nat /\ begin(i) <= end(i) /\ end(i) <= Len(region)
      BY <2>6
    <3>2. CellText(Frame(region), region, i) \in Documents
      BY <2>5, <3>1, DocumentSlice
    <3>3. Len(CellText(Frame(region), region, i)) = end(i) - begin(i)
      BY <1>1, <2>5, <3>1, SliceFacts
    <3>4. analyzed[i] = AnalyzeCell(CellText(Frame(region), region, i), at + begin(i),
                                    CellBoundary(Frame(region), region, i))
      BY <2>4
    <3>5. CellBoundary(Frame(region), region, i) \in Boundaries /\ at + begin(i) \in Nat
      BY <3>1, BoundaryKind
    <3>6. /\ analyzed[i] \in Cell
          /\ analyzed[i].start = at + begin(i)
          /\ analyzed[i].end = at + begin(i) + Len(CellText(Frame(region), region, i))
          /\ analyzed[i].text = CellText(Frame(region), region, i)
      <4> DEFINE part == CellText(Frame(region), region, i)
                 from == at + begin(i)
                 boundary == CellBoundary(Frame(region), region, i)
      <4>1. part \in Documents /\ from \in Nat /\ boundary \in Boundaries
        BY <3>2, <3>5
      <4>2. analyzed[i] = AnalyzeCell(part, from, boundary)
        BY <3>4
      <4> HIDE DEF part, from, boundary
      <4>3. /\ AnalyzeCell(part, from, boundary) \in Cell
            /\ AnalyzeCell(part, from, boundary).start = from
            /\ AnalyzeCell(part, from, boundary).end = from + Len(part)
            /\ AnalyzeCell(part, from, boundary).text = part
        BY <4>1, AnalyzedCell
      <4> QED BY <4>2, <4>3 DEF part, from
    <3>7. at + begin(i) + Len(CellText(Frame(region), region, i)) = at + end(i)
      BY <3>1, <3>3
    <3>8. Slice(region, begin(i), end(i)) = Slice(text, at + begin(i), at + end(i))
      <4>1. at + Len(region) \in Nat /\ at <= at + Len(region)
            /\ end(i) <= at + Len(region) - at
        BY <1>1, <3>1
      <4> QED BY <1>1, <3>1, <4>1, SliceOfSlice
    <3> QED BY <2>5, <3>6, <3>7, <3>8
  <2>8. analyzed \in Seq(Cell) /\ Len(analyzed) = N
    <3>1. \A i \in 1 .. N : analyzed[i] \in Cell
      BY <2>7
    <3>2. analyzed \in [1 .. N -> Cell]
      BY <2>4, <3>1
    <3> QED BY <2>1, <3>2
  <2>9. ASSUME NEW i \in 1 .. N
        PROVE  /\ at <= at + begin(i)
               /\ at + begin(i) <= at + end(i)
               /\ at + end(i) <= at + Len(region)
    BY <1>1, <2>6
  <2>10. ASSUME NEW i \in 1 .. N, NEW j \in 1 .. N, i < j
         PROVE  at + end(i) <= at + begin(j)
    <3>1. j - 1 \in 1 .. N /\ j # 1 /\ i <= j - 1
      BY <2>1, <2>10
    <3>2. begin(j) = end(j - 1)
      BY <2>3, <3>1
    <3>3. end(i) \in Nat /\ end(j - 1) \in Nat
      BY <2>6, <3>1
    <3>4. end(i) <= end(j - 1)
      <4>1. CASE i = j - 1
        BY <3>3, <4>1
      <4>2. CASE i < j - 1
        <5>1. ~ (end(j - 1) < end(i))
          BY <2>2, <3>1, <4>2
        <5> QED BY <3>3, <5>1
      <4> QED BY <3>1, <4>1, <4>2
    <3> QED BY <3>2, <3>3, <3>4
  <2>11. Tiled(analyzed, at, at + Len(region), text)
    BY <2>7, <2>8, <2>9, <2>10 DEF Tiled
  <2> QED BY <2>1, <2>8, <2>11 DEF analyzed, N
<1> QED BY <1>2, <1>3


-----------------------------------------------------------------------------
\* The least member of a set of positions, or the default of an empty one.
LEMMA Smallest ==
  ASSUME NEW S, S \subseteq Nat, NEW otherwise
  PROVE  /\ S = {} => SmallestOf(S, otherwise) = otherwise
         /\ S # {} => /\ SmallestOf(S, otherwise) \in S
                      /\ \A j \in S : SmallestOf(S, otherwise) <= j
<1>1. CASE S = {}
  BY <1>1 DEF SmallestOf
<1>2. CASE S # {}
  <2>1. \E i \in S : \A j \in S : i <= j
    <3>1. PICK i \in S : \A j \in S : <<j, i>> \notin OpToRel(<, Nat)
      BY <1>2, NatLessThanWellFounded, WFMin
    <3>2. \A j \in S : ~ (j < i)
      BY <3>1 DEF OpToRel
    <3>3. \A j \in S : i <= j
      <4> TAKE j \in S
      <4>1. i \in Nat /\ j \in Nat /\ ~ (j < i)
        BY <3>2
      <4> QED BY <4>1
    <3> QED BY <3>3
  <2>2. SmallestOf(S, otherwise) = CHOOSE i \in S : \A j \in S : i <= j
    BY <1>2 DEF SmallestOf
  <2> QED BY <1>2, <2>1, <2>2
<1> QED BY <1>1, <1>2

-----------------------------------------------------------------------------
\* The invariant says that the cells tile the snapshot.
LEMMA SnapshotTiled ==
  ASSUME IInv
  PROVE  /\ source \in Documents /\ source \in Text /\ Len(source) \in Nat
         /\ cells \in Seq(Cell) /\ Len(cells) \in Nat
         /\ \A i \in 1 .. Len(cells) : /\ cells[i] \in Cell
                                       /\ cells[i].start \in Nat
                                       /\ cells[i].end \in Nat
         /\ Tiled(cells, 0, Len(source), source)
<1>1. source \in Documents /\ cells \in Seq(Cell)
  BY DEF IInv, TypeOK
<1>2. source \in Text /\ Len(source) \in Nat /\ Len(cells) \in Nat
  BY <1>1, DocumentsAssumption DEF Text
<1>3. \A i \in 1 .. Len(cells) : cells[i] \in Cell
  BY <1>1, ElementOfSeq
<1>4. \A i \in 1 .. Len(cells) : cells[i].start \in Nat /\ cells[i].end \in Nat
  BY <1>3 DEF Cell
<1>5. \A i \in 1 .. Len(cells) :
        /\ 0 <= cells[i].start
        /\ cells[i].start <= cells[i].end
        /\ cells[i].end <= Len(source)
        /\ cells[i].text = Slice(source, cells[i].start, cells[i].end)
  BY <1>4 DEF IInv, RetainedText, Ordered
<1>6. Tiled(cells, 0, Len(source), source)
  BY <1>1, <1>5 DEF IInv, Ordered, Tiled
<1> QED BY <1>1, <1>2, <1>3, <1>4, <1>6

\* first_affected_cell names a cell or the place behind the last one, and the
\* cells in front of it end in front of the edit.
LEMMA FirstAffected ==
  ASSUME IInv, NEW edit, WellFormed(edit)
  PROVE  /\ FirstAffectedCell(edit) \in 1 .. Len(cells) + 1
         /\ \A i \in 1 .. Len(cells) : i < FirstAffectedCell(edit) =>
              /\ cells[i].end <= edit.start
              /\ cells[i].end = edit.start => cells[i].boundary = "EOC"
         /\ \A i \in 1 .. Len(cells) : i = FirstAffectedCell(edit) =>
              \/ edit.start < cells[i].end
              \/ edit.start = cells[i].end /\ cells[i].boundary # "EOC"
<1> DEFINE affected == { i \in 1 .. Len(cells) :
                           \/ edit.start < cells[i].end
                           \/ edit.start = cells[i].end /\ cells[i].boundary # "EOC" }
           first == FirstAffectedCell(edit)
<1>1. first = SmallestOf(affected, Len(cells) + 1)
  BY DEF FirstAffectedCell
<1>2. Len(cells) \in Nat /\ edit.start \in Nat
      /\ \A i \in 1 .. Len(cells) : cells[i].end \in Nat
  BY SnapshotTiled DEF WellFormed, Edit
<1>3. affected \subseteq Nat
  BY <1>2
<1>4. /\ affected = {} => first = Len(cells) + 1
      /\ affected # {} => first \in affected /\ \A j \in affected : first <= j
  <2> HIDE DEF affected, first
  <2> QED BY <1>1, <1>3, Smallest
<1>5. first \in 1 .. Len(cells) + 1
  <2>1. \A i \in affected : i \in 1 .. Len(cells) + 1
    BY <1>2
  <2>2. Len(cells) + 1 \in 1 .. Len(cells) + 1
    BY <1>2
  <2> HIDE DEF affected, first
  <2> QED BY <1>4, <2>1, <2>2
<1>6. \A i \in 1 .. Len(cells) : i < first => i \notin affected
  <2>1. \A i \in 1 .. Len(cells) : i < first => ~ (first <= i)
    BY <1>2, <1>5
  <2> HIDE DEF affected, first
  <2> QED BY <1>4, <2>1
<1>7. \A i \in 1 .. Len(cells) : i \notin affected =>
        cells[i].end <= edit.start /\ (cells[i].end = edit.start => cells[i].boundary = "EOC")
  BY <1>2
<1>8. \A i \in 1 .. Len(cells) : i = first => i \in affected
  <2>1. Len(cells) + 1 \notin 1 .. Len(cells)
    BY <1>2
  <2> HIDE DEF affected, first
  <2> QED BY <1>4, <2>1
<1> QED BY <1>5, <1>6, <1>7, <1>8

\* The cells in front of the region stay, and tile what is in front of it.
LEMMA PrefixTiled ==
  ASSUME IInv, NEW edit, WellFormed(edit), Applicable(edit, source),
         NEW first, first = FirstAffectedCell(edit)
  PROVE  /\ RegionStart(first) \in Nat
         /\ Tiled(SubSeq(cells, 1, first - 1), 0, RegionStart(first), Apply(edit, source))
         /\ Len(SubSeq(cells, 1, first - 1)) = first - 1
         /\ \A i \in 1 .. first - 1 : SubSeq(cells, 1, first - 1)[i] = cells[i]
<1> DEFINE prefix == SubSeq(cells, 1, first - 1)
<1>1. /\ source \in Text /\ Len(source) \in Nat
      /\ cells \in Seq(Cell) /\ Len(cells) \in Nat
      /\ \A i \in 1 .. Len(cells) : /\ cells[i] \in Cell
                                    /\ cells[i].start \in Nat
                                    /\ cells[i].end \in Nat
      /\ Tiled(cells, 0, Len(source), source)
  BY SnapshotTiled
<1>2. first \in 1 .. Len(cells) + 1
  BY FirstAffected
<1>3. \A i \in 1 .. first - 1 : i \in 1 .. Len(cells) /\ i < first /\ i # first
  BY <1>1, <1>2
<1>4. /\ prefix \in Seq(Cell)
      /\ Len(prefix) = first - 1
      /\ \A i \in 1 .. first - 1 : prefix[i] = cells[i]
  <2>1. 1 \in Int /\ first - 1 \in Int /\ \A i \in 1 .. first - 1 : cells[i] \in Cell
    BY <1>1, <1>2, <1>3
  <2>2. /\ prefix \in Seq(Cell)
        /\ Len(prefix) = IF 1 <= first - 1 THEN first - 1 - 1 + 1 ELSE 0
        /\ \A i \in 1 .. first - 1 - 1 + 1 : prefix[i] = cells[1 + i - 1]
    BY <2>1, SubSeqProperties
  <2>3. (IF 1 <= first - 1 THEN first - 1 - 1 + 1 ELSE 0) = first - 1
    BY <1>1, <1>2
  <2>4. first - 1 - 1 + 1 = first - 1 /\ \A i \in 1 .. first - 1 : 1 + i - 1 = i
    BY <1>1, <1>2
  <2> HIDE DEF prefix
  <2> QED BY <2>2, <2>3, <2>4
<1>5. RegionStart(first) \in Nat
  <2>1. CASE first <= Len(cells)
    <3>1. first \in 1 .. Len(cells)
      BY <1>1, <1>2, <2>1
    <3> QED BY <1>1, <2>1, <3>1 DEF RegionStart
  <2>2. CASE ~ (first <= Len(cells))
    BY <1>1, <2>2 DEF RegionStart
  <2> QED BY <2>1, <2>2
<1> HIDE DEF prefix
<1>6. ASSUME NEW i \in 1 .. Len(prefix)
      PROVE  /\ 0 <= prefix[i].start
             /\ prefix[i].start <= prefix[i].end
             /\ prefix[i].end <= RegionStart(first)
             /\ prefix[i].text = Slice(Apply(edit, source), prefix[i].start, prefix[i].end)
  <2>1. i \in 1 .. Len(cells) /\ i < first /\ prefix[i] = cells[i]
    BY <1>3, <1>4
  <2>2. /\ 0 <= cells[i].start
        /\ cells[i].start <= cells[i].end
        /\ cells[i].end <= Len(source)
        /\ cells[i].text = Slice(source, cells[i].start, cells[i].end)
    BY <1>1, <2>1 DEF Tiled
  <2>3. cells[i].end <= RegionStart(first)
    <3>1. CASE first <= Len(cells)
      <4>1. first \in 1 .. Len(cells)
        BY <1>1, <1>2, <3>1
      <4>2. cells[i].end <= cells[first].start
        BY <1>1, <2>1, <4>1 DEF Tiled
      <4> QED BY <3>1, <4>2 DEF RegionStart
    <3>2. CASE ~ (first <= Len(cells))
      BY <2>2, <3>2 DEF RegionStart
    <3> QED BY <3>1, <3>2
  <2>4. cells[i].end <= edit.start
    BY <2>1, FirstAffected
  <2>5. cells[i].start \in Nat /\ cells[i].end \in Nat
    BY <1>1, <2>1
  <2>6. Slice(Apply(edit, source), cells[i].start, cells[i].end)
          = Slice(source, cells[i].start, cells[i].end)
    BY <1>1, <2>2, <2>4, <2>5, SliceBeforeEdit
  <2> QED BY <2>1, <2>2, <2>3, <2>6
<1>7. ASSUME NEW i \in 1 .. Len(prefix), NEW j \in 1 .. Len(prefix), i < j
      PROVE  prefix[i].end <= prefix[j].start
  <2>1. /\ i \in 1 .. Len(cells) /\ prefix[i] = cells[i]
        /\ j \in 1 .. Len(cells) /\ prefix[j] = cells[j]
    BY <1>3, <1>4
  <2> QED BY <1>1, <1>7, <2>1 DEF Tiled
<1>8. Tiled(prefix, 0, RegionStart(first), Apply(edit, source))
  BY <1>4, <1>6, <1>7 DEF Tiled
<1> QED BY <1>4, <1>5, <1>8 DEF prefix

\* A cell of the reusable suffix keeps its distance to the end of the text.
LEMMA SuffixFacts ==
  ASSUME IInv, NEW edit, WellFormed(edit), Applicable(edit, source),
         NEW first \in 1 .. Len(cells) + 1,
         NEW new, new = Apply(edit, source),
         NEW suffix, suffix = ReusableSuffix(edit, new, first)
  PROVE  /\ suffix \in first .. Len(cells) + 1
         /\ suffix <= Len(cells) =>
              LET old_start == cells[suffix].start
              IN  /\ suffix \in 1 .. Len(cells)
                  /\ Shift(edit, old_start) \in Nat
                  /\ Shift(edit, old_start) <= Len(new)
                  /\ Slice(source, old_start, Len(source))
                       = Slice(new, Shift(edit, old_start), Len(new))
                  /\ Len(source) - old_start = Len(new) - Shift(edit, old_start)
<1> DEFINE kept == { i \in first + 1 .. Len(cells) : Reusable(edit, new, first, i) }
<1>1. /\ source \in Text /\ Len(source) \in Nat
      /\ cells \in Seq(Cell) /\ Len(cells) \in Nat
      /\ \A i \in 1 .. Len(cells) : cells[i].start \in Nat /\ cells[i].end \in Nat
      /\ Tiled(cells, 0, Len(source), source)
  BY SnapshotTiled
<1>2. suffix = SmallestOf(kept, Len(cells) + 1)
  BY DEF ReusableSuffix
<1>3. kept \subseteq Nat /\ kept \subseteq first .. Len(cells) /\ kept \subseteq 1 .. Len(cells)
  BY <1>1
<1>4. suffix = Len(cells) + 1 \/ suffix \in kept
  <2> HIDE DEF kept
  <2>1. /\ kept = {} => SmallestOf(kept, Len(cells) + 1) = Len(cells) + 1
        /\ kept # {} => SmallestOf(kept, Len(cells) + 1) \in kept
    <3>1. kept \subseteq Nat
      BY <1>3
    <3> QED BY <3>1, Smallest
  <2> QED BY <1>2, <2>1
<1>5. suffix \in first .. Len(cells) + 1
  <2>1. Len(cells) + 1 \in first .. Len(cells) + 1
        /\ \A i \in first .. Len(cells) : i \in first .. Len(cells) + 1
    BY <1>1
  <2> HIDE DEF kept
  <2> QED BY <1>3, <1>4, <2>1
<1>6. ASSUME suffix <= Len(cells)
      PROVE  LET old_start == cells[suffix].start
             IN  /\ suffix \in 1 .. Len(cells)
                 /\ Shift(edit, old_start) \in Nat
                 /\ Shift(edit, old_start) <= Len(new)
                 /\ Slice(source, old_start, Len(source))
                      = Slice(new, Shift(edit, old_start), Len(new))
                 /\ Len(source) - old_start = Len(new) - Shift(edit, old_start)
  <2> DEFINE old_start == cells[suffix].start
             new_start == Shift(edit, old_start)
  <2>1. suffix \in kept
    <3>1. suffix # Len(cells) + 1
      BY <1>1, <1>5, <1>6
    <3> QED BY <1>4, <3>1
  <2>2. suffix \in 1 .. Len(cells)
    BY <1>3, <2>1
  <2>3. Slice(source, old_start, Len(source)) = Slice(new, new_start, Len(new))
    BY <2>1 DEF Reusable
  <2>4. old_start \in Nat /\ old_start <= Len(source)
    <3>1. cells[suffix].start <= cells[suffix].end /\ cells[suffix].end <= Len(source)
      BY <1>1, <2>2 DEF Tiled
    <3> QED BY <1>1, <2>2, <3>1
  <2> HIDE DEF old_start
  <2>5. new_start \in Nat /\ new_start <= Len(new)
    BY <1>1, <2>4, ShiftInRange
  <2>6. new \in Text /\ Len(new) \in Nat
    BY <1>1, ApplyFacts DEF Text
  <2> HIDE DEF new_start
  <2>7. Len(Slice(source, old_start, Len(source))) = Len(source) - old_start
    <3>1. Len(source) <= Len(source)
      BY <1>1
    <3> QED BY <1>1, <2>4, <3>1, SliceFacts
  <2>8. Len(Slice(new, new_start, Len(new))) = Len(new) - new_start
    <3>1. Len(new) <= Len(new)
      BY <2>6
    <3> QED BY <2>5, <2>6, <3>1, SliceFacts
  <2>9. Len(source) - old_start = Len(new) - new_start
    BY <2>3, <2>7, <2>8
  <2> QED BY <2>2, <2>3, <2>5, <2>9 DEF old_start, new_start
<1> QED BY <1>5, <1>6

\* The shifted suffix tiles the end of the new text.
LEMMA SuffixTiled ==
  ASSUME IInv, NEW edit, WellFormed(edit), Applicable(edit, source),
         NEW first \in 1 .. Len(cells) + 1,
         NEW new, new = Apply(edit, source),
         NEW suffix, suffix = ReusableSuffix(edit, new, first),
         NEW moved, moved = [i \in 1 .. Len(cells) + 1 - suffix |->
                               Shifted(edit, cells[suffix + i - 1])]
  PROVE  /\ RebuildEnd(edit, new, suffix) \in Nat
         /\ RebuildEnd(edit, new, suffix) <= Len(new)
         /\ Tiled(moved, RebuildEnd(edit, new, suffix), Len(new), new)
         /\ Len(moved) = Len(cells) + 1 - suffix
<1>1. /\ source \in Text /\ Len(source) \in Nat
      /\ cells \in Seq(Cell) /\ Len(cells) \in Nat
      /\ \A i \in 1 .. Len(cells) : /\ cells[i] \in Cell
                                    /\ cells[i].start \in Nat
                                    /\ cells[i].end \in Nat
      /\ Tiled(cells, 0, Len(source), source)
  BY SnapshotTiled
<1>2. new \in Text /\ Len(new) \in Nat
  BY <1>1, ApplyFacts DEF Text
<1>3. suffix \in first .. Len(cells) + 1
  BY SuffixFacts
<1>4. CASE ~ (suffix <= Len(cells))
  <2>1. suffix = Len(cells) + 1
    BY <1>1, <1>3, <1>4
  <2>2. RebuildEnd(edit, new, suffix) = Len(new)
    BY <1>4 DEF RebuildEnd
  <2>3. Len(cells) + 1 - suffix = 0 /\ 1 .. 0 = {}
    BY <1>1, <2>1
  <2>4. moved \in [1 .. 0 -> Cell]
    BY <2>3
  <2>5. moved \in Seq(Cell) /\ Len(moved) = 0
    BY <2>4, FunctionIsSequence
  <2>6. Tiled(moved, Len(new), Len(new), new)
    BY <2>3, <2>5 DEF Tiled
  <2> QED BY <1>2, <2>2, <2>3, <2>5, <2>6
<1>5. CASE suffix <= Len(cells)
  <2> DEFINE o == cells[suffix].start
             to == RebuildEnd(edit, new, suffix)
             N == Len(cells) + 1 - suffix
  <2>1. to = Shift(edit, o)
    BY <1>5 DEF RebuildEnd
  <2>2. /\ suffix \in 1 .. Len(cells)
        /\ to \in Nat /\ to <= Len(new)
        /\ Slice(source, o, Len(source)) = Slice(new, to, Len(new))
        /\ Len(source) - o = Len(new) - to
    BY <1>5, <2>1, SuffixFacts
  <2>3. N \in Nat /\ \A i \in 1 .. N : suffix + i - 1 \in 1 .. Len(cells)
                                       /\ suffix <= suffix + i - 1
    BY <1>1, <2>2
  <2>4. o \in Nat
    BY <1>1, <2>2
  <2>5. ASSUME NEW k \in 1 .. Len(cells), suffix <= k
        PROVE  /\ o <= cells[k].start
               /\ cells[k].start <= cells[k].end
               /\ cells[k].end <= Len(source)
               /\ cells[k].start \in Nat /\ cells[k].end \in Nat
               /\ cells[k].text = Slice(source, cells[k].start, cells[k].end)
    <3>1. /\ cells[k].start <= cells[k].end
          /\ cells[k].end <= Len(source)
          /\ cells[k].text = Slice(source, cells[k].start, cells[k].end)
      BY <1>1 DEF Tiled
    <3>2. cells[k].start \in Nat /\ cells[k].end \in Nat
      BY <1>1
    <3>3. o <= cells[k].start
      <4>1. CASE suffix = k
        BY <2>4, <4>1
      <4>2. CASE suffix < k
        <5>1. cells[suffix].end <= cells[k].start /\ cells[suffix].start <= cells[suffix].end
          BY <1>1, <2>2, <4>2 DEF Tiled
        <5>2. cells[suffix].end \in Nat
          BY <1>1, <2>2
        <5> QED BY <2>4, <3>2, <5>1, <5>2
      <4> QED BY <2>2, <2>5, <4>1, <4>2
    <3> QED BY <3>1, <3>2, <3>3
  <2>6. ASSUME NEW p \in Nat, o <= p, p <= Len(source)
        PROVE  /\ Shift(edit, p) = to + (p - o)
               /\ to <= Shift(edit, p)
               /\ Shift(edit, p) <= Len(new)
               /\ Shift(edit, p) \in Nat
    <3>1. Len(source) - o = Len(Apply(edit, source)) - Shift(edit, o)
      BY <2>1, <2>2
    <3>2. Shift(edit, p) = Shift(edit, o) + (p - o)
      <4> HIDE DEF o
      <4> QED BY <1>1, <2>4, <2>6, <3>1, UniformShift
    <3>3. Shift(edit, p) = to + (p - o)
      BY <2>1, <3>2
    <3> HIDE DEF o, to
    <3> QED BY <1>1, <1>2, <2>2, <2>4, <2>6, <3>3
  <2>7. ASSUME NEW k \in 1 .. Len(cells), suffix <= k
        PROVE  Slice(source, cells[k].start, cells[k].end)
                 = Slice(new, Shift(edit, cells[k].start), Shift(edit, cells[k].end))
    <3> DEFINE s == cells[k].start
               e == cells[k].end
    <3>1. o <= s /\ s <= e /\ e <= Len(source) /\ s \in Nat /\ e \in Nat
      BY <2>5, <2>7
    <3> HIDE DEF s, e, o, to
    <3>2. Shift(edit, s) = to + (s - o) /\ Shift(edit, e) = to + (e - o)
      <4>1. s <= Len(source) /\ o <= e
        BY <1>1, <2>4, <3>1
      <4> QED BY <2>6, <3>1, <4>1
    <3>3. /\ s - o \in Nat /\ e - o \in Nat /\ s - o <= e - o
          /\ e - o <= Len(source) - o /\ e - o <= Len(new) - to
          /\ o + (s - o) = s /\ o + (e - o) = e
          /\ o <= Len(source) /\ Len(source) <= Len(source) /\ Len(new) <= Len(new)
      BY <1>1, <1>2, <2>2, <2>4, <3>1
    <3>4. Slice(Slice(source, o, Len(source)), s - o, e - o) = Slice(source, s, e)
      <4>1. Slice(Slice(source, o, Len(source)), s - o, e - o)
              = Slice(source, o + (s - o), o + (e - o))
        BY <1>1, <2>4, <3>3, SliceOfSlice
      <4> QED BY <3>3, <4>1
    <3>5. Slice(Slice(new, to, Len(new)), s - o, e - o) = Slice(new, to + (s - o), to + (e - o))
      <4>1. /\ new \in Text /\ to \in Nat /\ Len(new) \in Nat /\ to <= Len(new)
            /\ s - o \in Nat /\ e - o \in Nat /\ s - o <= e - o /\ e - o <= Len(new) - to
            /\ Len(new) <= Len(new)
        BY <1>2, <2>2, <3>3
      <4> QED BY <4>1, SliceOfSlice
    <3>6. Slice(source, s, e) = Slice(new, Shift(edit, s), Shift(edit, e))
      BY <2>2, <3>2, <3>4, <3>5
    <3> QED BY <3>6 DEF s, e
  <2> HIDE DEF o, to, N
  <2>8. moved = [i \in 1 .. N |-> Shifted(edit, cells[suffix + i - 1])]
    BY DEF N
  <2>9. ASSUME NEW i \in 1 .. N
        PROVE  /\ moved[i] \in Cell
               /\ moved[i].start = Shift(edit, cells[suffix + i - 1].start)
               /\ moved[i].end = Shift(edit, cells[suffix + i - 1].end)
               /\ moved[i].text = cells[suffix + i - 1].text
    <3> DEFINE cell == cells[suffix + i - 1]
    <3>1. moved[i] = Shifted(edit, cell)
      BY <2>8
    <3>2. suffix + i - 1 \in 1 .. Len(cells) /\ suffix <= suffix + i - 1
      BY <2>3
    <3>3. cell \in Cell
      BY <1>1, <3>2
    <3>4. /\ o <= cell.start /\ cell.start <= cell.end /\ cell.end <= Len(source)
          /\ cell.start \in Nat /\ cell.end \in Nat
      BY <2>5, <3>2
    <3> HIDE DEF cell
    <3>5. o <= cell.end /\ cell.start <= Len(source)
      BY <1>1, <2>4, <3>4
    <3>6. Shift(edit, cell.start) \in Nat /\ Shift(edit, cell.end) \in Nat
      BY <2>6, <3>4, <3>5
    <3>7. /\ Shifted(edit, cell) \in Cell
          /\ Shifted(edit, cell).start = Shift(edit, cell.start)
          /\ Shifted(edit, cell).end = Shift(edit, cell.end)
          /\ Shifted(edit, cell).text = cell.text
      BY <3>3, <3>6 DEF Shifted, Cell
    <3> QED BY <3>1, <3>7 DEF cell
  <2>10. moved \in Seq(Cell) /\ Len(moved) = N
    <3>1. \A i \in 1 .. N : moved[i] \in Cell
      BY <2>9
    <3>2. moved \in [1 .. N -> Cell]
      BY <2>8, <3>1
    <3> QED BY <2>3, <3>2, FunctionIsSequence
  <2>11. ASSUME NEW i \in 1 .. N
         PROVE  /\ to <= moved[i].start
                /\ moved[i].start <= moved[i].end
                /\ moved[i].end <= Len(new)
                /\ moved[i].text = Slice(new, moved[i].start, moved[i].end)
    <3> DEFINE k == suffix + i - 1
    <3>1. k \in 1 .. Len(cells) /\ suffix <= k
      BY <2>3
    <3>2. /\ moved[i].start = Shift(edit, cells[k].start)
          /\ moved[i].end = Shift(edit, cells[k].end)
          /\ moved[i].text = cells[k].text
      BY <2>9
    <3> HIDE DEF k
    <3>3. /\ o <= cells[k].start
          /\ cells[k].start <= cells[k].end
          /\ cells[k].end <= Len(source)
          /\ cells[k].start \in Nat /\ cells[k].end \in Nat
          /\ cells[k].text = Slice(source, cells[k].start, cells[k].end)
      BY <2>5, <3>1
    <3>4. cells[k].start <= Len(source) /\ o <= cells[k].end
      BY <1>1, <2>4, <3>3
    <3>5. /\ to <= Shift(edit, cells[k].start)
          /\ Shift(edit, cells[k].end) <= Len(new)
          /\ Shift(edit, cells[k].start) = to + (cells[k].start - o)
          /\ Shift(edit, cells[k].end) = to + (cells[k].end - o)
      BY <2>6, <3>3, <3>4
    <3>6. to + (cells[k].start - o) <= to + (cells[k].end - o)
      <4>1. to \in Nat
        BY <2>2
      <4>2. cells[k].start \in Nat /\ cells[k].end \in Nat /\ cells[k].start <= cells[k].end
        BY <3>3
      <4> QED BY <2>4, <4>1, <4>2
    <3>7. Slice(source, cells[k].start, cells[k].end)
            = Slice(new, Shift(edit, cells[k].start), Shift(edit, cells[k].end))
      BY <2>7, <3>1
    <3> QED BY <3>2, <3>3, <3>5, <3>6, <3>7
  <2>12. ASSUME NEW i \in 1 .. N, NEW j \in 1 .. N, i < j
         PROVE  moved[i].end <= moved[j].start
    <3> DEFINE k == suffix + i - 1
               l == suffix + j - 1
    <3>1. k \in 1 .. Len(cells) /\ suffix <= k /\ l \in 1 .. Len(cells) /\ suffix <= l
      BY <2>3
    <3>2. k < l
      BY <2>2, <2>12, <2>3
    <3>3. moved[i].end = Shift(edit, cells[k].end) /\ moved[j].start = Shift(edit, cells[l].start)
      BY <2>9
    <3> HIDE DEF k, l
    <3>4. cells[k].end <= cells[l].start
      BY <1>1, <3>1, <3>2 DEF Tiled
    <3>5. /\ cells[k].end \in Nat /\ cells[l].start \in Nat
          /\ o <= cells[k].end /\ cells[k].end <= Len(source)
          /\ o <= cells[l].start /\ cells[l].start <= Len(source)
      <4>1. /\ o <= cells[k].start /\ cells[k].start <= cells[k].end
            /\ cells[k].end <= Len(source)
            /\ cells[k].start \in Nat /\ cells[k].end \in Nat
        BY <2>5, <3>1
      <4>2. /\ o <= cells[l].start /\ cells[l].start <= cells[l].end
            /\ cells[l].end <= Len(source)
            /\ cells[l].start \in Nat /\ cells[l].end \in Nat
        BY <2>5, <3>1
      <4> QED BY <1>1, <2>4, <4>1, <4>2
    <3>6. /\ Shift(edit, cells[k].end) = to + (cells[k].end - o)
          /\ Shift(edit, cells[l].start) = to + (cells[l].start - o)
      BY <2>6, <3>5
    <3>7. to + (cells[k].end - o) <= to + (cells[l].start - o)
      <4>1. to \in Nat
        BY <2>2
      <4>2. cells[k].end \in Nat /\ cells[l].start \in Nat
        BY <3>5
      <4>3. \A x, y \in Nat : x <= y => to + (x - o) <= to + (y - o)
        BY <2>4, <4>1
      <4> QED BY <3>4, <4>2, <4>3
    <3> QED BY <3>3, <3>6, <3>7
  <2>13. Tiled(moved, to, Len(new), new)
    <3>1. \A i \in 1 .. Len(moved) :
            /\ to <= moved[i].start
            /\ moved[i].start <= moved[i].end
            /\ moved[i].end <= Len(new)
            /\ moved[i].text = Slice(new, moved[i].start, moved[i].end)
      BY <2>10, <2>11
    <3>2. \A i, j \in 1 .. Len(moved) : i < j => moved[i].end <= moved[j].start
      BY <2>10, <2>12
    <3> QED BY <2>10, <3>1, <3>2 DEF Tiled
  <2> QED BY <2>2, <2>10, <2>13 DEF to, N
<1> QED BY <1>4, <1>5

-----------------------------------------------------------------------------
\* The edits that the actions apply.
LEMMA EditsWellFormed ==
  ASSUME SnippetsAssumption
  PROVE  /\ \A at \in Nat, text \in Snippets : WellFormed(Insertion(at, text))
         /\ \A start, end \in Nat : start <= end => WellFormed(Deletion(start, end))
<1>1. <<>> \in Text
  BY EmptySeq DEF Text
<1>2. \A text \in Snippets : text \in Text
  BY DEF SnippetsAssumption, Text
<1> QED BY <1>1, <1>2 DEF WellFormed, Edit, Insertion, Deletion

\* What apply_edit does when it does not panic.
Success(edit, first, suffix, from, to, region) ==
  /\ Applicable(edit, source)
  /\ first = FirstAffectedCell(edit)
  /\ suffix = ReusableSuffix(edit, Apply(edit, source), first)
  /\ from = RegionStart(first)
  /\ to = RebuildEnd(edit, Apply(edit, source), suffix)
  /\ region = Slice(Apply(edit, source), from, to)
  /\ ~ (from > to)
  /\ ~ AnalyzeRegionPanics(region)
  /\ source' = Apply(edit, source)
  /\ source' \in Documents
  /\ cells' = SubSeq(cells, 1, first - 1)
                \o AnalyzeRegion(region, from)
                \o [i \in 1 .. Len(cells) + 1 - suffix |-> Shifted(edit, cells[suffix + i - 1])]
  /\ reparsed' = [first |-> first, count |-> CellCount(Frame(region), region)]
  /\ result' = "ok"

\* An operation leaves the snapshot alone or succeeds.
LEMMA Outcomes ==
  ASSUME NEW edit, ApplyEdit(edit)
  PROVE  \/ UNCHANGED <<source, cells, reparsed>> /\ result' \in {"rejected", "panicked"}
         \/ \E first, suffix, from, to, region : Success(edit, first, suffix, from, to, region)
<1>1. CASE Rejected(edit)
  BY <1>1 DEF Rejected
<1>2. CASE Rebuilt(edit)
  <2> DEFINE first == FirstAffectedCell(edit)
             suffix == ReusableSuffix(edit, Apply(edit, source), first)
             from == RegionStart(first)
             to == RebuildEnd(edit, Apply(edit, source), suffix)
             region == Slice(Apply(edit, source), from, to)
  <2>1. CASE from > to \/ AnalyzeRegionPanics(region)
    BY <1>2, <2>1 DEF Rebuilt
  <2>2. CASE ~ (from > to \/ AnalyzeRegionPanics(region))
    <3>1. Success(edit, first, suffix, from, to, region)
      BY <1>2, <2>2 DEF Rebuilt, Success, Reparsed
    <3> QED BY <3>1
  <2> QED BY <2>1, <2>2
<1> QED BY <1>1, <1>2 DEF ApplyEdit

\* The cells after a successful operation: prefix, region and suffix tile the
\* new text, and the prefix is untouched.
LEMMA SuccessTiles ==
  ASSUME IInv, NEW edit, WellFormed(edit),
         NEW first, NEW suffix, NEW from, NEW to, NEW region,
         Success(edit, first, suffix, from, to, region)
  PROVE  /\ source' \in Documents /\ Len(source') \in Nat
         /\ first \in Nat \ {0}
         /\ CellCount(Frame(region), region) \in Nat
         /\ Tiled(cells', 0, Len(source'), source')
         /\ first + CellCount(Frame(region), region) <= Len(cells') + 1
         /\ \A i \in 1 .. first - 1 : i <= Len(cells') /\ cells'[i] = cells[i]
<1> DEFINE new == Apply(edit, source)
           prefix == SubSeq(cells, 1, first - 1)
           rebuilt == AnalyzeRegion(region, from)
           moved == [i \in 1 .. Len(cells) + 1 - suffix |->
                       Shifted(edit, cells[suffix + i - 1])]
<1>1. Applicable(edit, source) /\ first = FirstAffectedCell(edit)
      /\ suffix = ReusableSuffix(edit, new, first)
      /\ from = RegionStart(first) /\ to = RebuildEnd(edit, new, suffix)
      /\ region = Slice(new, from, to) /\ ~ (from > to) /\ ~ AnalyzeRegionPanics(region)
      /\ source' = new /\ source' \in Documents /\ cells' = prefix \o rebuilt \o moved
  BY DEF Success
<1>2. new \in Documents /\ new \in Text /\ Len(new) \in Nat /\ Len(cells) \in Nat
  BY <1>1, DocumentsAssumption, SnapshotTiled DEF Text
<1>3. first \in 1 .. Len(cells) + 1
  BY <1>1, FirstAffected
<1>4. /\ from \in Nat
      /\ Tiled(prefix, 0, from, new)
      /\ Len(prefix) = first - 1
      /\ \A i \in 1 .. first - 1 : prefix[i] = cells[i]
  BY <1>1, PrefixTiled
<1>5. /\ to \in Nat
      /\ to <= Len(new)
      /\ Tiled(moved, to, Len(new), new)
      /\ Len(moved) = Len(cells) + 1 - suffix
      /\ suffix \in first .. Len(cells) + 1
  <2> HIDE DEF new
  <2>1. new = Apply(edit, source)
    BY DEF new
  <2>2. suffix \in first .. Len(cells) + 1
    BY <1>1, <1>3, <2>1, SuffixFacts
  <2>3. moved = [i \in 1 .. Len(cells) + 1 - suffix |->
                   Shifted(edit, cells[suffix + i - 1])]
    OBVIOUS
  <2> HIDE DEF moved
  <2>4. /\ RebuildEnd(edit, new, suffix) \in Nat
        /\ RebuildEnd(edit, new, suffix) <= Len(new)
        /\ Tiled(moved, RebuildEnd(edit, new, suffix), Len(new), new)
        /\ Len(moved) = Len(cells) + 1 - suffix
    BY <1>1, <1>3, <2>1, <2>3, SuffixTiled
  <2> QED BY <1>1, <2>2, <2>4
<1> HIDE DEF new, prefix, rebuilt, moved
<1>6. from <= to
  BY <1>1, <1>4, <1>5
<1>7. region \in Documents /\ Len(region) = to - from
  <2>1. Slice(new, from, to) \in Documents
    BY <1>2, <1>4, <1>5, <1>6, DocumentSlice
  <2>2. Len(Slice(new, from, to)) = to - from
    BY <1>2, <1>4, <1>5, <1>6, SliceFacts
  <2> QED BY <1>1, <2>1, <2>2
<1>8. from + Len(region) = to
  BY <1>4, <1>5, <1>7
<1>9. /\ Tiled(rebuilt, from, to, new)
      /\ Len(rebuilt) = CellCount(Frame(region), region)
      /\ CellCount(Frame(region), region) \in Nat
  <2>1. from + Len(region) <= Len(new) /\ Slice(new, from, from + Len(region)) = region
    BY <1>1, <1>5, <1>8
  <2>2. /\ Tiled(AnalyzeRegion(region, from), from, from + Len(region), new)
        /\ Len(AnalyzeRegion(region, from)) = CellCount(Frame(region), region)
        /\ CellCount(Frame(region), region) \in Nat
    BY <1>1, <1>2, <1>4, <1>7, <2>1, RegionTiled
  <2> QED BY <1>8, <2>2 DEF rebuilt
<1>10. /\ Tiled(prefix \o rebuilt, 0, to, new)
       /\ Len(prefix \o rebuilt) = Len(prefix) + Len(rebuilt)
  <2>1. 0 \in Nat /\ 0 <= from
    BY <1>4
  <2> QED BY <1>4, <1>5, <1>6, <1>9, <2>1, Joined
<1>11. /\ Tiled(cells', 0, Len(new), new)
       /\ Len(cells') = Len(prefix) + Len(rebuilt) + Len(moved)
  <2>1. 0 \in Nat /\ 0 <= to
    BY <1>5
  <2>2. /\ Tiled((prefix \o rebuilt) \o moved, 0, Len(new), new)
        /\ Len((prefix \o rebuilt) \o moved) = Len(prefix \o rebuilt) + Len(moved)
    BY <1>2, <1>5, <1>10, <2>1, Joined
  <2> QED BY <1>1, <1>10, <2>2
<1>12. Len(cells') = first - 1 + CellCount(Frame(region), region) + (Len(cells) + 1 - suffix)
  BY <1>4, <1>5, <1>9, <1>11
<1>13. first - 1 <= Len(cells') /\ first + CellCount(Frame(region), region) <= Len(cells') + 1
  BY <1>2, <1>3, <1>5, <1>9, <1>12
<1>14. ASSUME NEW i \in 1 .. first - 1
       PROVE  i <= Len(cells') /\ cells'[i] = cells[i]
  <2>1. prefix \in Seq(Cell) /\ rebuilt \in Seq(Cell) /\ moved \in Seq(Cell)
        /\ prefix \o rebuilt \in Seq(Cell)
    BY <1>4, <1>5, <1>9, <1>10 DEF Tiled
  <2>2. i \in 1 .. Len(prefix) + Len(rebuilt) /\ i <= Len(prefix)
        /\ i \in 1 .. Len(prefix \o rebuilt) + Len(moved) /\ i <= Len(prefix \o rebuilt)
    BY <1>2, <1>3, <1>4, <1>5, <1>9, <1>10
  <2>3. (prefix \o rebuilt)[i] = prefix[i]
    BY <2>1, <2>2, ConcatProperties
  <2>4. ((prefix \o rebuilt) \o moved)[i] = (prefix \o rebuilt)[i]
    BY <2>1, <2>2, ConcatProperties
  <2>5. i <= Len(cells')
    BY <1>2, <1>3, <1>5, <1>9, <1>12
  <2> QED BY <1>1, <1>4, <2>3, <2>4, <2>5
<1>15. Tiled(cells', 0, Len(source'), source') /\ Len(source') \in Nat
  BY <1>1, <1>2, <1>11
<1>16. first \in Nat \ {0}
  BY <1>2, <1>3
<1> QED BY <1>1, <1>9, <1>13, <1>14, <1>15, <1>16

-----------------------------------------------------------------------------
LEMMA InitInvariant == Init => IInv
<1> SUFFICES ASSUME Init PROVE IInv
  OBVIOUS
<1>1. source \in Documents /\ source \in Text /\ Len(source) \in Nat
  BY DocumentsAssumption DEF Init, Text
<1>2. Slice(source, 0, 0 + Len(source)) = source
  <2>1. 0 + Len(source) = Len(source) /\ 0 <= Len(source) /\ 0 \in Nat
        /\ Len(source) <= Len(source) /\ Len(source) - 0 = Len(source)
    BY <1>1
  <2>2. /\ Slice(source, 0, Len(source)) \in Text
        /\ Len(Slice(source, 0, Len(source))) = Len(source)
        /\ \A k \in 1 .. Len(source) : Slice(source, 0, Len(source))[k] = source[0 + k]
    <3>1. /\ Slice(source, 0, Len(source)) \in Text
          /\ Len(Slice(source, 0, Len(source))) = Len(source) - 0
          /\ \A k \in 1 .. Len(source) - 0 :
               Slice(source, 0, Len(source))[k] = source[0 + k]
      BY <1>1, <2>1, SliceFacts
    <3> QED BY <2>1, <3>1
  <2>3. \A k \in 1 .. Len(source) : 0 + k = k
    BY <1>1
  <2> QED BY <1>1, <2>1, <2>2, <2>3, SameText
<1>3. /\ Tiled(cells, 0, Len(source), source)
      /\ Len(cells) = CellCount(Frame(source), source)
      /\ CellCount(Frame(source), source) \in Nat
  <2>1. 0 \in Nat /\ 0 + Len(source) = Len(source) /\ 0 + Len(source) <= Len(source)
    BY <1>1
  <2>2. cells = AnalyzeRegion(source, 0) /\ ~ AnalyzeRegionPanics(source)
    BY DEF Init
  <2>3. /\ Tiled(AnalyzeRegion(source, 0), 0, 0 + Len(source), source)
        /\ Len(AnalyzeRegion(source, 0)) = CellCount(Frame(source), source)
        /\ CellCount(Frame(source), source) \in Nat
    BY <1>1, <1>2, <2>1, <2>2, RegionTiled
  <2> QED BY <2>1, <2>2, <2>3
<1>4. reparsed = [first |-> 1, count |-> CellCount(Frame(source), source)] /\ result = "ok"
  BY DEF Init, Reparsed
<1>5. TypeOK
  BY <1>1, <1>3, <1>4 DEF TypeOK, Tiled
<1> QED BY <1>3, <1>5 DEF IInv, RetainedText, Ordered, Tiled

\* One operation keeps the invariant.
LEMMA EditInvariant ==
  ASSUME IInv, NEW edit, WellFormed(edit), ApplyEdit(edit)
  PROVE  IInv'
<1>1. CASE UNCHANGED <<source, cells, reparsed>> /\ result' \in {"rejected", "panicked"}
  BY <1>1 DEF IInv, TypeOK, RetainedText, Ordered
<1>2. CASE \E first, suffix, from, to, region : Success(edit, first, suffix, from, to, region)
  <2>1. PICK first, suffix, from, to, region : Success(edit, first, suffix, from, to, region)
    BY <1>2
  <2>2. /\ source' \in Documents /\ Len(source') \in Nat
        /\ first \in Nat \ {0}
        /\ CellCount(Frame(region), region) \in Nat
        /\ Tiled(cells', 0, Len(source'), source')
        /\ first + CellCount(Frame(region), region) <= Len(cells') + 1
    BY <2>1, SuccessTiles
  <2>3. reparsed' = [first |-> first, count |-> CellCount(Frame(region), region)] /\ result' = "ok"
    BY <2>1 DEF Success
  <2>4. TypeOK'
    BY <2>2, <2>3 DEF TypeOK, Tiled
  <2> QED BY <2>2, <2>4 DEF IInv, RetainedText, Ordered, Tiled
<1> QED BY <1>1, <1>2, Outcomes

LEMMA NextInvariant == IInv /\ [Next]_vars => IInv'
<1> SUFFICES ASSUME IInv, [Next]_vars PROVE IInv'
  OBVIOUS
<1>1. Len(source) \in Nat
  BY SnapshotTiled
<1>2. CASE Insert
  <2>1. PICK at \in 0 .. Len(source) + 1, text \in Snippets : ApplyEdit(Insertion(at, text))
    BY <1>2 DEF Insert
  <2>2. WellFormed(Insertion(at, text))
    BY <1>1, EditsWellFormed, SnippetsAssumption
  <2> QED BY <2>1, <2>2, EditInvariant
<1>3. CASE Delete
  <2>1. PICK start, end \in 0 .. Len(source) + 1 :
          start <= end /\ ApplyEdit(Deletion(start, end))
    BY <1>3 DEF Delete
  <2>2. WellFormed(Deletion(start, end))
    BY <1>1, <2>1, EditsWellFormed, SnippetsAssumption
  <2> QED BY <2>1, <2>2, EditInvariant
<1>4. CASE AppendText
  <2>1. PICK text \in Snippets : ApplyEdit(Insertion(Len(source), text))
    BY <1>4 DEF AppendText, AppendOf
  <2>2. WellFormed(Insertion(Len(source), text))
    BY <1>1, EditsWellFormed, SnippetsAssumption
  <2> QED BY <2>1, <2>2, EditInvariant
<1>5. CASE UNCHANGED vars
  BY <1>5 DEF vars, IInv, TypeOK, RetainedText, Ordered
<1> QED BY <1>2, <1>3, <1>4, <1>5 DEF Next

-----------------------------------------------------------------------------
\* The invariant holds in every state that edits reach.
THEOREM Invariant == Spec => []IInv
BY InitInvariant, NextInvariant, PTL DEF Spec

\* Every cell is a cell of a document, and the range reported as reparsed is
\* one of the cells'.
THEOREM TypeCorrect == Spec => []TypeOK
<1>1. IInv => TypeOK
  BY DEF IInv
<1> QED BY <1>1, Invariant, PTL

\* Cells, reused and shifted ones included, hold the text that their spans name.
THEOREM TextsRetained == Spec => []RetainedText
<1>1. IInv => RetainedText
  BY DEF IInv
<1> QED BY <1>1, Invariant, PTL

\* Cells stay inside the snapshot, in its order, and never overlap.
THEOREM CellsOrdered == Spec => []Ordered
<1>1. IInv => Ordered
  BY DEF IInv
<1> QED BY <1>1, Invariant, PTL

\* An append reparses no cell that is confirmed together with all in front of it.
LEMMA AppendKeepsConfirmed ==
  ASSUME IInv, AppendText,
         NEW k \in 1 .. Len(cells), \A i \in 1 .. k : cells[i].boundary = "EOC"
  PROVE  k <= Len(cells') /\ cells'[k] = cells[k]
<1>1. PICK text \in Snippets : ApplyEdit(Insertion(Len(source), text))
  BY DEF AppendText, AppendOf
<1> DEFINE edit == Insertion(Len(source), text)
<1>2. Len(source) \in Nat /\ Len(cells) \in Nat
      /\ \A i \in 1 .. Len(cells) : cells[i].end \in Nat
  BY SnapshotTiled
<1>3. WellFormed(edit) /\ edit.start = Len(source)
  BY <1>2, EditsWellFormed, SnippetsAssumption DEF Insertion
<1>4. ApplyEdit(edit)
  BY <1>1
<1> HIDE DEF edit
<1>5. CASE UNCHANGED <<source, cells, reparsed>> /\ result' \in {"rejected", "panicked"}
  BY <1>2, <1>5
<1>6. CASE \E first, suffix, from, to, region : Success(edit, first, suffix, from, to, region)
  <2>1. PICK first, suffix, from, to, region : Success(edit, first, suffix, from, to, region)
    BY <1>6
  <2>2. first = FirstAffectedCell(edit)
    BY <2>1 DEF Success
  <2>3. first \in 1 .. Len(cells) + 1
    BY <1>3, <2>2, FirstAffected
  <2>4. ~ (first <= k)
    <3> SUFFICES ASSUME first <= k PROVE FALSE
      OBVIOUS
    <3>1. first \in 1 .. Len(cells) /\ first \in 1 .. k
      BY <1>2, <2>3
    <3>2. \/ edit.start < cells[first].end
          \/ edit.start = cells[first].end /\ cells[first].boundary # "EOC"
      BY <1>3, <2>2, <3>1, FirstAffected
    <3>3. cells[first].boundary = "EOC"
      BY <3>1
    <3>4. cells[first].end <= Len(source)
      BY <3>1 DEF IInv, Ordered
    <3> QED BY <1>2, <1>3, <3>1, <3>2, <3>3, <3>4
  <2>5. k \in 1 .. first - 1
    BY <1>2, <2>3, <2>4
  <2>6. \A i \in 1 .. first - 1 : i <= Len(cells') /\ cells'[i] = cells[i]
    BY <1>3, <2>1, SuccessTiles
  <2> QED BY <2>5, <2>6
<1> QED BY <1>3, <1>4, <1>5, <1>6, Outcomes

\* append never reparses what is confirmed.
THEOREM ConfirmedCellsSurvive == Spec => ConfirmedSurviveAppend
<1>1. IInv => [AppendText =>
                 \A k \in 1 .. Len(cells) :
                   (\A i \in 1 .. k : cells[i].boundary = "EOC") =>
                      k <= Len(cells') /\ cells'[k] = cells[k]]_vars
  <2> SUFFICES ASSUME IInv, AppendText,
                      NEW k \in 1 .. Len(cells), \A i \in 1 .. k : cells[i].boundary = "EOC"
               PROVE  k <= Len(cells') /\ cells'[k] = cells[k]
    OBVIOUS
  <2> QED BY AppendKeepsConfirmed
<1> QED BY <1>1, Invariant, PTL DEF ConfirmedSurviveAppend

\* A buffer that only grows at its end is one of the edited buffers, so that it
\* keeps the invariant and its confirmed cells too.
THEOREM AppendingIsEditing ==
  AppendSpec => Spec /\ []IInv /\ ConfirmedSurviveAppend
<1>1. [AppendText]_vars => [Next]_vars
  BY DEF Next
<1>2. AppendSpec => Spec
  BY <1>1, PTL DEF AppendSpec, Spec
<1> QED BY <1>2, Invariant, ConfirmedCellsSurvive, PTL

-----------------------------------------------------------------------------
(* Only the last cell may be open. *)

\* A cell that is ended is never "Incomplete".
Settled(cell) == cell.boundary = "EOC" => cell.state # "Incomplete"

\* All cells are ended.
Closed(piece) ==
  \A i \in 1 .. Len(piece) : Settled(piece[i]) /\ piece[i].boundary = "EOC"

\* All but the last, which then reaches to the end.
OpenEnded(piece, high) ==
  \A i \in 1 .. Len(piece) :
    /\ Settled(piece[i])
    /\ piece[i].boundary = "EOC" \/ (i = Len(piece) /\ piece[i].end = high)

OpenInv == IInv /\ OpenEnded(cells, Len(source))

-----------------------------------------------------------------------------
(* Pieces joined. *)

LEMMA ClosedIsOpenEnded ==
  ASSUME NEW piece, NEW high, Closed(piece)
  PROVE  OpenEnded(piece, high)
BY DEF Closed, OpenEnded

LEMMA JoinedClosed ==
  ASSUME NEW a \in Seq(Cell), NEW b \in Seq(Cell), Closed(a), Closed(b)
  PROVE  Closed(a \o b)
<1>1. /\ Len(a \o b) = Len(a) + Len(b)
      /\ \A i \in 1 .. Len(a) + Len(b) :
           (a \o b)[i] = IF i <= Len(a) THEN a[i] ELSE b[i - Len(a)]
      /\ Len(a) \in Nat /\ Len(b) \in Nat
  BY ConcatProperties
<1> DEFINE c == a \o b
<1> HIDE DEF c
<1>2. ASSUME NEW i \in 1 .. Len(c) PROVE Settled(c[i]) /\ c[i].boundary = "EOC"
  <2>1. CASE i <= Len(a)
    <3>1. i \in 1 .. Len(a) /\ c[i] = a[i]
      BY <1>1, <2>1 DEF c
    <3>. QED  BY <3>1 DEF Closed
  <2>2. CASE ~ (i <= Len(a))
    <3>1. i - Len(a) \in 1 .. Len(b) /\ c[i] = b[i - Len(a)]
      BY <1>1, <2>2 DEF c
    <3>. QED  BY <3>1 DEF Closed
  <2>. QED  BY <2>1, <2>2
<1>3. Closed(c)
  BY <1>2 DEF Closed
<1>. QED  BY <1>3 DEF c

LEMMA JoinedOpenEnded ==
  ASSUME NEW a \in Seq(Cell), NEW b \in Seq(Cell), NEW high, Closed(a), OpenEnded(b, high)
  PROVE  OpenEnded(a \o b, high)
<1>1. /\ Len(a \o b) = Len(a) + Len(b)
      /\ \A i \in 1 .. Len(a) + Len(b) :
           (a \o b)[i] = IF i <= Len(a) THEN a[i] ELSE b[i - Len(a)]
      /\ Len(a) \in Nat /\ Len(b) \in Nat
  BY ConcatProperties
<1> DEFINE c == a \o b
<1> HIDE DEF c
<1>2. ASSUME NEW i \in 1 .. Len(c)
      PROVE  Settled(c[i]) /\ (c[i].boundary = "EOC" \/ (i = Len(c) /\ c[i].end = high))
  <2>1. CASE i <= Len(a)
    <3>1. i \in 1 .. Len(a) /\ c[i] = a[i]
      BY <1>1, <2>1 DEF c
    <3>. QED  BY <3>1 DEF Closed
  <2>2. CASE ~ (i <= Len(a))
    <3>1. i - Len(a) \in 1 .. Len(b) /\ c[i] = b[i - Len(a)]
      BY <1>1, <2>2 DEF c
    <3>2. i - Len(a) = Len(b) => i = Len(c)
      BY <1>1 DEF c
    <3>. QED  BY <3>1, <3>2 DEF OpenEnded
  <2>. QED  BY <2>1, <2>2
<1>3. OpenEnded(c, high)
  BY <1>2 DEF OpenEnded
<1>. QED  BY <1>3 DEF c

LEMMA JoinedWithNone ==
  ASSUME NEW a \in Seq(Cell), NEW b \in Seq(Cell), Len(b) = 0
  PROVE  a \o b = a
<1>1. b = <<>>
  BY EmptySeq
<1>. QED  BY <1>1, ConcatEmptySeq

-----------------------------------------------------------------------------
(* The cells of a region. *)

\* A cell analyzed alone is ended only if its caller says so, and then its
\* state is final if its text is lexed without complaint.
LEMMA AnalyzedSettled ==
  ASSUME NEW text, NEW start, NEW boundary,
         boundary = "EOC" => Frame(text).fatal = "none" /\ ~ Frame(text).diagnosed
  PROVE  /\ Settled(AnalyzeCell(text, start, boundary))
         /\ boundary = "EOC" => AnalyzeCell(text, start, boundary).boundary = "EOC"
<1>1. AnalyzeCell(text, start, boundary).boundary
        = IF Frame(text).fatal = "none" THEN boundary ELSE "Unbounded"
  BY DEF AnalyzeCell, AnalyzedAs
<1>2. Frame(text).fatal = "none" =>
        AnalyzeCell(text, start, boundary).state
          = CellState(Outcome(text), Frame(text).diagnosed, boundary)
  BY DEF AnalyzeCell, AnalyzedAs, IncompleteLexErrors
<1>3. boundary = "EOC" /\ ~ Frame(text).diagnosed =>
        CellState(Outcome(text), Frame(text).diagnosed, boundary) # "Incomplete"
  BY DEF CellState
<1>. QED  BY <1>1, <1>2, <1>3 DEF Settled

\* A cell in front of another one is ended.
LEMMA InnerBoundary ==
  ASSUME NEW region, NEW i, i # CellCount(Frame(region), region)
  PROVE  CellBoundary(Frame(region), region, i) = "EOC"
BY DEF CellBoundary

\* Where the last cell of a region starts.
LEMMA LastCellStart ==
  ASSUME NEW region \in Documents, Frame(region).fatal = "none",
         CellCount(Frame(region), region) > 0
  PROVE  CellStartAt(Frame(region), region, CellCount(Frame(region), region)) \in Nat
<1> DEFINE N == CellCount(Frame(region), region)
<1>1. N \in Nat /\ \A i \in 1 .. N : CellEndAt(Frame(region), region, i) \in 0 .. Len(region)
  BY RegionEnds
<1>2. Len(region) \in Nat
  BY DocumentsAssumption
<1>3. CASE N = 1
  BY <1>3 DEF CellStartAt
<1>4. CASE N # 1
  <2>1. N - 1 \in 1 .. N
    BY <1>1, <1>4
  <2>2. CellEndAt(Frame(region), region, N - 1) \in Nat
    BY <1>1, <1>2, <2>1
  <2>. QED  BY <1>4, <2>2 DEF CellStartAt
<1>. QED  BY <1>3, <1>4

\* The cells of a plain region: each is settled, all but the last are ended, and the
\* last reaches to the end of the region.
LEMMA RegionOpenEnded ==
  ASSUME NEW region \in Documents, Plain(region), NEW at \in Nat, ~ AnalyzeRegionPanics(region)
  PROVE  /\ OpenEnded(AnalyzeRegion(region, at), at + Len(region))
         /\ Frame(region).fatal = "none" =>
              \A i \in 1 .. Len(AnalyzeRegion(region, at)) :
                CellBoundary(Frame(region), region, i) = "EOC" =>
                  AnalyzeRegion(region, at)[i].boundary = "EOC"
<1> DEFINE analyzed == AnalyzeRegion(region, at)
           N == CellCount(Frame(region), region)
<1>1. Len(region) \in Nat
  BY DocumentsAssumption
<1>2. CASE Frame(region).fatal # "none"
  <2> DEFINE cell == AnalyzeCell(region, at, "Unbounded")
  <2>1. N \in 0 .. 1
    BY <1>2 DEF CellCount
  <2>2. analyzed = [i \in 1 .. N |-> cell]
    BY <1>2 DEF AnalyzeRegion, RegionCells
  <2>3. cell.end = at + Len(region)
    BY AnalyzedCell DEF Boundaries
  <2>4. Settled(cell)
    <3>1. "Unbounded" = "EOC" => Frame(region).fatal = "none" /\ ~ Frame(region).diagnosed
      OBVIOUS
    <3>. QED  BY <3>1, AnalyzedSettled
  <2> HIDE DEF analyzed, N, cell
  <2>5. Len(analyzed) = N /\ \A i \in 1 .. N : analyzed[i] = cell
    BY <2>1, <2>2
  <2>6. \A i \in 1 .. N : i = N
    BY <2>1
  <2>7. OpenEnded(analyzed, at + Len(region))
    BY <2>3, <2>4, <2>5, <2>6 DEF OpenEnded
  <2>. QED  BY <1>2, <2>7 DEF analyzed
<1>3. CASE Frame(region).fatal = "none"
  <2> DEFINE text(i) == CellText(Frame(region), region, i)
             start(i) == CellStartAt(Frame(region), region, i)
             boundary(i) == CellBoundary(Frame(region), region, i)
  <2>1. N \in Nat /\ \A i \in 1 .. N : CellEndAt(Frame(region), region, i) \in 0 .. Len(region)
    BY <1>3, RegionEnds
  <2>2. analyzed = [i \in 1 .. N |-> AnalyzeCell(text(i), at + start(i), boundary(i))]
    BY <1>3 DEF AnalyzeRegion, RegionCells
  <2>3. ASSUME NEW i \in 1 .. N, boundary(i) = "EOC"
        PROVE  Frame(text(i)).fatal = "none" /\ ~ Frame(text(i)).diagnosed
    BY <1>3, <2>3, EndedAssumption DEF EndedAlone
  <2>4. \A i \in 1 .. N : i # N => boundary(i) = "EOC"
    BY InnerBoundary
  <2>5. N > 0 => AnalyzeCell(text(N), at + start(N), boundary(N)).end = at + Len(region)
    <3> SUFFICES ASSUME N > 0
                 PROVE  AnalyzeCell(text(N), at + start(N), boundary(N)).end = at + Len(region)
      OBVIOUS
    <3>1. N \in 1 .. N
      BY <2>1
    <3>2. CellEndAt(Frame(region), region, N) = Len(region)
      BY DEF CellEndAt
    <3>3. start(N) < Len(region)
      BY <1>3, LastCellAssumption DEF LastCellHeld
    <3>4. start(N) \in Nat
      BY <1>3, LastCellStart
    <3>5. text(N) = Slice(region, start(N), Len(region))
      BY <3>2 DEF CellText
    <3>6. boundary(N) \in Boundaries
      BY BoundaryKind
    <3> HIDE DEF start, text, boundary, N
    <3>7. text(N) \in Documents /\ Len(text(N)) = Len(region) - start(N)
      <4>1. start(N) <= Len(region) /\ Len(region) <= Len(region)
        BY <1>1, <3>3, <3>4
      <4>2. region \in Text
        BY DocumentsAssumption DEF Text
      <4>3. text(N) \in Documents
        BY <1>1, <3>4, <3>5, <4>1, DocumentSlice
      <4>4. Len(text(N)) = Len(region) - start(N)
        BY <1>1, <3>4, <3>5, <4>1, <4>2, SliceFacts
      <4>. QED  BY <4>3, <4>4
    <3>8. at + start(N) \in Nat
      BY <3>4
    <3>9. AnalyzeCell(text(N), at + start(N), boundary(N)).end = at + start(N) + Len(text(N))
      <4> DEFINE begin == at + start(N)
      <4>1. begin \in Nat
        BY <3>8
      <4> HIDE DEF begin
      <4>2. AnalyzeCell(text(N), begin, boundary(N)).end = begin + Len(text(N))
        BY <3>6, <3>7, <4>1, AnalyzedCell
      <4>. QED  BY <4>2 DEF begin
    <3>. QED  BY <1>1, <3>4, <3>7, <3>9
  <2> HIDE DEF analyzed, N, text, start, boundary
  <2>6. Len(analyzed) = N
        /\ \A i \in 1 .. N : analyzed[i] = AnalyzeCell(text(i), at + start(i), boundary(i))
    BY <2>1, <2>2
  <2>7. ASSUME NEW i \in 1 .. N
        PROVE  /\ Settled(analyzed[i])
               /\ boundary(i) = "EOC" => analyzed[i].boundary = "EOC"
    BY <2>3, <2>6, AnalyzedSettled
  <2>8. ASSUME NEW i \in 1 .. N
        PROVE  analyzed[i].boundary = "EOC" \/ (i = N /\ analyzed[i].end = at + Len(region))
    <3>1. CASE i = N
      <4>1. N > 0
        BY <2>1, <3>1
      <4>. QED  BY <2>5, <2>6, <3>1, <4>1
    <3>2. CASE i # N
      BY <2>4, <2>7, <3>2
    <3>. QED  BY <3>1, <3>2
  <2>9. OpenEnded(analyzed, at + Len(region))
    BY <2>6, <2>7, <2>8 DEF OpenEnded
  <2>. QED  BY <2>6, <2>7, <2>9 DEF analyzed, boundary
<1>. QED  BY <1>2, <1>3

\* The last cell ends as its region does.
LEMMA LastCellEndsText ==
  ASSUME NEW region \in Documents, Plain(region), Frame(region).fatal = "none",
         CellCount(Frame(region), region) > 0, EndsWithNewline(region)
  PROVE  EndsWithNewline(CellText(Frame(region), region, CellCount(Frame(region), region)))
<1> DEFINE N == CellCount(Frame(region), region)
           start == CellStartAt(Frame(region), region, N)
<1>1. region \in Text /\ Len(region) \in Nat
  BY DocumentsAssumption DEF Text
<1>2. CellText(Frame(region), region, N) = Slice(region, start, Len(region))
  BY DEF CellText, CellEndAt
<1>3. start < Len(region)
  BY LastCellAssumption DEF LastCellHeld
<1>4. start \in Nat
  BY LastCellStart
<1> DEFINE text == Slice(region, start, Len(region))
<1> HIDE DEF start, N
<1>5. /\ text \in Text /\ Len(text) = Len(region) - start
      /\ \A k \in 1 .. Len(region) - start : text[k] = region[start + k]
  <2>1. start <= Len(region) /\ Len(region) <= Len(region)
    BY <1>1, <1>3, <1>4
  <2>. QED  BY <1>1, <1>4, <2>1, SliceFacts
<1> HIDE DEF text
<1>6. /\ Len(text) \in 1 .. Len(region) - start
      /\ start + Len(text) = Len(region)
  BY <1>1, <1>3, <1>4, <1>5
<1>7. text[Len(text)] = region[Len(region)]
  BY <1>5, <1>6
<1>8. text # <<>>
  BY <1>6
<1>9. EndsWithNewline(text)
  BY <1>7, <1>8 DEF EndsWithNewline
<1>. QED  BY <1>2, <1>9 DEF N, text

\* A region that counts as ended leaves no cell open.
LEMMA RegionCloses ==
  ASSUME NEW region \in Documents, Plain(region), NEW at \in Nat, ~ AnalyzeRegionPanics(region),
         EndsAtConfirmedBoundary(region)
  PROVE  Closed(AnalyzeRegion(region, at))
<1> DEFINE analyzed == AnalyzeRegion(region, at)
           N == CellCount(Frame(region), region)
<1>1. region \in Text /\ Len(region) \in Nat
  BY DocumentsAssumption DEF Text
<1>2. OpenEnded(analyzed, at + Len(region))
  BY RegionOpenEnded
<1>3. N \in Nat /\ Len(analyzed) = N
  <2>1. CASE Frame(region).fatal # "none"
    BY <2>1 DEF CellCount, AnalyzeRegion, RegionCells
  <2>2. CASE Frame(region).fatal = "none"
    <3>1. N \in Nat
      BY <2>2, RegionEnds
    <3>. QED  BY <2>2, <3>1 DEF AnalyzeRegion, RegionCells
  <2>. QED  BY <2>1, <2>2
<1>4. CASE Blank(region)
  <2>1. Len(analyzed) = 0
    BY <1>3, <1>4, BlankAssumption DEF BlankHasNoCell
  <2>. QED  BY <2>1 DEF Closed
<1>5. CASE ~ Blank(region)
  <2>1. AllConfirmed(Frame(region), region)
    BY <1>5 DEF EndsAtConfirmedBoundary
  <2>2. /\ Frame(region).fatal = "none" /\ ~ Frame(region).diagnosed /\ ~ Frame(region).incomplete
        /\ \/ Frame(region).cells = <<>>
           \/ Frame(region).cells # <<>> /\ Frame(region).cells[Len(Frame(region).cells)].semi
           \/ EndsWithNewline(region)
    BY <2>1 DEF AllConfirmed
  <2>3. N = Len(Frame(region).cells)
    <3>1. Len(Frame(region).cells) \in Nat
      BY FrameAssumption
    <3>2. N = Len(Frame(region).cells) + 0
      BY <2>2 DEF CellCount
    <3>. QED  BY <3>1, <3>2
  <2>4. N > 0 => CellBoundary(Frame(region), region, N) = "EOC"
    <3> SUFFICES ASSUME N > 0 PROVE CellBoundary(Frame(region), region, N) = "EOC"
      OBVIOUS
    <3>1. CASE Frame(region).cells[N].semi
      BY <2>2, <3>1 DEF CellBoundary
    <3>2. CASE EndsWithNewline(region)
      <4>1. EndsWithNewline(CellText(Frame(region), region, N))
        BY <1>1, <2>2, <3>2, LastCellEndsText
      <4>. QED  BY <2>2, <4>1 DEF CellBoundary
    <3>3. CASE Frame(region).cells = <<>>
      BY <2>3, <3>3
    <3>. QED  BY <2>2, <2>3, <3>1, <3>2, <3>3
  <2>5. ASSUME NEW i \in 1 .. Len(analyzed)
        PROVE  Settled(analyzed[i]) /\ analyzed[i].boundary = "EOC"
    <3>1. CellBoundary(Frame(region), region, i) = "EOC"
      <4>1. CASE i = N
        BY <1>3, <2>4, <4>1
      <4>2. CASE i # N
        BY <4>2, InnerBoundary
      <4>. QED  BY <4>1, <4>2
    <3>2. analyzed[i].boundary = "EOC"
      BY <2>2, <3>1, RegionOpenEnded
    <3>. QED  BY <1>2, <3>2 DEF OpenEnded
  <2>. QED  BY <2>5 DEF Closed
<1>. QED  BY <1>4, <1>5

-----------------------------------------------------------------------------
(* What is kept of the old cells. *)

\* The cells in front of the region are all ended: an open last cell is in
\* front of it only if the edit is behind its end, which is the end of the text.
LEMMA PrefixCloses ==
  ASSUME OpenInv, NEW edit, WellFormed(edit), Applicable(edit, source)
  PROVE  Closed(SubSeq(cells, 1, FirstAffectedCell(edit) - 1))
<1> DEFINE first == FirstAffectedCell(edit)
           prefix == SubSeq(cells, 1, first - 1)
<1>1. /\ Len(source) \in Nat /\ cells \in Seq(Cell) /\ Len(cells) \in Nat
      /\ \A i \in 1 .. Len(cells) : cells[i].end \in Nat
  BY SnapshotTiled DEF OpenInv
<1>2. /\ first \in 1 .. Len(cells) + 1
      /\ \A i \in 1 .. Len(cells) : i < first =>
           /\ cells[i].end <= edit.start
           /\ cells[i].end = edit.start => cells[i].boundary = "EOC"
  BY FirstAffected DEF OpenInv
<1>3. edit.start \in Nat /\ edit.start <= Len(source)
  BY DEF WellFormed, Edit, Applicable
<1> HIDE DEF first
<1>4. Len(prefix) = first - 1 /\ \A i \in 1 .. first - 1 : prefix[i] = cells[i]
  <2>1. \A i \in 1 .. first - 1 : cells[i] \in Cell
    BY <1>1, <1>2
  <2>2. first - 1 \in Int /\ 1 \in Int
    BY <1>1, <1>2
  <2>3. /\ Len(prefix) = IF 1 <= first - 1 THEN first - 1 - 1 + 1 ELSE 0
        /\ \A i \in 1 .. first - 1 - 1 + 1 : prefix[i] = cells[1 + i - 1]
    BY <2>1, <2>2, SubSeqProperties
  <2>. QED  BY <1>1, <1>2, <2>3
<1>5. ASSUME NEW i \in 1 .. first - 1
      PROVE  Settled(cells[i]) /\ cells[i].boundary = "EOC"
  <2>1. i \in 1 .. Len(cells) /\ i < first
    BY <1>1, <1>2
  <2>2. /\ Settled(cells[i])
        /\ cells[i].boundary = "EOC" \/ (i = Len(cells) /\ cells[i].end = Len(source))
    BY <2>1 DEF OpenInv, OpenEnded
  <2>3. cells[i].end <= edit.start /\ (cells[i].end = edit.start => cells[i].boundary = "EOC")
    BY <1>2, <2>1
  <2>4. cells[i].end = Len(source) => cells[i].end = edit.start
    BY <1>1, <1>3, <2>1, <2>3
  <2>. QED  BY <2>2, <2>3, <2>4
<1>6. Closed(prefix)
  BY <1>4, <1>5 DEF Closed
<1>. QED  BY <1>6 DEF first

\* The region in front of a kept suffix counts as ended.
LEMMA SuffixBehindBoundary ==
  ASSUME IInv, NEW edit, NEW new, NEW first \in 1 .. Len(cells) + 1,
         ReusableSuffix(edit, new, first) <= Len(cells)
  PROVE  EndsAtConfirmedBoundary(Slice(new, RegionStart(first),
                                       RebuildEnd(edit, new, ReusableSuffix(edit, new, first))))
<1> DEFINE kept == { i \in first + 1 .. Len(cells) : Reusable(edit, new, first, i) }
           suffix == ReusableSuffix(edit, new, first)
<1>1. Len(cells) \in Nat
  BY SnapshotTiled
<1>2. kept \subseteq Nat
  BY <1>1
<1>3. suffix = SmallestOf(kept, Len(cells) + 1)
  BY DEF ReusableSuffix
<1>4. suffix \in kept
  <2> HIDE DEF kept, suffix
  <2>1. /\ kept = {} => suffix = Len(cells) + 1
        /\ kept # {} => suffix \in kept
    BY <1>2, <1>3, Smallest
  <2>2. suffix # Len(cells) + 1
    BY <1>1 DEF suffix
  <2>. QED  BY <2>1, <2>2
<1>5. Reusable(edit, new, first, suffix)
  BY <1>4
<1>6. RebuildEnd(edit, new, suffix) = Shift(edit, cells[suffix].start)
  BY DEF RebuildEnd
<1>. QED  BY <1>5, <1>6 DEF Reusable

\* Moving the cells of the suffix moves the end of an open one to the end of
\* the new text.
LEMMA SuffixOpenEnded ==
  ASSUME OpenInv, NEW edit, WellFormed(edit), Applicable(edit, source),
         NEW first \in 1 .. Len(cells) + 1,
         NEW new, new = Apply(edit, source),
         NEW suffix, suffix = ReusableSuffix(edit, new, first),
         NEW moved, moved = [i \in 1 .. Len(cells) + 1 - suffix |->
                               Shifted(edit, cells[suffix + i - 1])]
  PROVE  OpenEnded(moved, Len(new))
<1>1. /\ source \in Text /\ Len(source) \in Nat
      /\ cells \in Seq(Cell) /\ Len(cells) \in Nat
      /\ \A i \in 1 .. Len(cells) : /\ cells[i] \in Cell
                                    /\ cells[i].start \in Nat
                                    /\ cells[i].end \in Nat
      /\ Tiled(cells, 0, Len(source), source)
  BY SnapshotTiled DEF OpenInv
<1>2. /\ suffix \in first .. Len(cells) + 1
      /\ suffix <= Len(cells) =>
           /\ suffix \in 1 .. Len(cells)
           /\ Shift(edit, cells[suffix].start) \in Nat
           /\ Len(source) - cells[suffix].start = Len(new) - Shift(edit, cells[suffix].start)
  BY SuffixFacts DEF OpenInv
<1>3. Len(new) \in Nat
  BY <1>1, ApplyFacts DEF Text
<1>4. CASE ~ (suffix <= Len(cells))
  <2>1. Len(cells) + 1 - suffix = 0
    BY <1>1, <1>2, <1>4
  <2>2. \A i \in 1 .. Len(moved) : FALSE
    BY <2>1
  <2>. QED  BY <2>2 DEF OpenEnded
<1>5. CASE suffix <= Len(cells)
  <2> DEFINE N == Len(cells) + 1 - suffix
             o == cells[suffix].start
  <2>1. /\ N \in Nat /\ suffix + N - 1 = Len(cells)
        /\ \A i \in 1 .. N : suffix + i - 1 \in 1 .. Len(cells)
        /\ \A i \in 1 .. N : suffix + i - 1 = Len(cells) => i = N
    <3> DEFINE L == Len(cells)
    <3>1. L \in Nat /\ suffix \in 1 .. L
      BY <1>1, <1>2, <1>5
    <3> HIDE DEF L
    <3>2. L + 1 - suffix \in Nat /\ suffix + (L + 1 - suffix) - 1 = L
      BY <3>1
    <3>3. ASSUME NEW i \in 1 .. L + 1 - suffix
          PROVE  suffix + i - 1 \in 1 .. L /\ (suffix + i - 1 = L => i = L + 1 - suffix)
      BY <3>1
    <3>. QED  BY <3>2, <3>3 DEF L
  <2>2. Len(moved) = N /\ \A i \in 1 .. N : moved[i] = Shifted(edit, cells[suffix + i - 1])
    BY <2>1
  <2>3. o \in Nat /\ o <= Len(source)
    <3>1. cells[suffix].start <= cells[suffix].end /\ cells[suffix].end <= Len(source)
      BY <1>1, <1>2, <1>5 DEF Tiled
    <3>. QED  BY <1>1, <1>2, <1>5, <3>1
  <2>4. Shift(edit, Len(source)) = Len(new)
    <3>1. Len(source) - o = Len(Apply(edit, source)) - Shift(edit, o) /\ Shift(edit, o) \in Nat
      BY <1>2, <1>5
    <3> HIDE DEF o
    <3>2. Shift(edit, Len(source)) = Shift(edit, o) + (Len(source) - o)
      BY <1>1, <2>3, <3>1, Len(source) <= Len(source), UniformShift
    <3>. QED  BY <1>1, <1>3, <2>3, <3>1, <3>2
  <2>5. ASSUME NEW k \in 1 .. Len(cells)
        PROVE  /\ Shifted(edit, cells[k]).boundary = cells[k].boundary
               /\ Shifted(edit, cells[k]).state = cells[k].state
               /\ Shifted(edit, cells[k]).end = Shift(edit, cells[k].end)
    BY <1>1 DEF Shifted, Cell
  <2> HIDE DEF N
  <2>6. ASSUME NEW i \in 1 .. N
        PROVE  /\ Settled(moved[i])
               /\ moved[i].boundary = "EOC" \/ (i = N /\ moved[i].end = Len(new))
    <3>1. PICK k \in 1 .. Len(cells) : k = suffix + i - 1
      BY <2>1
    <3>2. moved[i] = Shifted(edit, cells[k])
      BY <2>2, <3>1
    <3>3. /\ Settled(cells[k])
          /\ cells[k].boundary = "EOC" \/ (k = Len(cells) /\ cells[k].end = Len(source))
      BY DEF OpenInv, OpenEnded
    <3>4. k = Len(cells) => i = N
      BY <2>1, <3>1
    <3>. QED  BY <2>4, <2>5, <3>2, <3>3, <3>4 DEF Settled
  <2>. QED  BY <2>2, <2>6 DEF OpenEnded
<1>. QED  BY <1>4, <1>5

-----------------------------------------------------------------------------
(* The invariant is kept. *)

\* An operation that succeeds: the prefix and, if cells are kept behind it, the
\* region are ended; what comes last reaches to the end of the new text.
LEMMA SuccessOpenEnded ==
  ASSUME OpenInv, NEW edit, WellFormed(edit),
         NEW first, NEW suffix, NEW from, NEW to, NEW region,
         Success(edit, first, suffix, from, to, region), Plain(source')
  PROVE  OpenEnded(cells', Len(source'))
<1> DEFINE new == Apply(edit, source)
           prefix == SubSeq(cells, 1, first - 1)
           rebuilt == AnalyzeRegion(region, from)
           moved == [i \in 1 .. Len(cells) + 1 - suffix |->
                       Shifted(edit, cells[suffix + i - 1])]
<1>1. Applicable(edit, source) /\ first = FirstAffectedCell(edit)
      /\ suffix = ReusableSuffix(edit, new, first)
      /\ from = RegionStart(first) /\ to = RebuildEnd(edit, new, suffix)
      /\ region = Slice(new, from, to) /\ ~ (from > to) /\ ~ AnalyzeRegionPanics(region)
      /\ source' = new /\ source' \in Documents /\ cells' = prefix \o rebuilt \o moved
  BY DEF Success
<1>2. IInv /\ new \in Documents /\ new \in Text /\ Len(new) \in Nat /\ Len(cells) \in Nat
  BY <1>1, DocumentsAssumption, SnapshotTiled DEF Text, OpenInv
<1>3. first \in 1 .. Len(cells) + 1
  BY <1>1, <1>2, FirstAffected
<1>4. from \in Nat /\ Tiled(prefix, 0, from, new)
  BY <1>1, <1>2, PrefixTiled
<1>5. Closed(prefix)
  BY <1>1, PrefixCloses
<1>6. /\ to \in Nat /\ to <= Len(new)
      /\ Tiled(moved, to, Len(new), new)
      /\ Len(moved) = Len(cells) + 1 - suffix
      /\ suffix \in first .. Len(cells) + 1
      /\ OpenEnded(moved, Len(new))
  <2> HIDE DEF new
  <2>1. new = Apply(edit, source)
    BY DEF new
  <2>2. suffix \in first .. Len(cells) + 1
    BY <1>1, <1>2, <1>3, <2>1, SuffixFacts
  <2>3. moved = [i \in 1 .. Len(cells) + 1 - suffix |->
                   Shifted(edit, cells[suffix + i - 1])]
    OBVIOUS
  <2> HIDE DEF moved
  <2>4. /\ RebuildEnd(edit, new, suffix) \in Nat
        /\ RebuildEnd(edit, new, suffix) <= Len(new)
        /\ Tiled(moved, RebuildEnd(edit, new, suffix), Len(new), new)
        /\ Len(moved) = Len(cells) + 1 - suffix
    BY <1>1, <1>2, <1>3, <2>1, <2>3, SuffixTiled
  <2>5. OpenEnded(moved, Len(new))
    BY <1>1, <1>3, <2>1, <2>3, SuffixOpenEnded
  <2>. QED  BY <1>1, <2>2, <2>4, <2>5
<1>7. suffix <= Len(cells) => EndsAtConfirmedBoundary(region)
  BY <1>1, <1>2, <1>3, SuffixBehindBoundary
<1>8. ~ (suffix <= Len(cells)) => to = Len(new) /\ Len(moved) = 0
  <2> SUFFICES ASSUME ~ (suffix <= Len(cells)) PROVE to = Len(new) /\ Len(moved) = 0
    OBVIOUS
  <2>1. RebuildEnd(edit, new, suffix) = Len(new)
    BY DEF RebuildEnd
  <2>2. Len(cells) + 1 - suffix = 0
    BY <1>2, <1>3, <1>6
  <2>. QED  BY <1>1, <1>6, <2>1, <2>2
<1> HIDE DEF new, prefix, rebuilt, moved
<1>9. from <= to
  BY <1>1, <1>4, <1>6
<1>10. region \in Documents /\ from + Len(region) = to /\ Plain(region)
  <2>1. Slice(new, from, to) \in Documents
    BY <1>2, <1>4, <1>6, <1>9, DocumentSlice
  <2>2. Len(Slice(new, from, to)) = to - from
    BY <1>2, <1>4, <1>6, <1>9, SliceFacts
  <2>3. Plain(Slice(new, from, to))
    BY <1>1, <1>2, <1>4, <1>6, <1>9, PlainSlice
  <2>. QED  BY <1>1, <1>4, <1>6, <2>1, <2>2, <2>3
<1>11. rebuilt \in Seq(Cell)
  <2>1. from + Len(region) <= Len(new) /\ Slice(new, from, from + Len(region)) = region
    BY <1>1, <1>6, <1>10
  <2>2. Tiled(AnalyzeRegion(region, from), from, from + Len(region), new)
    BY <1>1, <1>2, <1>4, <1>10, <2>1, RegionTiled
  <2>. QED  BY <2>2 DEF rebuilt, Tiled
<1>12. OpenEnded(rebuilt, to)
  BY <1>1, <1>4, <1>10, RegionOpenEnded DEF rebuilt
<1>13. prefix \in Seq(Cell) /\ moved \in Seq(Cell)
  BY <1>4, <1>6 DEF Tiled
<1>14. CASE suffix <= Len(cells)
  <2>1. Closed(rebuilt)
    BY <1>1, <1>4, <1>7, <1>10, <1>14, RegionCloses DEF rebuilt
  <2>2. Closed(prefix \o rebuilt) /\ prefix \o rebuilt \in Seq(Cell)
    BY <1>5, <1>11, <1>13, <2>1, JoinedClosed, ConcatProperties
  <2>3. OpenEnded((prefix \o rebuilt) \o moved, Len(new))
    BY <1>6, <1>13, <2>2, JoinedOpenEnded
  <2>. QED  BY <1>1, <2>3
<1>15. CASE ~ (suffix <= Len(cells))
  <2>1. OpenEnded(prefix \o rebuilt, Len(new)) /\ prefix \o rebuilt \in Seq(Cell)
    BY <1>5, <1>8, <1>11, <1>12, <1>13, <1>15, JoinedOpenEnded, ConcatProperties
  <2>2. (prefix \o rebuilt) \o moved = prefix \o rebuilt
    BY <1>8, <1>13, <1>15, <2>1, JoinedWithNone
  <2>. QED  BY <1>1, <2>1, <2>2
<1>. QED  BY <1>14, <1>15

\* One operation, whatever it comes to.
LEMMA EditKeepsOpenEnded ==
  ASSUME OpenInv, NEW edit, WellFormed(edit), ApplyEdit(edit), Plain(source')
  PROVE  OpenEnded(cells, Len(source))'
<1>1. CASE UNCHANGED <<source, cells, reparsed>> /\ result' \in {"rejected", "panicked"}
  BY <1>1 DEF OpenInv, OpenEnded
<1>2. CASE \E first, suffix, from, to, region : Success(edit, first, suffix, from, to, region)
  BY <1>2, SuccessOpenEnded
<1>. QED  BY <1>1, <1>2, Outcomes

LEMMA InitOpenInv == Init /\ Plain(source) => OpenInv
<1> SUFFICES ASSUME Init, Plain(source) PROVE OpenInv
  OBVIOUS
<1>1. IInv
  BY InitInvariant
<1>2. source \in Documents /\ Len(source) \in Nat /\ 0 \in Nat /\ 0 + Len(source) = Len(source)
  BY DocumentsAssumption DEF Init
<1>3. cells = AnalyzeRegion(source, 0) /\ ~ AnalyzeRegionPanics(source)
  BY DEF Init
<1>4. OpenEnded(AnalyzeRegion(source, 0), 0 + Len(source))
  BY <1>2, <1>3, RegionOpenEnded
<1>. QED  BY <1>1, <1>2, <1>3, <1>4 DEF OpenInv

LEMMA NextOpenInv == OpenInv /\ [Next]_vars /\ Plain(source)' => OpenInv'
<1> SUFFICES ASSUME OpenInv, [Next]_vars, Plain(source') PROVE OpenInv'
  OBVIOUS
<1>1. IInv'
  BY NextInvariant DEF OpenInv
<1>2. Len(source) \in Nat
  BY SnapshotTiled DEF OpenInv
<1>3. CASE Insert
  <2>1. PICK at \in 0 .. Len(source) + 1, text \in Snippets : ApplyEdit(Insertion(at, text))
    BY <1>3 DEF Insert
  <2>2. WellFormed(Insertion(at, text))
    BY <1>2, EditsWellFormed, SnippetsAssumption
  <2>. QED  BY <1>1, <2>1, <2>2, EditKeepsOpenEnded DEF OpenInv
<1>4. CASE Delete
  <2>1. PICK start, end \in 0 .. Len(source) + 1 :
          start <= end /\ ApplyEdit(Deletion(start, end))
    BY <1>4 DEF Delete
  <2>2. WellFormed(Deletion(start, end))
    BY <1>2, <2>1, EditsWellFormed, SnippetsAssumption
  <2>. QED  BY <1>1, <2>1, <2>2, EditKeepsOpenEnded DEF OpenInv
<1>5. CASE AppendText
  <2>1. PICK text \in Snippets : ApplyEdit(Insertion(Len(source), text))
    BY <1>5 DEF AppendText, AppendOf
  <2>2. WellFormed(Insertion(Len(source), text))
    BY <1>2, EditsWellFormed, SnippetsAssumption
  <2>. QED  BY <1>1, <2>1, <2>2, EditKeepsOpenEnded DEF OpenInv
<1>6. CASE UNCHANGED vars
  BY <1>1, <1>6 DEF vars, OpenInv, OpenEnded
<1>. QED  BY <1>3, <1>4, <1>5, <1>6 DEF Next

\* The aggregate may look at the last cell only for Incomplete.
LEMMA OpenEndedSpeaks ==
  ASSUME OpenInv
  PROVE  OnlyLastOpen
<1>1. /\ Len(cells) \in Nat
      /\ \A i \in 1 .. Len(cells) : cells[i] \in Cell
  BY SnapshotTiled DEF OpenInv
<1>2. \A i \in 1 .. Len(cells) : Settled(cells[i]) /\ (cells[i].boundary = "EOC" \/ i = Len(cells))
  BY DEF OpenInv, OpenEnded
<1>3. OnlyLastUnconfirmed
  BY <1>1, <1>2 DEF OnlyLastUnconfirmed
<1>4. ASSUME AggregateState = "Complete", NEW i \in 1 .. Len(cells)
      PROVE  cells[i].state = "Complete"
  <2>1. /\ \A k \in 1 .. Len(cells) : cells[k].state # "Invalid"
        /\ cells[Len(cells)].state # "Incomplete"
    BY <1>4 DEF AggregateState
  <2>2. cells[i].state \in {"Complete", "Incomplete", "Invalid"}
    BY <1>1 DEF Cell, CellStates
  <2>3. cells[i].state # "Incomplete"
    <3>1. CASE i = Len(cells)
      BY <2>1, <3>1
    <3>2. CASE i # Len(cells)
      BY <1>2, <3>2 DEF Settled
    <3>. QED  BY <3>1, <3>2
  <2>. QED  BY <2>1, <2>2, <2>3
<1>. QED  BY <1>3, <1>4 DEF OnlyLastOpen, CompleteSpeaksForAll

-----------------------------------------------------------------------------
\* As long as the document holds no form feed and no block comment that leads a
\* line going on behind it, every cell but the last is ended after any edits,
\* and a document that state() calls Complete has complete cells only
\* (NativeRealtimeParser).
THEOREM OnlyLastStaysOpen == Spec /\ [](Plain(source)) => []OnlyLastOpen
<1>1. Spec /\ [](Plain(source)) => []OpenInv
  BY InitOpenInv, NextOpenInv, PTL DEF Spec
<1>2. OpenInv => OnlyLastOpen
  BY OpenEndedSpeaks
<1>. QED  BY <1>1, <1>2, PTL

-----------------------------------------------------------------------------
(* Where an insertion can panic: it never shortens the text, so that a region *)
(* that starts where a cell of the old text did, or at its end, starts in the *)
(* new one; what is left is the framing of a region whose cells are not in    *)
(* the order of their ends.                                                   *)

\* Some part of a text is framed with a cell that ends before the one in front.
HoldsOverlap(text) ==
  \E from, to \in 0 .. Len(text) : from <= to /\ AnalyzeRegionPanics(Slice(text, from, to))

\* An insertion panics on such a text only.
InsertionsPanicOnOverlap ==
  [][result' = "panicked" =>
       \A at \in Nat, text \in Snippets :
         ApplyEdit(Insertion(at, text)) => HoldsOverlap(Apply(Insertion(at, text), source))]_vars

\* The region that an insertion rebuilds lies in the new text.
LEMMA RegionInText ==
  ASSUME IInv, NEW at \in Nat, NEW text \in Text, at <= Len(source),
         NEW edit, edit = Insertion(at, text), NEW new, new = Apply(edit, source),
         NEW first, first = FirstAffectedCell(edit),
         NEW suffix, suffix = ReusableSuffix(edit, new, first)
  PROVE  /\ RegionStart(first) \in Nat /\ RebuildEnd(edit, new, suffix) \in Nat
         /\ RegionStart(first) <= RebuildEnd(edit, new, suffix)
         /\ RebuildEnd(edit, new, suffix) <= Len(new)
<1>1. /\ source \in Text /\ Len(source) \in Nat /\ Len(cells) \in Nat
      /\ \A i \in 1 .. Len(cells) : cells[i].start \in Nat /\ cells[i].end \in Nat
      /\ Tiled(cells, 0, Len(source), source)
  BY SnapshotTiled
<1>2. WellFormed(edit) /\ Applicable(edit, source)
  BY DEF Insertion, WellFormed, Edit, Applicable
<1>3. first \in 1 .. Len(cells) + 1
  BY <1>2, FirstAffected
<1>4. new \in Text /\ Len(source) <= Len(new) /\ Len(new) \in Nat
  BY <1>1, <1>2, ApplyFacts DEF Insertion
<1>5. RegionStart(first) \in Nat /\ RegionStart(first) <= Len(source)
  BY <1>1, <1>3 DEF RegionStart, Tiled
<1> DEFINE kept == { i \in first + 1 .. Len(cells) : Reusable(edit, new, first, i) }
<1>6. suffix = Len(cells) + 1 \/ suffix \in kept
  <2>1. suffix = SmallestOf(kept, Len(cells) + 1)
    BY DEF ReusableSuffix
  <2>2. kept \subseteq Nat
    BY <1>1, <1>3
  <2> HIDE DEF kept
  <2>3. /\ kept = {} => SmallestOf(kept, Len(cells) + 1) = Len(cells) + 1
        /\ kept # {} => SmallestOf(kept, Len(cells) + 1) \in kept
    BY <2>2, Smallest
  <2>. QED  BY <2>1, <2>3
<1>7. /\ RebuildEnd(edit, new, suffix) \in Nat
      /\ RebuildEnd(edit, new, suffix) <= Len(new)
  BY <1>2, <1>3, SuffixTiled
<1>8. CASE suffix = Len(cells) + 1
  BY <1>1, <1>4, <1>5, <1>7, <1>8 DEF RebuildEnd
<1>9. CASE suffix \in kept
  <2>1. RebuildEnd(edit, new, suffix) = Shift(edit, cells[suffix].start)
    BY <1>1, <1>3, <1>9 DEF RebuildEnd
  <2>2. Shift(edit, cells[suffix].start) >= RegionStart(first)
    BY <1>9 DEF Reusable
  <2>. QED  BY <1>5, <1>7, <2>1, <2>2
<1>. QED  BY <1>5, <1>6, <1>7, <1>8, <1>9

\* One insertion: a panic names a region of the new text, in its order.
LEMMA InsertionPanics ==
  ASSUME IInv, NEW at \in Nat, NEW text \in Snippets,
         ApplyEdit(Insertion(at, text)), result' = "panicked"
  PROVE  HoldsOverlap(Apply(Insertion(at, text), source))
<1> DEFINE edit   == Insertion(at, text)
           new    == Apply(edit, source)
           first  == FirstAffectedCell(edit)
           suffix == ReusableSuffix(edit, new, first)
           from   == RegionStart(first)
           to     == RebuildEnd(edit, new, suffix)
<1>1. text \in Text
  BY SnippetsAssumption DEF Text
<1>2. Rebuilt(edit)
  BY DEF ApplyEdit, Rejected
<1>3. at <= Len(source) /\ new \in Documents
  BY <1>2 DEF Rebuilt, Applicable, Insertion
<1>4. from \in Nat /\ to \in Nat /\ from <= to /\ to <= Len(new) /\ Len(new) \in Nat
  BY <1>1, <1>3, RegionInText, DocumentsAssumption
<1>5. AnalyzeRegionPanics(Slice(new, from, to))
  <2>1. from > to \/ AnalyzeRegionPanics(Slice(new, from, to))
    BY <1>2 DEF Rebuilt
  <2> QED BY <1>4, <2>1
<1> HIDE DEF from, to, new
<1>6. HoldsOverlap(new)
  BY <1>4, <1>5 DEF HoldsOverlap
<1>. QED  BY <1>6 DEF new

\* Whatever was done to the document before, text put into it, anywhere, never
\* makes apply_edit slice from behind to before (realtime.rs:186), the panic
\* that Realtime_panic finds after a deletion.  It panics only where framing
\* some part of the new text puts one end of a cell before another
\* (analyze_region), which no assumption rules out here.
THEOREM InsertionsPanicOnlyOnOverlap == Spec => InsertionsPanicOnOverlap
<1>1. IInv => [result' = "panicked" =>
                 \A at \in Nat, text \in Snippets :
                   ApplyEdit(Insertion(at, text)) =>
                     HoldsOverlap(Apply(Insertion(at, text), source))]_vars
  <2> SUFFICES ASSUME IInv, result' = "panicked", NEW at \in Nat, NEW text \in Snippets,
                      ApplyEdit(Insertion(at, text))
               PROVE  HoldsOverlap(Apply(Insertion(at, text), source))
    OBVIOUS
  <2> QED BY InsertionPanics
<1>. QED  BY <1>1, Invariant, PTL DEF InsertionsPanicOnOverlap

\* What append makes of the text.
LEMMA Appended ==
  ASSUME NEW d \in Text, NEW text \in Text
  PROVE  Apply(Insertion(Len(d), text), d) = d \o text
<1>1. Slice(d, 0, Len(d)) = d /\ Slice(d, Len(d), Len(d)) = <<>>
  BY DEF Slice, Text
<1>2. d \o text \in Seq(STRING)
  BY DEF Text
<1>3. (d \o text) \o <<>> = d \o text
  BY <1>2
<1>. QED  BY <1>1, <1>3 DEF Apply, Insertion

\* append panics only when the text it makes has a block comment at the start of
\* a line that goes on behind it (NativeRealtimeParser::append, analyze_region),
\* whatever was done to the document before: for every framing that puts the
\* ends of cells in order in the texts without one (EndsAssumption).
THEOREM AppendsPanicOnlyBehindBlocks == Spec => PanicsOnlyBehindBlocks
<1>1. IInv => [result' = "panicked" =>
                 \A text \in Snippets : AppendOf(text) => BlockLeadsLine(source \o text)]_vars
  <2> SUFFICES ASSUME IInv, result' = "panicked", NEW text \in Snippets, AppendOf(text)
               PROVE  BlockLeadsLine(source \o text)
    OBVIOUS
  <2> DEFINE new == Apply(Insertion(Len(source), text), source)
  <2>1. source \in Text /\ text \in Text /\ Len(source) \in Nat
    BY SnapshotTiled, SnippetsAssumption DEF Text
  <2>2. ApplyEdit(Insertion(Len(source), text))
    BY DEF AppendOf
  <2>3. new \in Documents
    BY <2>2 DEF ApplyEdit, Rejected, Rebuilt
  <2>4. HoldsOverlap(new)
    BY <2>1, <2>2, InsertionPanics
  <2> HIDE DEF new
  <2>5. new \in Text /\ Len(new) \in Nat
    BY <2>3, DocumentsAssumption DEF Text
  <2>6. PICK from, to \in 0 .. Len(new) : from <= to /\ AnalyzeRegionPanics(Slice(new, from, to))
    BY <2>4 DEF HoldsOverlap
  <2>7. from \in Nat /\ to \in Nat /\ to <= Len(new)
    BY <2>5
  <2>8. Slice(new, from, to) \in Documents
    BY <2>3, <2>6, <2>7, DocumentSlice
  <2>9. BlockLeadsLine(Slice(new, from, to))
    BY <2>6, <2>8, EndsAssumption DEF EndsInOrder
  <2>10. BlockLeadsLine(new)
    BY <2>5, <2>6, <2>7, <2>9, BlocksOfSlice
  <2>11. new = source \o text
    BY <2>1, Appended DEF new
  <2> QED BY <2>10, <2>11
<1>. QED  BY <1>1, Invariant, PTL DEF PanicsOnlyBehindBlocks

=============================================================================
