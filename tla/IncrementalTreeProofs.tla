----------------------- MODULE IncrementalTreeProofs -----------------------
(***************************************************************************)
(* Proofs about IncrementalTree, for every set of documents and snippets,  *)
(* every encoding of symbols and every view that recovery makes of a text: *)
(* whatever sequence of edits and failures came before, the tree is that   *)
(* of the view of the current source.                                      *)
(***************************************************************************)
EXTENDS IncrementalTree, TextTheorems

-----------------------------------------------------------------------------
(* Slices put together again. *)

\* Two texts that agree in a range of one have the same slice there.
LEMMA SameSlice ==
  ASSUME NEW s \in Text, NEW t \in Text, NEW a \in Nat, NEW c \in Nat, NEW b \in Nat, NEW d \in Nat,
         a <= c, c <= Len(s), b <= d, d <= Len(t), c - a = d - b,
         \A k \in 1 .. c - a : s[a + k] = t[b + k]
  PROVE  Slice(s, a, c) = Slice(t, b, d)
<1>1. /\ Slice(s, a, c) \in Text /\ Len(Slice(s, a, c)) = c - a
      /\ \A k \in 1 .. c - a : Slice(s, a, c)[k] = s[a + k]
  BY SliceFacts
<1>2. /\ Slice(t, b, d) \in Text /\ Len(Slice(t, b, d)) = d - b
      /\ \A k \in 1 .. d - b : Slice(t, b, d)[k] = t[b + k]
  BY SliceFacts
<1> DEFINE x == Slice(s, a, c)
           y == Slice(t, b, d)
<1>3. x \in Text /\ y \in Text /\ Len(x) = Len(y) /\ \A k \in 1 .. Len(x) : x[k] = y[k]
  <2>1. \A k \in 1 .. c - a : x[k] = y[k]
    BY <1>1, <1>2
  <2>. QED  BY <1>1, <1>2, <2>1
<1> HIDE DEF x, y
<1>4. x = y
  BY <1>3, SameText
<1>. QED  BY <1>4 DEF x, y

\* The same at their ends.
LEMMA SameTail ==
  ASSUME NEW s \in Text, NEW t \in Text, NEW a \in Nat, NEW b \in Nat,
         a <= Len(s), b <= Len(t), Len(s) - a = Len(t) - b,
         \A k \in 1 .. Len(s) - a : s[a + k] = t[b + k]
  PROVE  Slice(s, a, Len(s)) = Slice(t, b, Len(t))
<1>1. Len(s) \in Nat /\ Len(t) \in Nat
  BY DEF Text
<1>2. /\ Slice(s, a, Len(s)) \in Text /\ Len(Slice(s, a, Len(s))) = Len(s) - a
      /\ \A k \in 1 .. Len(s) - a : Slice(s, a, Len(s))[k] = s[a + k]
  BY <1>1, Len(s) <= Len(s), SliceFacts
<1>3. /\ Slice(t, b, Len(t)) \in Text /\ Len(Slice(t, b, Len(t))) = Len(t) - b
      /\ \A k \in 1 .. Len(t) - b : Slice(t, b, Len(t))[k] = t[b + k]
  BY <1>1, Len(t) <= Len(t), SliceFacts
<1> DEFINE x == Slice(s, a, Len(s))
           y == Slice(t, b, Len(t))
<1>4. x \in Text /\ y \in Text /\ Len(x) = Len(y) /\ \A k \in 1 .. Len(x) : x[k] = y[k]
  BY <1>2, <1>3
<1> HIDE DEF x, y
<1>5. x = y
  BY <1>4, SameText
<1>. QED  BY <1>5 DEF x, y

\* A text cut in two is its two parts, and what is left of it when the second
\* is cut again.
LEMMA TwoParts ==
  ASSUME NEW d \in Text, NEW a \in Nat, NEW b \in Nat, NEW c \in Nat, a <= b, b <= c, c <= Len(d)
  PROVE  Slice(d, a, b) \o Slice(d, b, c) = Slice(d, a, c)
<1> DEFINE p == Slice(d, a, b)
           q == Slice(d, b, c)
           w == Slice(d, a, c)
<1>1. p \in Text /\ Len(p) = b - a /\ \A k \in 1 .. b - a : p[k] = d[a + k]
  <2>. QED  BY b <= Len(d), SliceFacts DEF Text
<1>2. q \in Text /\ Len(q) = c - b /\ \A k \in 1 .. c - b : q[k] = d[b + k]
  BY SliceFacts
<1>3. w \in Text /\ Len(w) = c - a /\ \A k \in 1 .. c - a : w[k] = d[a + k]
  <2>. QED  BY a <= c, SliceFacts
<1> HIDE DEF p, q, w
<1>4. /\ p \o q \in Text
      /\ Len(p \o q) = Len(p) + Len(q)
      /\ \A k \in 1 .. Len(p) + Len(q) :
           (p \o q)[k] = IF k <= Len(p) THEN p[k] ELSE q[k - Len(p)]
  BY <1>1, <1>2, ConcatProperties DEF Text
<1>5. ASSUME NEW k \in 1 .. c - a PROVE (p \o q)[k] = w[k]
  <2>1. k \in 1 .. Len(p) + Len(q) /\ w[k] = d[a + k]
    BY <1>1, <1>2, <1>3
  <2>2. CASE k <= b - a
    BY <1>1, <1>4, <2>1, <2>2
  <2>3. CASE ~ (k <= b - a)
    <3>1. k - (b - a) \in 1 .. c - b /\ b + (k - (b - a)) = a + k
      BY <2>3
    <3>2. (p \o q)[k] = q[k - (b - a)]
      BY <1>1, <1>4, <2>1, <2>3
    <3>. QED  BY <1>2, <2>1, <3>1, <3>2
  <2>. QED  BY <2>2, <2>3
<1>6. Len(p \o q) = Len(w) /\ \A k \in 1 .. Len(p \o q) : (p \o q)[k] = w[k]
  <2>1. Len(p \o q) = c - a
    BY <1>1, <1>2, <1>4
  <2>. QED  BY <1>3, <1>5, <2>1
<1>7. p \o q = w
  BY <1>3, <1>4, <1>6, SameText
<1>. QED  BY <1>7 DEF p, q, w

\* A text is the parts it is cut into.
LEMMA ThreeParts ==
  ASSUME NEW d \in Text, NEW a \in Nat, NEW b \in Nat, a <= b, b <= Len(d)
  PROVE  Slice(d, 0, a) \o Slice(d, a, b) \o Slice(d, b, Len(d)) = d
<1>1. Len(d) \in Nat /\ 0 \in Nat /\ 0 <= a /\ 0 <= b
  BY DEF Text
<1>2. Slice(d, 0, a) \o Slice(d, a, b) = Slice(d, 0, b)
  BY <1>1, TwoParts
<1>3. Slice(d, 0, b) \o Slice(d, b, Len(d)) = Slice(d, 0, Len(d))
  BY <1>1, TwoParts
<1>4. Slice(d, 0, Len(d)) = d
  <2> DEFINE w == Slice(d, 0, Len(d))
  <2>1. w \in Text /\ Len(w) = Len(d) - 0 /\ \A k \in 1 .. Len(d) - 0 : w[k] = d[0 + k]
    BY <1>1, 0 <= Len(d), Len(d) <= Len(d), SliceFacts
  <2> HIDE DEF w
  <2>2. Len(w) = Len(d) /\ \A k \in 1 .. Len(w) : w[k] = d[k]
    BY <1>1, <2>1
  <2>3. w = d
    BY <2>1, <2>2, SameText
  <2>. QED  BY <2>3 DEF w
<1>. QED  BY <1>2, <1>3, <1>4

-----------------------------------------------------------------------------
(* The edit that is computed between two views (input_edit_between). *)

Covers(old, new, edit) ==
  /\ edit.start <= edit.old_end /\ edit.start <= edit.new_end
  /\ Slice(old, 0, edit.start) = Slice(new, 0, edit.start)
  /\ Slice(old, edit.old_end, Len(old)) = Slice(new, edit.new_end, Len(new))
  /\ CharBoundary(old, edit.start) /\ CharBoundary(new, edit.start)
  /\ CharBoundary(old, edit.old_end) /\ CharBoundary(new, edit.new_end)

\* The edit covers every difference, and its ends are at characters; so a
\* parse that reads only what it covers reads the new view.
LEMMA EditSound ==
  ASSUME NEW old \in Text, NEW new \in Text, NEW edit \in InputEdits(old, new)
  PROVE  Covers(old, new, edit) /\ Reparsed(old, edit, new) = new
<1>1. PICK at \in Prefixes(old, new) : \E length \in Suffixes(old, new, at) :
        edit = [start |-> at, old_end |-> Len(old) - length, new_end |-> Len(new) - length]
  BY DEF InputEdits, Largest
<1>2. PICK length \in Suffixes(old, new, at) :
        edit = [start |-> at, old_end |-> Len(old) - length, new_end |-> Len(new) - length]
  BY <1>1
<1>3. Len(old) \in Nat /\ Len(new) \in Nat
  BY DEF Text
<1>4. /\ at \in Nat /\ length \in Nat
      /\ at + length <= Len(old) /\ at + length <= Len(new)
  BY <1>3 DEF Prefixes, Suffixes, Shorter, Cut
<1>5. /\ edit.start = at
      /\ edit.old_end = Len(old) - length /\ edit.old_end \in Nat
      /\ edit.new_end = Len(new) - length /\ edit.new_end \in Nat
      /\ at <= edit.old_end /\ at <= edit.new_end
      /\ edit.old_end <= Len(old) /\ edit.new_end <= Len(new)
      /\ edit.old_end + length = Len(old) /\ edit.new_end + length = Len(new)
  BY <1>2, <1>3, <1>4
<1>6. Slice(old, 0, at) = Slice(new, 0, at)
  <2>1. \A k \in 1 .. at - 0 : old[0 + k] = new[0 + k]
    BY <1>4 DEF Prefixes, Agree
  <2>2. 0 \in Nat /\ 0 <= at /\ at <= Len(old) /\ at <= Len(new)
    BY <1>3, <1>4
  <2>. QED  BY <1>4, <2>1, <2>2, SameSlice
<1>7. Slice(old, edit.old_end, Len(old)) = Slice(new, edit.new_end, Len(new))
  <2>1. ASSUME NEW k \in 1 .. length
        PROVE  old[edit.old_end + k] = new[edit.new_end + k]
    <3>1. length - k \in 0 .. length - 1
      BY <1>4
    <3>2. old[Len(old) - (length - k)] = new[Len(new) - (length - k)]
      BY <3>1 DEF Suffixes, AgreeFromEnd
    <3>3. /\ Len(old) - (length - k) = edit.old_end + k
          /\ Len(new) - (length - k) = edit.new_end + k
      BY <1>3, <1>4, <1>5
    <3>. QED  BY <3>2, <3>3
  <2>2. /\ edit.old_end <= Len(old) /\ edit.new_end <= Len(new)
        /\ Len(old) - edit.old_end = Len(new) - edit.new_end
        /\ \A k \in 1 .. Len(old) - edit.old_end : old[edit.old_end + k] = new[edit.new_end + k]
    <3>1. Len(old) - edit.old_end = length /\ Len(new) - edit.new_end = length
      BY <1>3, <1>4, <1>5
    <3>. QED  BY <1>5, <2>1, <3>1
  <2>. QED  BY <1>5, <2>2, SameTail
<1>8. Covers(old, new, edit)
  BY <1>2, <1>5, <1>6, <1>7 DEF Covers, Prefixes, Suffixes
<1>9. Reparsed(old, edit, new) = new
  <2>1. Slice(new, 0, at) \o Slice(new, at, edit.new_end) \o Slice(new, edit.new_end, Len(new)) = new
    BY <1>4, <1>5, ThreeParts
  <2>. QED  BY <1>5, <1>6, <1>7, <2>1 DEF Reparsed
<1>. QED  BY <1>8, <1>9

\* Its ends are offsets.
LEMMA EditTyped ==
  ASSUME NEW old \in Text, NEW new \in Text, NEW edit \in InputEdits(old, new)
  PROVE  edit \in [start : Nat, old_end : Nat, new_end : Nat]
<1>0. PICK at \in Prefixes(old, new) : \E length \in Suffixes(old, new, at) :
        edit = [start |-> at, old_end |-> Len(old) - length, new_end |-> Len(new) - length]
  BY DEF InputEdits, Largest
<1>1. PICK length \in Suffixes(old, new, at) :
        edit = [start |-> at, old_end |-> Len(old) - length, new_end |-> Len(new) - length]
  BY <1>0
<1>2. Len(old) \in Nat /\ Len(new) \in Nat
  BY DEF Text
<1>3. at \in Nat /\ Len(old) - length \in Nat /\ Len(new) - length \in Nat
  BY <1>2 DEF Prefixes, Suffixes, Shorter, Cut
<1>. QED  BY <1>1, <1>3

-----------------------------------------------------------------------------
(* The byte at which a symbol begins. *)

\* The equation Offset is defined by.
Begins(f, text, k) ==
  f = [i \in 0 .. k |-> IF i = 0 THEN 0 ELSE f[i - 1] + Len(Encoding[text[i]])]

LEMMA OffsetInNat ==
  ASSUME NEW text \in Documents, NEW k \in 0 .. Len(text)
  PROVE  Offset(text, k) \in Nat
<1> DEFINE D == 0 .. k
           size == [i \in 0 .. k |-> IF i = 0 THEN 0 ELSE Len(Encoding[text[i]])]
           m == [i \in D |-> i]
           stop == {0}
           base == [i \in D |-> 0]
           next == [i \in D |-> IF i = 0 THEN 0 ELSE i - 1]
           step == [p \in D \X Nat |-> p[2] + size[p[1]]]
<1>1. Len(text) \in Nat /\ k \in Nat /\ \A i \in 1 .. k : text[i] \in DOMAIN Encoding
  <2>1. text \in Seq(DOMAIN Encoding)
    BY EncodingAssumption
  <2>. QED  BY <2>1
<1>2. size \in [D -> Nat]
  <2>1. ASSUME NEW i \in D, i # 0 PROVE Len(Encoding[text[i]]) \in Nat
    <3>1. i \in 1 .. k
      BY <1>1, <2>1
    <3>2. Encoding[text[i]] \in Seq(STRING)
      BY <1>1, <3>1, EncodingAssumption
    <3>. QED  BY <3>2
  <2>. QED  BY <2>1
<1>3. Descends(D, Nat, m, stop, base, next, step)
  <2>1. m \in [D -> Nat] /\ stop \in SUBSET D /\ base \in [D -> Nat]
    BY <1>1
  <2>2. next \in [D -> D] /\ \A i \in D \ stop : m[next[i]] < m[i]
    BY <1>1
  <2>3. step \in [D \X Nat -> Nat]
    <3>. HIDE DEF size
    <3>1. ASSUME NEW p \in D \X Nat PROVE p[2] + size[p[1]] \in Nat
      <4>1. p[2] \in Nat /\ p[1] \in D
        OBVIOUS
      <4>2. size[p[1]] \in Nat
        BY <1>2, <4>1
      <4>. QED  BY <4>1, <4>2
    <3>. QED  BY <3>1
  <2>. HIDE DEF D, m, stop, base, next, step
  <2>. QED  BY <2>1, <2>2, <2>3 DEF Descends
<1>4. PICK f \in [D -> Nat] : \A i \in D :
        f[i] = IF i \in stop THEN base[i] ELSE step[<<i, f[next[i]]>>]
  <2>. HIDE DEF D, m, stop, base, next, step
  <2>. QED  BY <1>3, RecursionByMeasure
<1>5. Begins(f, text, k)
  <2>1. ASSUME NEW i \in D
        PROVE  f[i] = IF i = 0 THEN 0 ELSE f[i - 1] + Len(Encoding[text[i]])
    <3>1. CASE i = 0
      BY <1>4, <3>1
    <3>2. CASE i # 0
      <4>1. next[i] = i - 1 /\ i - 1 \in D /\ f[i - 1] \in Nat
        BY <1>1, <3>2
      <4>2. f[i] = step[<<i, f[i - 1]>>]
        BY <1>4, <3>2, <4>1
      <4>3. step[<<i, f[i - 1]>>] = f[i - 1] + size[i]
        <5>. HIDE DEF size
        <5>. QED  BY <4>1
      <4>. QED  BY <3>2, <4>2, <4>3
    <3>. QED  BY <3>1, <3>2
  <2>. QED  BY <2>1 DEF Begins
<1> DEFINE g == CHOOSE h : Begins(h, text, k)
<1>6. Begins(g, text, k)
  BY <1>5
<1>7. Offset(text, k) = g[k]
  BY DEF Offset, Begins
<1> HIDE DEF g
<1>8. g[0] = 0 /\ \A i \in 1 .. k : g[i] = g[i - 1] + size[i]
  BY <1>1, <1>6 DEF Begins
<1> DEFINE natural == { i \in D : g[i] \in Nat }
<1>9. ASSUME NEW i \in D, \A j \in D : m[j] < m[i] => j \in natural
      PROVE  i \in natural
  <2>1. CASE i = 0
    BY <1>1, <1>8, <2>1
  <2>2. CASE i # 0
    <3>1. i - 1 \in D /\ m[i - 1] < m[i] /\ i \in 1 .. k
      BY <1>1, <2>2
    <3>2. g[i - 1] \in Nat
      BY <1>9, <3>1
    <3>. HIDE DEF size
    <3>3. g[i] = g[i - 1] + size[i] /\ size[i] \in Nat
      BY <1>2, <1>8, <3>1
    <3>. QED  BY <3>2, <3>3
  <2>. QED  BY <2>1, <2>2
<1>10. m \in [D -> Nat]
  BY <1>1
<1>11. D \subseteq natural
  <2>. HIDE DEF m, D, natural
  <2>. QED  BY <1>9, <1>10, MeasureInduction
<1>. QED  BY <1>1, <1>7, <1>11

LEMMA ByteLengthInNat == ASSUME NEW text \in Documents PROVE ByteLength(text) \in Nat
<1>1. text \in Seq(DOMAIN Encoding)
  BY EncodingAssumption
<1>2. Len(text) \in Nat
  BY <1>1
<1>3. Len(text) \in 0 .. Len(text)
  BY <1>2
<1>. QED  BY <1>3, OffsetInNat DEF ByteLength

\* Clipping a range to the text puts it in the text.
LEMMA ClippedWithin ==
  ASSUME NEW a \in Nat, NEW b \in Nat, a <= b, NEW length \in Nat
  PROVE  /\ Clipped(<<a, b>>, length) \in Nat \X Nat
         /\ Clipped(<<a, b>>, length)[1] <= Clipped(<<a, b>>, length)[2]
         /\ Clipped(<<a, b>>, length)[2] <= length
BY DEF Clipped, Cut

-----------------------------------------------------------------------------
(* The inductive invariant. *)

\* The fields describe one source, and the tree that grew from edit to edit is
\* that of its view.
InStep ==
  /\ parse_view = Recovered[source].view
  /\ tree = Recovered[source].bytes
  /\ syntax = Lowered(source, tree)
  /\ diagnostics = Recovered[source].lexer.diagnostics

\* While apply_edit runs, its text is one that an edit makes of the source that
\* is still stored, its tree is that of the new view, and its edit was computed
\* against the view that is still stored.
CallSound ==
  call # NoCall =>
    /\ call.source \in Made(source) /\ Lexes(call.source)
    /\ call.tree = <<>> \/ call.tree = <<Recovered[call.source].bytes>>
    /\ call.tree # <<>> => Covers(Recovered[source].bytes, Recovered[call.source].bytes, call.edit)

\* InStep alone is not inductive: what Commit stores was computed two steps
\* before, and is right only because no step in between stored anything.
IInv == TypeOK /\ InStep /\ CallSound

LEMMA CalledTyped ==
  ASSUME NEW text \in Documents, NEW edit \in [start : Nat, old_end : Nat, new_end : Nat],
         NEW parsed \in Seq(Seq(STRING))
  PROVE  Called(text, edit, parsed) \in Calls /\ Called(text, edit, parsed) # NoCall
<1>1. Called(text, edit, parsed) \in Calls
  BY DEF Called, Calls
<1>. QED  BY <1>1, NoCallAssumption

LEMMA InitInvariant == Init => IInv
BY DEF Init, IInv, TypeOK, InStep, CallSound

\* A step that stores nothing leaves the fields in step.
LEMMA FieldsKept ==
  ASSUME IInv, UNCHANGED fields
  PROVE  /\ InStep'
         /\ source' \in Documents /\ Lexes(source)'
         /\ \A range \in changed_ranges' :
              /\ range \in Nat \X Nat
              /\ range[1] <= range[2] /\ range[2] <= ByteLength(source')
<1>1. source' = source /\ changed_ranges' = changed_ranges
  BY DEF fields
<1>2. InStep'
  BY DEF IInv, InStep, fields
<1>3. source \in Documents /\ Lexes(source) /\ Lexes(source)' = Lexes(source)
  BY <1>1 DEF IInv, TypeOK, Lexes
<1>. QED  BY <1>1, <1>2, <1>3 DEF IInv, TypeOK

\* A call that fails.
LEMMA FailStep ==
  ASSUME IInv, NEW error \in Failures, Fail(error)
  PROVE  IInv'
<1>1. UNCHANGED fields /\ call' = NoCall /\ result' = error /\ error # "running"
  BY DEF Fail, Failures
<1>2. CallSound'
  BY <1>1 DEF CallSound
<1>3. TypeOK'
  BY <1>1, FieldsKept DEF TypeOK, Lexes
<1>. QED  BY <1>1, <1>2, <1>3, FieldsKept DEF IInv

\* A call that goes on.
LEMMA RunningStep ==
  ASSUME IInv, UNCHANGED fields, result' = "running", call' \in Calls, CallSound'
  PROVE  IInv'
<1>1. call' # NoCall
  BY NoCallAssumption
<1>2. TypeOK'
  BY <1>1, FieldsKept DEF TypeOK, Lexes
<1>. QED  BY <1>2, FieldsKept DEF IInv

LEMMA RenameStep ==
  ASSUME IInv, Rename
  PROVE  IInv'
<1>1. PICK edit \in Edits(source) :
        \/ Fail("InvalidEdit")
        \/ \E text \in Edited(source, edit) \cap Documents :
             \/ Fail("Lex")
             \/ /\ Lexes(text)
                /\ call' = Called(text, NoEdit, <<>>)
                /\ result' = "running"
                /\ UNCHANGED fields
  BY DEF Rename
<1>2. ASSUME NEW text \in Edited(source, edit) \cap Documents, Lexes(text),
             call' = Called(text, NoEdit, <<>>), result' = "running", UNCHANGED fields
      PROVE  IInv'
  <2>1. call' \in Calls
    <3>1. NoEdit \in [start : Nat, old_end : Nat, new_end : Nat] /\ <<>> \in Seq(Seq(STRING))
      BY DEF NoEdit
    <3>. QED  BY <1>2, <3>1, CalledTyped
  <2>2. call'.source = text /\ call'.tree = <<>>
    BY <1>2 DEF Called
  <2>3. source' = source
    BY <1>2 DEF fields
  <2>4. text \in Made(source)
    BY DEF Made
  <2>5. CallSound'
    BY <1>2, <2>2, <2>3, <2>4 DEF CallSound, Made, Lexes
  <2>. QED  BY <1>2, <2>1, <2>5, RunningStep
<1>3. "InvalidEdit" \in Failures /\ "Lex" \in Failures
  BY DEF Failures
<1>. QED  BY <1>1, <1>2, <1>3, FailStep

LEMMA ParseStep ==
  ASSUME IInv, Parse
  PROVE  IInv'
<1>1. /\ source \in Documents /\ call \in Calls /\ call.source \in Documents
      /\ parse_view = Recovered[source].view /\ tree = Recovered[source].bytes
      /\ call.source \in Made(source) /\ Lexes(call.source)
      /\ result = "running"
  BY DEF Parse, IInv, TypeOK, InStep, CallSound, Calls
<1> DEFINE old == Recovered[source].bytes
           new == Recovered[call.source].bytes
<1>2. old \in Text /\ new \in Text /\ Bytes(parse_view) = old
  BY <1>1, RecoveredAssumption DEF Text
<1> HIDE DEF old, new
<1>3. PICK edit \in InputEdits(old, new) :
        call' = Called(call.source, edit, <<Reparsed(old, edit, new)>>)
  BY <1>1, <1>2 DEF Parse, old, new
<1>4. Covers(old, new, edit) /\ Reparsed(old, edit, new) = new
  BY <1>2, EditSound
<1>5. edit \in [start : Nat, old_end : Nat, new_end : Nat]
  BY <1>2, EditTyped
<1>6. UNCHANGED fields /\ result' = "running"
  BY <1>1 DEF Parse
<1>7. call' \in Calls
  <2>1. <<new>> \in Seq(Seq(STRING))
    BY <1>2 DEF Text
  <2>. QED  BY <1>1, <1>3, <1>4, <1>5, <2>1, CalledTyped
<1>8. /\ call'.source = call.source /\ call'.edit = edit /\ call'.tree = <<new>>
      /\ source' = source
  BY <1>3, <1>4, <1>6 DEF Called, fields
<1>9. CallSound'
  BY <1>1, <1>4, <1>8 DEF CallSound, Made, Lexes, old, new
<1>. QED  BY <1>6, <1>7, <1>9, RunningStep

\* What Commit stores.
LEMMA CommitStores ==
  ASSUME IInv, Commit
  PROVE  /\ source' = call.source /\ source' \in Made(source) /\ source' \in Documents
         /\ Lexes(source') /\ Parsable(source')
         /\ parse_view' = Recovered[source'].view
         /\ tree' = Recovered[source'].bytes
         /\ syntax' = Lowered(source', Recovered[source'].bytes)
         /\ diagnostics' = Recovered[source'].lexer.diagnostics
         /\ \A range \in changed_ranges' :
              /\ range \in Nat \X Nat
              /\ range[1] <= range[2] /\ range[2] <= ByteLength(source')
         /\ result = "running" /\ result' = "ok" /\ call' = NoCall
<1>1. /\ call \in Calls /\ call.tree = <<Recovered[call.source].bytes>>
      /\ call.source \in Made(source) /\ Lexes(call.source)
      /\ Covers(Recovered[source].bytes, Recovered[call.source].bytes, call.edit)
      /\ result = "running"
  BY DEF Commit, IInv, TypeOK, CallSound
<1>2. source' = call.source /\ Parsable(call.source) /\ result' = "ok" /\ call' = NoCall
  BY DEF Commit
<1>3. Head(call.tree) = Recovered[call.source].bytes
  BY <1>1
<1>4. call.source \in Documents /\ call.edit.start \in Nat /\ call.edit.new_end \in Nat
  BY <1>1 DEF Calls
<1>5. ASSUME NEW range \in changed_ranges'
      PROVE  /\ range \in Nat \X Nat
             /\ range[1] <= range[2] /\ range[2] <= ByteLength(source')
  <2>1. range = Clipped(<<call.edit.start, call.edit.new_end>>, ByteLength(call.source))
    BY DEF Commit
  <2>2. ByteLength(call.source) \in Nat /\ call.edit.start <= call.edit.new_end
    BY <1>1, <1>4, ByteLengthInNat DEF Covers
  <2>. QED  BY <1>2, <1>4, <2>1, <2>2, ClippedWithin
<1>6. /\ parse_view' = Recovered[source'].view
      /\ tree' = Recovered[source'].bytes
      /\ syntax' = Lowered(source', Recovered[source'].bytes)
      /\ diagnostics' = Recovered[source'].lexer.diagnostics
  BY <1>2, <1>3 DEF Commit
<1>. QED  BY <1>1, <1>2, <1>4, <1>5, <1>6

LEMMA CommitStep ==
  ASSUME IInv, Commit
  PROVE  IInv'
<1>1. InStep' /\ CallSound'
  BY CommitStores DEF InStep, CallSound
<1>2. TypeOK'
  BY CommitStores DEF TypeOK, Lexes
<1>. QED  BY <1>1, <1>2 DEF IInv

LEMMA NextInvariant == IInv /\ [Next]_vars => IInv'
<1> SUFFICES ASSUME IInv, [Next]_vars PROVE IInv'
  OBVIOUS
<1>1. CASE Rename
  BY <1>1, RenameStep
<1>2. CASE Parse
  BY <1>2, ParseStep
<1>3. CASE ParserFails \/ LoweringFails
  <2>1. PICK error \in Failures : Fail(error)
    BY <1>3 DEF ParserFails, LoweringFails, Failures
  <2>. QED  BY <2>1, FailStep
<1>4. CASE Commit
  BY <1>4, CommitStep
<1>5. CASE UNCHANGED vars
  <2>1. UNCHANGED fields /\ call' = call /\ result' = result
    BY <1>5 DEF vars
  <2>2. source' = source
    BY <2>1 DEF fields
  <2>3. CallSound'
    BY <2>1, <2>2 DEF IInv, CallSound, Made, Lexes
  <2>4. TypeOK'
    BY <2>1, FieldsKept DEF IInv, TypeOK, Lexes
  <2>. QED  BY <2>1, <2>3, <2>4, FieldsKept DEF IInv
<1>. QED  BY <1>1, <1>2, <1>3, <1>4, <1>5 DEF Next

LEMMA Invariant == Spec => []IInv
BY InitInvariant, NextInvariant, PTL DEF Spec

-----------------------------------------------------------------------------
\* The document lexes, what is reported as changed lies in it, and a call is
\* under way exactly between the steps of apply_edit.
THEOREM DocumentTyped == Spec => []TypeOK
<1>1. IInv => TypeOK
  BY DEF IInv
<1>. QED  BY <1>1, Invariant, PTL

\* The edit told to Tree-sitter covers every byte that differs, and begins and
\* ends between characters (input_edit_between).
THEOREM EditsCover == Spec => []EditCovers
<1>1. IInv => EditCovers
  <2> SUFFICES ASSUME IInv, call # NoCall, call.tree # <<>>
               PROVE  Covers(Bytes(parse_view), Recovered[call.source].bytes, call.edit)
    BY DEF EditCovers, Covers
  <2>. QED  BY RecoveredAssumption DEF IInv, TypeOK, InStep, CallSound
<1>. QED  BY <1>1, Invariant, PTL

-----------------------------------------------------------------------------
(* Refinement: IncrementalTree implements EditedDocument. *)

\* A document in step is what a parse from nothing makes of its source.
LEMMA InStepIsFresh ==
  ASSUME InStep
  PROVE  Document(source, parse_view, tree, syntax, diagnostics) = FreshParse(source)
BY DEF InStep, FreshParse

LEMMA InitAtomic == Init => Atomic!Init
<1> SUFFICES ASSUME Init PROVE Atomic!Init
  OBVIOUS
<1>1. source \in Documents /\ Lexes(source) /\ Parsable(source) /\ changed_ranges = {} /\ result = "ok"
  BY DEF Init
<1>2. Document(source, parse_view, tree, syntax, diagnostics) = FreshParse(source)
  BY InitInvariant, InStepIsFresh DEF IInv
<1>3. Document(source, parse_view, tree, syntax, diagnostics).source = source
  BY DEF Document
<1>. QED  BY <1>1, <1>2, <1>3 DEF Atomic!Init, Atomic!Fresh

\* A step that stores nothing is one in which a call begins or fails, or is
\* not seen at all.
LEMMA FailAtomic ==
  ASSUME NEW error \in Failures, Fail(error)
  PROVE  Atomic!Refuse
BY DEF Fail, fields, Document, Atomic!Refuse

LEMMA RenameAtomic ==
  ASSUME IInv, Rename
  PROVE  Atomic!Call \/ Atomic!Refuse
<1>1. \/ \E error \in {"InvalidEdit", "Lex"} : Fail(error)
      \/ result' = "running" /\ UNCHANGED fields
  BY DEF Rename
<1>2. result # "running"
  BY DEF Rename, IInv, TypeOK
<1>3. \A error \in {"InvalidEdit", "Lex"} : error \in Failures
  BY DEF Failures
<1>4. CASE result' = "running" /\ UNCHANGED fields
  BY <1>2, <1>4 DEF fields, Document, Atomic!Call
<1>. QED  BY <1>1, <1>3, <1>4, FailAtomic

LEMMA CommitAtomic ==
  ASSUME IInv, Commit
  PROVE  Atomic!Succeed
<1>1. /\ source' \in Made(source) /\ source' \in Documents /\ source \in Documents
      /\ Lexes(source') /\ Parsable(source')
      /\ result = "running" /\ result' = "ok"
  BY CommitStores DEF IInv, TypeOK
<1>2. Document(source', parse_view', tree', syntax', diagnostics') = FreshParse(source')
  BY CommitStores DEF FreshParse
<1>3. /\ Document(source, parse_view, tree, syntax, diagnostics).source = source
      /\ Document(source', parse_view', tree', syntax', diagnostics').source = source'
  BY DEF Document
<1>4. \A range \in changed_ranges' : range[1] <= range[2] /\ range[2] <= ByteLength(source')
  BY CommitStores
<1>. QED  BY <1>1, <1>2, <1>3, <1>4 DEF Atomic!Succeed, Atomic!Fresh, Atomic!Within

LEMMA StepAtomic == IInv /\ [Next]_vars => [Atomic!Next]_(Atomic!vars)
<1> SUFFICES ASSUME IInv, [Next]_vars PROVE [Atomic!Next]_(Atomic!vars)
  OBVIOUS
<1>1. CASE Rename
  BY <1>1, RenameAtomic DEF Atomic!Next
<1>2. CASE Parse \/ UNCHANGED vars
  BY <1>2 DEF Parse, vars, fields, Document, Atomic!vars
<1>3. CASE ParserFails \/ LoweringFails
  <2>1. PICK error \in Failures : Fail(error)
    BY <1>3 DEF ParserFails, LoweringFails, Failures
  <2>. QED  BY <2>1, FailAtomic DEF Atomic!Next
<1>4. CASE Commit
  BY <1>4, CommitAtomic DEF Atomic!Next
<1>. QED  BY <1>1, <1>2, <1>3, <1>4 DEF Next

\* The update is transactional, and incremental parsing is parsing: in steps
\* that may each fail, apply_edit does what a fresh parse of the edited text
\* would do at once, or nothing at all (RealtimeParser::apply_edit).
THEOREM ApplyEditIsAtomic == Spec => EditsAreAtomic
<1>1. Spec => Atomic!Spec
  BY InitAtomic, Invariant, StepAtomic, PTL DEF Spec, Atomic!Spec
<1>. QED  BY <1>1 DEF EditsAreAtomic

=============================================================================
