------------------------- MODULE NativeLexerProofs -------------------------
(***************************************************************************)
(* Proofs about NativeLexer, for texts of any length over any symbols and  *)
(* for any nesting limit.                                                  *)
(*                                                                         *)
(* The inductive invariant describes the open nodes of the stream (Spine): *)
(* there is one at every depth up to the height of the stack, and the      *)
(* stack says of each what the node says.  Pushing a token, completing the *)
(* innermost group and attaching comments keep that description, so that   *)
(* the assertion behind a closer never fails.  A second invariant (Kept)   *)
(* says of the pieces the tree holds that each symbol in front of the      *)
(* cursor is in one of them.  That a text can be lexed in parts compares   *)
(* two runs of the loop (Follows), one over a text, one over its end.      *)
(* What the stream gives back is the subject of a last invariant (Gives):  *)
(* with StreamTheorems it follows the ranges the stream gives (Whole).     *)
(***************************************************************************)
EXTENDS NativeLexer, TextTheorems, StreamTheorems

-----------------------------------------------------------------------------
(* Where tokens end. *)

\* The first of a range of positions that is in a set, or the last of all.
LEMMA FirstIn ==
  ASSUME NEW a \in Nat, NEW b \in Nat, a <= b, NEW S
  PROVE  \E e \in a .. b : (e = b \/ e \in S) /\ \A d \in a .. e - 1 : d \notin S
<1> DEFINE candidates == { e \in a .. b : e = b \/ e \in S }
<1>1. candidates \subseteq Nat /\ b \in candidates
  OBVIOUS
<1>2. PICK e \in candidates : \A d \in candidates : e <= d
  BY <1>1, LeastMember
<1>3. \A d \in a .. e - 1 : d \notin S
  <2> SUFFICES ASSUME NEW d \in a .. e - 1, d \in S
               PROVE  FALSE
    OBVIOUS
  <2>1. d \in a .. b /\ d < e
    BY <1>2
  <2>2. e <= d
    BY <1>2, <2>1
  <2> QED BY <2>1, <2>2
<1> QED BY <1>2, <1>3

\* An identifier ends behind its first symbol, in the text.
LEMMA WordEndFacts ==
  ASSUME NEW t \in Text, NEW from \in Nat, from < Len(t), t[from + 1] \in Words
  PROVE  WordEnd(t, from) \in Nat /\ from < WordEnd(t, from) /\ WordEnd(t, from) <= Len(t)
<1> DEFINE S == { e \in Nat : t[e + 1] \notin Words }
<1>0. Len(t) \in Nat /\ from <= Len(t)
  BY DEF Text
<1> HIDE DEF S
<1>1. \E e \in from .. Len(t) :
        /\ e = Len(t) \/ t[e + 1] \notin Words
        /\ \A d \in from .. e - 1 : ~ (t[d + 1] \notin Words)
  <2>1. PICK e \in from .. Len(t) : (e = Len(t) \/ e \in S) /\ \A d \in from .. e - 1 : d \notin S
    BY <1>0, FirstIn
  <2>2. \A d \in from .. e - 1 : ~ (t[d + 1] \notin Words)
    BY <2>1 DEF S
  <2>3. e = Len(t) \/ t[e + 1] \notin Words
    BY <2>1 DEF S
  <2> QED BY <2>2, <2>3
<1>2. /\ WordEnd(t, from) \in from .. Len(t)
      /\ WordEnd(t, from) = Len(t) \/ t[WordEnd(t, from) + 1] \notin Words
  BY <1>1 DEF WordEnd, FirstEnd
<1> QED BY <1>0, <1>2

\* Layout ends in the text, and there is nothing else before its end.
LEMMA LayoutEndFacts ==
  ASSUME NEW t \in Text, NEW from \in Nat, from <= Len(t)
  PROVE  /\ LayoutEnd(t, from) \in Nat
         /\ from <= LayoutEnd(t, from) /\ LayoutEnd(t, from) <= Len(t)
         /\ \A d \in from .. LayoutEnd(t, from) - 1 : t[d + 1] = "SP"
<1> DEFINE S == { e \in Nat : t[e + 1] # "SP" }
<1>0. Len(t) \in Nat
  BY DEF Text
<1>1. \E e \in from .. Len(t) :
        /\ e = Len(t) \/ t[e + 1] # "SP"
        /\ \A d \in from .. e - 1 : ~ (t[d + 1] # "SP")
  <2>1. PICK e \in from .. Len(t) : (e = Len(t) \/ e \in S) /\ \A d \in from .. e - 1 : d \notin S
    BY <1>0, FirstIn
  <2>2. \A d \in from .. e - 1 : t[d + 1] = "SP"
    BY <2>1
  <2> QED BY <2>1, <2>2
<1>2. /\ LayoutEnd(t, from) \in from .. Len(t)
      /\ \A d \in from .. LayoutEnd(t, from) - 1 : ~ (t[d + 1] # "SP")
  BY <1>1 DEF LayoutEnd, FirstEnd
<1> QED BY <1>0, <1>2

\* So does a line comment.
LEMMA LineCommentEndFacts ==
  ASSUME NEW t \in Text, NEW from \in Nat, from <= Len(t)
  PROVE  /\ LineCommentEnd(t, from) \in Nat
         /\ from <= LineCommentEnd(t, from) /\ LineCommentEnd(t, from) <= Len(t)
<1> DEFINE S == { e \in Nat : t[e + 1] = "NL" }
<1>0. Len(t) \in Nat
  BY DEF Text
<1>1. \E e \in from .. Len(t) :
        /\ e = Len(t) \/ t[e + 1] = "NL"
        /\ \A d \in from .. e - 1 : ~ (t[d + 1] = "NL")
  <2>1. PICK e \in from .. Len(t) : (e = Len(t) \/ e \in S) /\ \A d \in from .. e - 1 : d \notin S
    BY <1>0, FirstIn
  <2>2. \A d \in from .. e - 1 : t[d + 1] # "NL"
    BY <2>1
  <2> QED BY <2>1, <2>2
<1>2. LineCommentEnd(t, from) \in from .. Len(t)
  BY <1>1 DEF LineCommentEnd, FirstEnd
<1> QED BY <1>0, <1>2

\* The closer of a block comment is looked for behind its opener.
LEMMA BlockCommentEndFacts ==
  ASSUME NEW t \in Text, NEW from \in Nat, from < Len(t)
  PROVE  /\ BlockCommentEnd(t, from) \in Nat
         /\ from < BlockCommentEnd(t, from) /\ BlockCommentEnd(t, from) <= Len(t)
<1> DEFINE S == { e \in Nat : t[e + 1] = "BC" }
<1>0. Len(t) \in Nat
  BY DEF Text
<1>1. \E e \in from + 1 .. Len(t) :
        /\ e = Len(t) \/ t[e + 1] = "BC"
        /\ \A d \in from + 1 .. e - 1 : ~ (t[d + 1] = "BC")
  <2>1. from + 1 \in Nat /\ from + 1 <= Len(t)
    BY <1>0
  <2>2. PICK e \in from + 1 .. Len(t) :
          (e = Len(t) \/ e \in S) /\ \A d \in from + 1 .. e - 1 : d \notin S
    BY <1>0, <2>1, FirstIn
  <2>3. \A d \in from + 1 .. e - 1 : t[d + 1] # "BC"
    BY <2>2
  <2> QED BY <2>2, <2>3
<1>2. BlockCommentEnd(t, from) \in from + 1 .. Len(t)
  BY <1>1 DEF BlockCommentEnd, FirstEnd
<1> QED BY <1>0, <1>2

\* A run of slashes lies in the text, and is counted when there is one.
LEMMA SlashRunFacts ==
  ASSUME NEW t \in Text, NEW from \in Nat, from <= Len(t)
  PROVE  /\ SlashRun(t, from) \in 0 .. 4
         /\ from + SlashRun(t, from) <= Len(t)
         /\ from < Len(t) /\ t[from + 1] = "/" => SlashRun(t, from) > 0
<1> DEFINE S == { e \in Nat : t[e + 1] # "/" }
           end == FirstEnd(t, from, LAMBDA e : t[e + 1] # "/")
<1>0. Len(t) \in Nat
  BY DEF Text
<1>1. \E e \in from .. Len(t) :
        /\ e = Len(t) \/ t[e + 1] # "/"
        /\ \A d \in from .. e - 1 : ~ (t[d + 1] # "/")
  <2>1. PICK e \in from .. Len(t) : (e = Len(t) \/ e \in S) /\ \A d \in from .. e - 1 : d \notin S
    BY <1>0, FirstIn
  <2>2. \A d \in from .. e - 1 : t[d + 1] = "/"
    BY <2>1
  <2> QED BY <2>1, <2>2
<1>2. end \in from .. Len(t) /\ (end = Len(t) \/ t[end + 1] # "/")
  BY <1>1 DEF FirstEnd
<1>3. SlashRun(t, from) = IF end - from > 4 THEN 4 ELSE end - from
  BY DEF SlashRun
<1> HIDE DEF end
<1> QED BY <1>0, <1>2, <1>3

\* A run of slashes is one.
LEMMA RunOfSlashes ==
  ASSUME NEW t \in Text, NEW from \in Nat, from <= Len(t)
  PROVE  \A d \in from .. from + SlashRun(t, from) - 1 : t[d + 1] = "/"
<1> DEFINE S == { e \in Nat : t[e + 1] # "/" }
           end == FirstEnd(t, from, LAMBDA e : t[e + 1] # "/")
<1>0. Len(t) \in Nat
  BY DEF Text
<1>1. \E e \in from .. Len(t) :
        /\ e = Len(t) \/ t[e + 1] # "/"
        /\ \A d \in from .. e - 1 : ~ (t[d + 1] # "/")
  <2>1. PICK e \in from .. Len(t) : (e = Len(t) \/ e \in S) /\ \A d \in from .. e - 1 : d \notin S
    BY <1>0, FirstIn
  <2>2. \A d \in from .. e - 1 : t[d + 1] = "/"
    BY <2>1
  <2> QED BY <2>1, <2>2
<1>2. end \in from .. Len(t) /\ \A d \in from .. end - 1 : ~ (t[d + 1] # "/")
  BY <1>1 DEF FirstEnd
<1>3. SlashRun(t, from) = IF end - from > 4 THEN 4 ELSE end - from
  BY DEF SlashRun
<1> HIDE DEF end
<1>4. from + SlashRun(t, from) <= end
  BY <1>0, <1>2, <1>3
<1>5. SlashRun(t, from) \in Int
  BY <1>2, <1>3
<1> DEFINE run == SlashRun(t, from)
<1> HIDE DEF run
<1>6. ASSUME NEW d \in from .. from + run - 1
      PROVE  t[d + 1] = "/"
  <2>1. d \in from .. end - 1
    BY <1>2, <1>4, <1>5 DEF run
  <2> QED BY <1>2, <2>1
<1> QED BY <1>6 DEF run

\* How a string or raw string can end.
Scan == [status : {"closed", "unterminated", "bad_escape"}, to : Nat]

\* The equation that defines lex_string's scan.
ScansString(f, t) ==
  f = [i \in 0 .. Len(t) + 1 |->
        CASE i >= Len(t) -> [status |-> "unterminated", to |-> Len(t)]
          [] i < Len(t) /\ t[i + 1] = "QT" -> [status |-> "closed", to |-> i + 1]
          [] i < Len(t) /\ t[i + 1] = "BS" ->
               IF i + 1 = Len(t) THEN [status |-> "unterminated", to |-> Len(t)]
               ELSE IF t[i + 2] \in {"QT", "BS"} THEN f[i + 2]
               ELSE [status |-> "bad_escape", to |-> i + 2]
          [] OTHER -> f[i + 1]]

\* That scan, from every position.
StringRun(t) == CHOOSE f : ScansString(f, t)

LEMMA StringRunIs ==
  ASSUME NEW t \in Text
  PROVE  /\ \A from : StringScan(t, from) = StringRun(t)[from + 1]
         /\ \A i \in 0 .. Len(t) + 1 :
              /\ i >= Len(t) => StringRun(t)[i] = [status |-> "unterminated", to |-> Len(t)]
              /\ i < Len(t) /\ t[i + 1] = "QT" =>
                   StringRun(t)[i] = [status |-> "closed", to |-> i + 1]
              /\ i < Len(t) /\ t[i + 1] = "BS" =>
                   StringRun(t)[i] =
                     IF i + 1 = Len(t) THEN [status |-> "unterminated", to |-> Len(t)]
                     ELSE IF t[i + 2] \in {"QT", "BS"} THEN StringRun(t)[i + 2]
                     ELSE [status |-> "bad_escape", to |-> i + 2]
              /\ i < Len(t) /\ t[i + 1] \notin {"QT", "BS"} =>
                   StringRun(t)[i] = StringRun(t)[i + 1]
<1> DEFINE n == Len(t)
           D == 0 .. n + 1
           escapes(i) == t[i + 1] = "BS" /\ i + 1 # n /\ t[i + 2] \in {"QT", "BS"}
           stop == { i \in D : i >= n \/ t[i + 1] = "QT" \/ (t[i + 1] = "BS" /\ ~ escapes(i)) }
           base == [i \in D |->
             IF i >= n THEN [status |-> "unterminated", to |-> n]
             ELSE IF t[i + 1] = "QT" THEN [status |-> "closed", to |-> i + 1]
             ELSE IF i + 1 = n THEN [status |-> "unterminated", to |-> n]
             ELSE [status |-> "bad_escape", to |-> i + 2]]
           next == [i \in D |-> IF i \in stop THEN i ELSE IF t[i + 1] = "BS" THEN i + 2 ELSE i + 1]
           step == [p \in D \X Scan |-> p[2]]
           m == [i \in D |-> n + 1 - i]
<1>0. n \in Nat
  BY DEF Text
<1> HIDE DEF n
<1>1. m \in [D -> Nat] /\ base \in [D -> Scan] /\ step \in [D \X Scan -> Scan]
      /\ stop \in SUBSET D /\ next \in [D -> D]
  BY <1>0 DEF Scan
<1>2. \A i \in D \ stop : m[next[i]] < m[i]
  BY <1>0
<1>3. PICK f \in [D -> Scan] : \A i \in D :
        f[i] = IF i \in stop THEN base[i] ELSE step[<<i, f[next[i]]>>]
  <2> HIDE DEF D, stop, base, next, step, m
  <2>1. Descends(D, Scan, m, stop, base, next, step)
    BY <1>1, <1>2 DEF Descends
  <2> QED BY <2>1, RecursionByMeasure
<1>4. \A i \in D \ stop : f[i] = f[IF t[i + 1] = "BS" THEN i + 2 ELSE i + 1]
  <2> SUFFICES ASSUME NEW i \in D \ stop
               PROVE  f[i] = f[IF t[i + 1] = "BS" THEN i + 2 ELSE i + 1]
    OBVIOUS
  <2>1. next[i] \in D /\ next[i] = IF t[i + 1] = "BS" THEN i + 2 ELSE i + 1
    BY <1>0
  <2> HIDE DEF next, stop, D
  <2>2. f[i] = step[<<i, f[next[i]]>>]
    BY <1>3
  <2>3. <<i, f[next[i]]>> \in D \X Scan
    BY <2>1
  <2>4. step[<<i, f[next[i]]>>] = f[next[i]]
    BY <2>3
  <2> QED BY <2>1, <2>2, <2>4
<1>5. \A i \in D : f[i] =
        CASE i >= n -> [status |-> "unterminated", to |-> n]
          [] i < n /\ t[i + 1] = "QT" -> [status |-> "closed", to |-> i + 1]
          [] i < n /\ t[i + 1] = "BS" ->
               IF i + 1 = n THEN [status |-> "unterminated", to |-> n]
               ELSE IF t[i + 2] \in {"QT", "BS"} THEN f[i + 2]
               ELSE [status |-> "bad_escape", to |-> i + 2]
          [] OTHER -> f[i + 1]
  <2> SUFFICES ASSUME NEW i \in D
               PROVE  f[i] =
        CASE i >= n -> [status |-> "unterminated", to |-> n]
          [] i < n /\ t[i + 1] = "QT" -> [status |-> "closed", to |-> i + 1]
          [] i < n /\ t[i + 1] = "BS" ->
               IF i + 1 = n THEN [status |-> "unterminated", to |-> n]
               ELSE IF t[i + 2] \in {"QT", "BS"} THEN f[i + 2]
               ELSE [status |-> "bad_escape", to |-> i + 2]
          [] OTHER -> f[i + 1]
    OBVIOUS
  <2>0. i \in Nat
    BY <1>0
  <2>1. CASE i \in stop
    <3>1. f[i] = IF i >= n THEN [status |-> "unterminated", to |-> n]
                 ELSE IF t[i + 1] = "QT" THEN [status |-> "closed", to |-> i + 1]
                 ELSE IF i + 1 = n THEN [status |-> "unterminated", to |-> n]
                 ELSE [status |-> "bad_escape", to |-> i + 2]
      <4>1. f[i] = base[i]
        BY <1>3, <2>1
      <4> QED BY <4>1
    <3>2. \/ i >= n
          \/ i < n /\ t[i + 1] = "QT"
          \/ i < n /\ t[i + 1] = "BS" /\ (i + 1 = n \/ t[i + 2] \notin {"QT", "BS"})
      BY <1>0, <2>0, <2>1
    <3> HIDE DEF D, stop
    <3>3. CASE i >= n
      BY <1>0, <2>0, <3>1, <3>3
    <3>4. CASE i < n /\ t[i + 1] = "QT"
      BY <1>0, <2>0, <3>1, <3>4
    <3>5. CASE i < n /\ t[i + 1] = "BS" /\ (i + 1 = n \/ t[i + 2] \notin {"QT", "BS"})
      BY <1>0, <2>0, <3>1, <3>5
    <3> QED BY <3>2, <3>3, <3>4, <3>5
  <2>2. CASE i \notin stop
    <3>1. f[i] = f[IF t[i + 1] = "BS" THEN i + 2 ELSE i + 1]
      BY <1>4, <2>2
    <3>2. i < n /\ t[i + 1] # "QT" /\ (t[i + 1] = "BS" => escapes(i))
      BY <1>0, <2>0, <2>2
    <3>3. CASE t[i + 1] = "BS"
      <4>1. f[i] = f[i + 2] /\ i + 1 # n /\ t[i + 2] \in {"QT", "BS"}
        BY <3>1, <3>2, <3>3
      <4> HIDE DEF D, stop
      <4> QED BY <1>0, <2>0, <3>2, <3>3, <4>1
    <3>4. CASE t[i + 1] # "BS"
      <4>1. f[i] = f[i + 1]
        BY <3>1, <3>4
      <4> HIDE DEF D, stop
      <4> QED BY <1>0, <2>0, <3>2, <3>4, <4>1
    <3> QED BY <3>3, <3>4
  <2> QED BY <2>1, <2>2
<1>6. ScansString(f, t)
  BY <1>3, <1>5 DEF ScansString, n
<1> DEFINE scan == StringRun(t)
<1>7. ScansString(scan, t)
  BY <1>6 DEF StringRun
<1>8. \A from : StringScan(t, from) = scan[from + 1]
  BY DEF StringScan, ScansString, StringRun
<1> HIDE DEF scan
<1>9. ASSUME NEW i \in D
      PROVE  /\ i >= n => scan[i] = [status |-> "unterminated", to |-> n]
             /\ i < n /\ t[i + 1] = "QT" => scan[i] = [status |-> "closed", to |-> i + 1]
             /\ i < n /\ t[i + 1] = "BS" =>
                  scan[i] = IF i + 1 = n THEN [status |-> "unterminated", to |-> n]
                            ELSE IF t[i + 2] \in {"QT", "BS"} THEN scan[i + 2]
                            ELSE [status |-> "bad_escape", to |-> i + 2]
             /\ i < n /\ t[i + 1] \notin {"QT", "BS"} => scan[i] = scan[i + 1]
  <2>1. scan[i] =
        CASE i >= n -> [status |-> "unterminated", to |-> n]
          [] i < n /\ t[i + 1] = "QT" -> [status |-> "closed", to |-> i + 1]
          [] i < n /\ t[i + 1] = "BS" ->
               IF i + 1 = n THEN [status |-> "unterminated", to |-> n]
               ELSE IF t[i + 2] \in {"QT", "BS"} THEN scan[i + 2]
               ELSE [status |-> "bad_escape", to |-> i + 2]
          [] OTHER -> scan[i + 1]
    BY <1>7 DEF ScansString, n
  <2>2. i \in Nat
    BY <1>0
  <2> HIDE DEF D
  <2>3. CASE i >= n
    BY <1>0, <2>1, <2>2, <2>3
  <2>4. CASE i < n /\ t[i + 1] = "QT"
    BY <1>0, <2>1, <2>2, <2>4
  <2>5. CASE i < n /\ t[i + 1] = "BS"
    BY <1>0, <2>1, <2>2, <2>5
  <2>6. CASE i < n /\ t[i + 1] \notin {"QT", "BS"}
    BY <1>0, <2>1, <2>2, <2>6
  <2> QED BY <1>0, <2>2, <2>3, <2>4, <2>5, <2>6
<1> HIDE DEF D
<1>10. \A i \in D :
             /\ i >= n => scan[i] = [status |-> "unterminated", to |-> n]
             /\ i < n /\ t[i + 1] = "QT" => scan[i] = [status |-> "closed", to |-> i + 1]
             /\ i < n /\ t[i + 1] = "BS" =>
                  scan[i] = IF i + 1 = n THEN [status |-> "unterminated", to |-> n]
                            ELSE IF t[i + 2] \in {"QT", "BS"} THEN scan[i + 2]
                            ELSE [status |-> "bad_escape", to |-> i + 2]
             /\ i < n /\ t[i + 1] \notin {"QT", "BS"} => scan[i] = scan[i + 1]
  BY <1>9
<1> QED BY <1>8, <1>10 DEF D, n, scan

\* A string ends behind its opening quote, in the text.
LEMMA StringScanFacts ==
  ASSUME NEW t \in Text, NEW from \in Nat, from < Len(t)
  PROVE  /\ StringScan(t, from) \in Scan
         /\ from < StringScan(t, from).to /\ StringScan(t, from).to <= Len(t)
<1> DEFINE n == Len(t)
           D == 0 .. n + 1
           m == [i \in D |-> n + 1 - i]
           scan == StringRun(t)
<1>0. n \in Nat
  BY DEF Text
<1> HIDE DEF scan
<1>8. StringScan(t, from) = scan[from + 1]
  BY StringRunIs DEF scan
<1>9. \A i \in D :
             /\ i >= n => scan[i] = [status |-> "unterminated", to |-> n]
             /\ i < n /\ t[i + 1] = "QT" => scan[i] = [status |-> "closed", to |-> i + 1]
             /\ i < n /\ t[i + 1] = "BS" =>
                  scan[i] = IF i + 1 = n THEN [status |-> "unterminated", to |-> n]
                            ELSE IF t[i + 2] \in {"QT", "BS"} THEN scan[i + 2]
                            ELSE [status |-> "bad_escape", to |-> i + 2]
             /\ i < n /\ t[i + 1] \notin {"QT", "BS"} => scan[i] = scan[i + 1]
  BY StringRunIs DEF scan
<1> HIDE DEF n
<1> DEFINE good == { i \in D : /\ scan[i] \in Scan /\ scan[i].to <= n
                               /\ scan[i].to >= i \/ scan[i].to = n }
<1>10. ASSUME NEW i \in D, \A k \in D : m[k] < m[i] => k \in good
       PROVE  i \in good
  <2>0. i \in Nat
    BY <1>0
  <2>1. CASE i >= n
    <3>1. scan[i] = [status |-> "unterminated", to |-> n]
      BY <1>9, <2>1
    <3> QED BY <1>0, <3>1 DEF Scan
  <2>2. CASE i < n /\ t[i + 1] = "QT"
    <3>1. scan[i] = [status |-> "closed", to |-> i + 1]
      BY <1>9, <2>2
    <3> QED BY <1>0, <2>0, <2>2, <3>1 DEF Scan
  <2>3. CASE i < n /\ t[i + 1] = "BS" /\ i + 1 = n
    <3>1. scan[i] = [status |-> "unterminated", to |-> n]
      BY <1>9, <2>3
    <3> QED BY <1>0, <3>1 DEF Scan
  <2>4. CASE i < n /\ t[i + 1] = "BS" /\ i + 1 # n /\ t[i + 2] \in {"QT", "BS"}
    <3>1. scan[i] = scan[i + 2]
      BY <1>9, <2>4
    <3>2. i + 2 \in D /\ m[i + 2] < m[i]
      BY <1>0, <2>0, <2>4
    <3>3. i + 2 \in good
      BY <1>10, <3>2
    <3> QED BY <1>0, <2>0, <3>1, <3>3 DEF Scan
  <2>5. CASE i < n /\ t[i + 1] = "BS" /\ i + 1 # n /\ t[i + 2] \notin {"QT", "BS"}
    <3>1. scan[i] = [status |-> "bad_escape", to |-> i + 2]
      BY <1>9, <2>5
    <3> QED BY <1>0, <2>0, <2>5, <3>1 DEF Scan
  <2>6. CASE i < n /\ t[i + 1] # "QT" /\ t[i + 1] # "BS"
    <3>1. scan[i] = scan[i + 1]
      BY <1>9, <2>6
    <3>2. i + 1 \in D /\ m[i + 1] < m[i]
      BY <1>0, <2>0, <2>6
    <3>3. i + 1 \in good
      BY <1>10, <3>2
    <3> QED BY <1>0, <2>0, <3>1, <3>3 DEF Scan
  <2> QED BY <1>0, <2>0, <2>1, <2>2, <2>3, <2>4, <2>5, <2>6
<1>11. D \subseteq good
  <2>1. m \in [D -> Nat]
    BY <1>0
  <2> HIDE DEF D, good, m
  <2> QED BY <1>10, <2>1, MeasureInduction
<1>12. from + 1 \in D /\ from < n
  BY <1>0 DEF n
<1>13. from + 1 \in good
  BY <1>11, <1>12
<1> QED BY <1>0, <1>8, <1>12, <1>13 DEF n, Scan

\* The equation that defines lex_raw_string's scan.
ScansRaw(f, t) ==
  f = [i \in 0 .. Len(t) |->
        CASE i = Len(t)             -> [status |-> "unterminated", to |-> Len(t)]
          [] SlashRun(t, i) = 3     -> [status |-> "closed", to |-> i + 3]
          [] SlashRun(t, i) \in {2, 4} -> f[i + 2]
          [] OTHER                  -> f[i + 1]]

\* That scan, from every position.
RawRun(t) == CHOOSE f : ScansRaw(f, t)

LEMMA RawRunIs ==
  ASSUME NEW t \in Text
  PROVE  /\ \A from : RawStringScan(t, from) = RawRun(t)[from + 3]
         /\ \A i \in 0 .. Len(t) :
              /\ i = Len(t) => RawRun(t)[i] = [status |-> "unterminated", to |-> Len(t)]
              /\ i # Len(t) /\ SlashRun(t, i) = 3 =>
                   RawRun(t)[i] = [status |-> "closed", to |-> i + 3]
              /\ i # Len(t) /\ SlashRun(t, i) \in {2, 4} => RawRun(t)[i] = RawRun(t)[i + 2]
              /\ i # Len(t) /\ SlashRun(t, i) \notin {2, 3, 4} => RawRun(t)[i] = RawRun(t)[i + 1]
<1> DEFINE n == Len(t)
           D == 0 .. n
           r(i) == SlashRun(t, i)
           stop == { i \in D : i = n \/ r(i) = 3 }
           base == [i \in D |-> IF i = n THEN [status |-> "unterminated", to |-> n]
                                ELSE [status |-> "closed", to |-> i + 3]]
           next == [i \in D |-> IF i \in stop THEN i ELSE IF r(i) \in {2, 4} THEN i + 2 ELSE i + 1]
           step == [p \in D \X Scan |-> p[2]]
           m == [i \in D |-> n - i]
<1>0. n \in Nat
  BY DEF Text
<1>a. \A i \in D : r(i) \in 0 .. 4 /\ i + r(i) <= n
  BY SlashRunFacts
<1> HIDE DEF n, r
<1>1. m \in [D -> Nat] /\ base \in [D -> Scan] /\ step \in [D \X Scan -> Scan]
      /\ stop \in SUBSET D
  BY <1>0 DEF Scan
<1>2. \A i \in D \ stop : /\ next[i] = IF r(i) \in {2, 4} THEN i + 2 ELSE i + 1
                          /\ next[i] \in D /\ m[next[i]] < m[i]
  BY <1>0, <1>a
<1>3. next \in [D -> D]
  BY <1>0, <1>a
<1>4. PICK f \in [D -> Scan] : \A i \in D :
        f[i] = IF i \in stop THEN base[i] ELSE step[<<i, f[next[i]]>>]
  <2> HIDE DEF D, stop, base, next, step, m
  <2>1. Descends(D, Scan, m, stop, base, next, step)
    BY <1>1, <1>2, <1>3 DEF Descends
  <2> QED BY <2>1, RecursionByMeasure
<1>5. \A i \in D : f[i] =
        CASE i = n             -> [status |-> "unterminated", to |-> n]
          [] r(i) = 3          -> [status |-> "closed", to |-> i + 3]
          [] r(i) \in {2, 4}   -> f[i + 2]
          [] OTHER             -> f[i + 1]
  <2> SUFFICES ASSUME NEW i \in D
               PROVE  f[i] =
        CASE i = n             -> [status |-> "unterminated", to |-> n]
          [] r(i) = 3          -> [status |-> "closed", to |-> i + 3]
          [] r(i) \in {2, 4}   -> f[i + 2]
          [] OTHER             -> f[i + 1]
    OBVIOUS
  <2>0. i \in Nat /\ r(i) \in 0 .. 4 /\ i + r(i) <= n
    BY <1>0, <1>a
  <2>1. CASE i = n
    <3>1. f[i] = base[i] /\ base[i] = [status |-> "unterminated", to |-> n]
      BY <1>4, <2>1
    <3>2. r(i) = 0
      BY <1>0, <2>0, <2>1
    <3> HIDE DEF D, stop
    <3> QED BY <2>1, <3>1, <3>2
  <2>2. CASE i # n /\ r(i) = 3
    <3>1. f[i] = base[i] /\ base[i] = [status |-> "closed", to |-> i + 3]
      BY <1>4, <2>2
    <3> HIDE DEF D, stop
    <3> QED BY <2>2, <3>1
  <2>3. CASE i # n /\ r(i) # 3
    <3>0. i \in D \ stop
      BY <2>3
    <3>1. next[i] = (IF r(i) \in {2, 4} THEN i + 2 ELSE i + 1) /\ next[i] \in D
      BY <1>2, <3>0
    <3> HIDE DEF D, stop, next
    <3>2. f[i] = step[<<i, f[next[i]]>>]
      BY <1>4, <3>0
    <3>3. <<i, f[next[i]]>> \in D \X Scan
      BY <3>1
    <3>4. f[i] = f[IF r(i) \in {2, 4} THEN i + 2 ELSE i + 1]
      BY <3>1, <3>2, <3>3
    <3> HIDE DEF step
    <3>5. CASE r(i) \in {2, 4}
      BY <2>3, <3>4, <3>5
    <3>6. CASE r(i) \notin {2, 4}
      BY <2>3, <3>4, <3>6
    <3> QED BY <3>5, <3>6
  <2> QED BY <2>1, <2>2, <2>3
<1>6. ScansRaw(f, t)
  BY <1>4, <1>5 DEF ScansRaw, n, r
<1> DEFINE scan == RawRun(t)
<1>7. ScansRaw(scan, t)
  BY <1>6 DEF RawRun
<1>8. \A from : RawStringScan(t, from) = scan[from + 3]
  BY DEF RawStringScan, ScansRaw, RawRun
<1> HIDE DEF scan
<1>9. ASSUME NEW i \in D
      PROVE  /\ i = n => scan[i] = [status |-> "unterminated", to |-> n]
             /\ i # n /\ r(i) = 3 => scan[i] = [status |-> "closed", to |-> i + 3]
             /\ i # n /\ r(i) \in {2, 4} => scan[i] = scan[i + 2]
             /\ i # n /\ r(i) \notin {2, 3, 4} => scan[i] = scan[i + 1]
  <2>1. scan[i] =
        CASE i = n             -> [status |-> "unterminated", to |-> n]
          [] r(i) = 3          -> [status |-> "closed", to |-> i + 3]
          [] r(i) \in {2, 4}   -> scan[i + 2]
          [] OTHER             -> scan[i + 1]
    BY <1>7 DEF ScansRaw, n, r
  <2>2. i \in Nat /\ r(i) \in 0 .. 4 /\ i + r(i) <= n
    BY <1>0, <1>a
  <2>3. i = n => r(i) = 0
    BY <1>0, <2>2
  <2> HIDE DEF D
  <2>4. CASE i = n
    BY <2>1, <2>3, <2>4
  <2>5. CASE i # n /\ r(i) = 3
    BY <2>1, <2>5
  <2>6. CASE i # n /\ r(i) \in {2, 4}
    BY <2>1, <2>6
  <2>7. CASE i # n /\ r(i) \notin {2, 3, 4}
    BY <2>1, <2>7
  <2> QED BY <2>4, <2>5, <2>6, <2>7
<1> HIDE DEF D
<1>10. \A i \in D :
             /\ i = n => scan[i] = [status |-> "unterminated", to |-> n]
             /\ i # n /\ r(i) = 3 => scan[i] = [status |-> "closed", to |-> i + 3]
             /\ i # n /\ r(i) \in {2, 4} => scan[i] = scan[i + 2]
             /\ i # n /\ r(i) \notin {2, 3, 4} => scan[i] = scan[i + 1]
  BY <1>9
<1> QED BY <1>8, <1>10 DEF D, n, r, scan

\* A raw string ends behind the three slashes that open it, in the text.
LEMMA RawStringScanFacts ==
  ASSUME NEW t \in Text, NEW from \in Nat, from <= Len(t), SlashRun(t, from) >= 3
  PROVE  /\ RawStringScan(t, from) \in Scan
         /\ RawStringScan(t, from).status # "bad_escape"
         /\ from < RawStringScan(t, from).to /\ RawStringScan(t, from).to <= Len(t)
<1> DEFINE n == Len(t)
           D == 0 .. n
           r(i) == SlashRun(t, i)
           m == [i \in D |-> n - i]
           scan == RawRun(t)
<1>0. n \in Nat
  BY DEF Text
<1>a. \A i \in D : r(i) \in 0 .. 4 /\ i + r(i) <= n
  BY SlashRunFacts
<1> HIDE DEF scan
<1>8. RawStringScan(t, from) = scan[from + 3]
  BY RawRunIs DEF scan
<1>9. \A i \in D :
             /\ i = n => scan[i] = [status |-> "unterminated", to |-> n]
             /\ i # n /\ r(i) = 3 => scan[i] = [status |-> "closed", to |-> i + 3]
             /\ i # n /\ r(i) \in {2, 4} => scan[i] = scan[i + 2]
             /\ i # n /\ r(i) \notin {2, 3, 4} => scan[i] = scan[i + 1]
  BY RawRunIs DEF scan
<1> HIDE DEF n, r
<1> DEFINE good == { i \in D : /\ scan[i] \in Scan /\ scan[i].to <= n /\ scan[i].to >= i
                               /\ scan[i].status # "bad_escape" }
<1>10. ASSUME NEW i \in D, \A k \in D : m[k] < m[i] => k \in good
       PROVE  i \in good
  <2>0. i \in Nat /\ r(i) \in 0 .. 4 /\ i + r(i) <= n /\ i <= n
    BY <1>0, <1>a
  <2>1. CASE i = n
    <3>1. scan[i] = [status |-> "unterminated", to |-> n]
      BY <1>9, <2>1
    <3> QED BY <1>0, <2>1, <3>1 DEF Scan
  <2>2. CASE i # n /\ r(i) = 3
    <3>1. scan[i] = [status |-> "closed", to |-> i + 3]
      BY <1>9, <2>2
    <3> QED BY <1>0, <2>0, <2>2, <3>1 DEF Scan
  <2>3. CASE i # n /\ r(i) \in {2, 4}
    <3>1. scan[i] = scan[i + 2]
      BY <1>9, <2>3
    <3>2. i + 2 \in D /\ m[i + 2] < m[i]
      BY <1>0, <2>0, <2>3
    <3>3. i + 2 \in good
      BY <1>10, <3>2
    <3> QED BY <1>0, <2>0, <3>1, <3>3 DEF Scan
  <2>4. CASE i # n /\ r(i) \notin {2, 3, 4}
    <3>1. scan[i] = scan[i + 1]
      BY <1>9, <2>4
    <3>2. i + 1 \in D /\ m[i + 1] < m[i]
      BY <1>0, <2>0, <2>4
    <3>3. i + 1 \in good
      BY <1>10, <3>2
    <3> QED BY <1>0, <2>0, <3>1, <3>3 DEF Scan
  <2> QED BY <2>1, <2>2, <2>3, <2>4
<1>11. D \subseteq good
  <2>1. m \in [D -> Nat]
    BY <1>0
  <2> HIDE DEF D, good, m
  <2> QED BY <1>10, <2>1, MeasureInduction
<1>12. from + 3 \in D
  BY <1>0, <1>a DEF n, r
<1>13. from + 3 \in good
  BY <1>11, <1>12
<1> QED BY <1>0, <1>8, <1>12, <1>13 DEF n, Scan

-----------------------------------------------------------------------------
(* The tree that is built. *)

Stack == Seq([kind : Openers, opening_start : Nat])

\* The rightmost spine of a stream: one open node at every depth, each deeper
\* than the open ones before it, each as the stack says; and tokens in the
\* order of the text, behind the root and in front of the cursor.
Spine(stream, groups, offset) ==
  /\ Len(stream) > 0
  /\ \A i \in 1 .. Len(stream) : stream[i].kind = "root" <=> i = 1
  /\ stream[1].open /\ stream[1].depth = 0
  /\ \A i \in OpenNodes(stream) :
       /\ stream[i].kind \in {"root", "group"}
       /\ stream[i].depth <= Len(groups)
  /\ \A i, j \in OpenNodes(stream) : i < j => stream[i].depth < stream[j].depth
  /\ \A k \in 0 .. Len(groups) : \E i \in OpenNodes(stream) : stream[i].depth = k
  /\ \A i \in OpenGroups(stream) :
       groups[stream[i].depth] = [kind |-> stream[i].spelling, opening_start |-> stream[i].from]
  /\ \A i, j \in 2 .. Len(stream) : i < j => stream[i].from < stream[j].from
  /\ \A i \in 2 .. Len(stream) : stream[i].from < offset

\* What the spine is made of: attaching a comment changes none of it.
SameOutline(a, b) ==
  /\ Len(a) = Len(b)
  /\ \A i \in 1 .. Len(a) : /\ a[i].kind = b[i].kind /\ a[i].spelling = b[i].spelling
                            /\ a[i].from = b[i].from /\ a[i].to = b[i].to
                            /\ a[i].depth = b[i].depth /\ a[i].open = b[i].open

\* The fields of a node.
LEMMA NodeFields ==
  ASSUME NEW node \in Nodes
  PROVE  /\ node.kind \in {"root", "group", "ident", "punct", "literal"}
         /\ node.spelling \in Spellings /\ node.from \in Nat /\ node.to \in Nat
         /\ node.depth \in Nat /\ node.open \in BOOLEAN
         /\ node.lead \in Seq(Spans) /\ node.trail \in Seq(Spans)
         /\ node.prefix \in Seq(Spans) /\ node.suffix \in Seq(Spans)
BY DEF Nodes

\* Nodes of which some fields are replaced.
LEMMA NodePushed ==
  ASSUME NEW node \in Nodes, NEW depth \in Nat, NEW spans \in Seq(Spans)
  PROVE  [node EXCEPT !.depth = depth, !.lead = spans] \in Nodes
BY DEF Nodes

LEMMA NodeClosed ==
  ASSUME NEW node \in Nodes, NEW to \in Nat
  PROVE  [node EXCEPT !.open = FALSE, !.to = to] \in Nodes
BY DEF Nodes

LEMMA NodeAttached ==
  ASSUME NEW node \in Nodes, NEW spans \in Seq(Spans)
  PROVE  /\ [node EXCEPT !.trail = spans] \in Nodes
         /\ [node EXCEPT !.prefix = spans] \in Nodes
         /\ [node EXCEPT !.suffix = spans] \in Nodes
BY DEF Nodes

\* The receiving stream is the one at the depth of the stack's top.
LEMMA InnermostIs ==
  ASSUME NEW stream \in Seq(Nodes), NEW groups \in Stack, NEW offset \in Nat,
         Spine(stream, groups, offset)
  PROVE  /\ Innermost(stream) \in OpenNodes(stream)
         /\ Innermost(stream) \in 1 .. Len(stream)
         /\ \A j \in OpenNodes(stream) : j <= Innermost(stream)
         /\ stream[Innermost(stream)].depth = Len(groups)
<1>1. PICK i \in OpenNodes(stream) : stream[i].depth = Len(groups)
  <2>1. Len(groups) \in 0 .. Len(groups)
    BY DEF Stack
  <2> QED BY <2>1 DEF Spine
<1>2. OpenNodes(stream) \in SUBSET Nat /\ OpenNodes(stream) \subseteq 1 .. Len(stream)
  BY DEF OpenNodes
<1>3. \A j \in OpenNodes(stream) : j <= i
  <2> SUFFICES ASSUME NEW j \in OpenNodes(stream), i < j
               PROVE  FALSE
    BY <1>2
  <2>1. stream[j].depth > Len(groups)
    BY <1>1 DEF Spine
  <2>2. stream[j].depth <= Len(groups)
    BY DEF Spine
  <2>3. stream[j] \in Nodes
    BY <1>2
  <2> QED BY <2>1, <2>2, <2>3 DEF Nodes, Stack
<1>4. Innermost(stream) = i
  BY <1>2, <1>3, LargestIs DEF Innermost
<1> QED BY <1>1, <1>2, <1>3, <1>4

\* A stream with the same outline has the same spine.
LEMMA OutlineSpine ==
  ASSUME NEW a \in Seq(Nodes), NEW b \in Seq(Nodes), NEW groups \in Stack,
         NEW offset \in Nat, NEW later \in Nat, offset <= later,
         Spine(a, groups, offset), SameOutline(a, b)
  PROVE  Spine(b, groups, later) /\ OpenGroups(b) = OpenGroups(a)
<1>1. OpenNodes(b) = OpenNodes(a) /\ OpenGroups(b) = OpenGroups(a)
  BY DEF OpenNodes, OpenGroups, SameOutline
<1>2. OpenNodes(a) \subseteq 1 .. Len(a) /\ OpenGroups(a) \subseteq 1 .. Len(a)
  BY DEF OpenNodes, OpenGroups
<1>3. \A i \in 2 .. Len(b) : b[i].from < later
  <2> TAKE i \in 2 .. Len(b)
  <2>1. i \in 1 .. Len(a) /\ i \in 2 .. Len(a)
    BY DEF SameOutline
  <2>2. a[i].from < offset /\ a[i].from = b[i].from
    BY <2>1 DEF Spine, SameOutline
  <2>3. a[i].from \in Nat
    BY <2>1, NodeFields
  <2> QED BY <2>2, <2>3
<1>4. \A i, j \in 2 .. Len(b) : i < j => b[i].from < b[j].from
  <2> TAKE i, j \in 2 .. Len(b)
  <2>1. i \in 1 .. Len(a) /\ i \in 2 .. Len(a) /\ j \in 1 .. Len(a) /\ j \in 2 .. Len(a)
    BY DEF SameOutline
  <2> QED BY <2>1 DEF Spine, SameOutline
<1>5. 1 \in 1 .. Len(a)
  BY DEF Spine
<1>6. \A i \in OpenGroups(b) :
        groups[b[i].depth] = [kind |-> b[i].spelling, opening_start |-> b[i].from]
  BY <1>1, <1>2 DEF Spine, SameOutline
<1>7. /\ Len(b) > 0
      /\ \A i \in 1 .. Len(b) : b[i].kind = "root" <=> i = 1
      /\ b[1].open /\ b[1].depth = 0
  BY <1>5 DEF Spine, SameOutline
<1>8. /\ \A i \in OpenNodes(b) : b[i].kind \in {"root", "group"} /\ b[i].depth <= Len(groups)
      /\ \A i, j \in OpenNodes(b) : i < j => b[i].depth < b[j].depth
      /\ \A k \in 0 .. Len(groups) : \E i \in OpenNodes(b) : b[i].depth = k
  <2>1. \A i \in OpenNodes(a) : i \in 1 .. Len(a) /\ b[i].kind = a[i].kind /\ b[i].depth = a[i].depth
    BY <1>2 DEF SameOutline
  <2>2. /\ \A i \in OpenNodes(a) : a[i].kind \in {"root", "group"} /\ a[i].depth <= Len(groups)
        /\ \A i, j \in OpenNodes(a) : i < j => a[i].depth < a[j].depth
        /\ \A k \in 0 .. Len(groups) : \E i \in OpenNodes(a) : a[i].depth = k
    BY DEF Spine
  <2>3. \A k \in 0 .. Len(groups) : \E i \in OpenNodes(a) : b[i].depth = k
    BY <2>1, <2>2
  <2>4. \A i, j \in OpenNodes(a) : i < j => b[i].depth < b[j].depth
    BY <2>1, <2>2
  <2>5. \A i \in OpenNodes(a) : b[i].kind \in {"root", "group"} /\ b[i].depth <= Len(groups)
    BY <2>1, <2>2
  <2> QED BY <1>1, <2>3, <2>4, <2>5
<1> QED BY <1>1, <1>3, <1>4, <1>6, <1>7, <1>8 DEF Spine

\* What push does to a stream: the new node comes last, a child of the
\* receiving stream, and the others keep their outline.
LEMMA PushFacts ==
  ASSUME NEW stream \in Seq(Nodes), NEW node \in Nodes,
         Innermost(stream) \in 1 .. Len(stream)
  PROVE  LET new == Push(stream, node)
             n == Len(stream)
         IN  /\ new \in Seq(Nodes)
             /\ Len(new) = n + 1
             /\ \A i \in 1 .. n : /\ new[i].kind = stream[i].kind
                                  /\ new[i].spelling = stream[i].spelling
                                  /\ new[i].from = stream[i].from
                                  /\ new[i].to = stream[i].to
                                  /\ new[i].depth = stream[i].depth
                                  /\ new[i].open = stream[i].open
             /\ new[n + 1].kind = node.kind /\ new[n + 1].spelling = node.spelling
             /\ new[n + 1].from = node.from /\ new[n + 1].to = node.to
             /\ new[n + 1].open = node.open
             /\ new[n + 1].depth = stream[Innermost(stream)].depth + 1
<1> DEFINE g == Innermost(stream)
           n == Len(stream)
           kept == [stream EXCEPT ![g].suffix = <<>>]
           last == [node EXCEPT !.depth = stream[g].depth + 1, !.lead = stream[g].suffix]
<1>0. n \in Nat /\ \A i \in 1 .. n : stream[i] \in Nodes
  OBVIOUS
<1>1. stream[g] \in Nodes
  BY <1>0
<1>2. last \in Nodes /\ last.kind = node.kind /\ last.spelling = node.spelling
      /\ last.from = node.from /\ last.to = node.to /\ last.open = node.open
      /\ last.depth = stream[g].depth + 1
  <2>1. last \in Nodes
    <3>1. stream[g].depth + 1 \in Nat /\ stream[g].suffix \in Seq(Spans)
      BY <1>1, NodeFields
    <3> QED BY <3>1, NodePushed
  <2>2. node = [f \in DOMAIN node |-> node[f]] /\ {"kind", "spelling", "from", "to", "open", "depth"} \subseteq DOMAIN node
    BY DEF Nodes
  <2> QED BY <2>1, <2>2
<1>3. \A i \in 1 .. n :
        /\ kept[i] \in Nodes
        /\ kept[i].kind = stream[i].kind /\ kept[i].spelling = stream[i].spelling
        /\ kept[i].from = stream[i].from /\ kept[i].to = stream[i].to
        /\ kept[i].depth = stream[i].depth /\ kept[i].open = stream[i].open
  <2> TAKE i \in 1 .. n
  <2>1. CASE i # g
    BY <1>0, <2>1
  <2>2. CASE i = g
    <3>1. kept[i] = [stream[g] EXCEPT !.suffix = <<>>]
      BY <2>2
    <3>2. <<>> \in Seq(Spans)
      OBVIOUS
    <3>3. kept[i] \in Nodes
      BY <1>1, <3>1, <3>2, NodeAttached
    <3>4. stream[g] = [f \in DOMAIN stream[g] |-> stream[g][f]]
      BY <1>1 DEF Nodes
    <3> QED BY <2>2, <3>1, <3>3, <3>4
  <2> QED BY <2>1, <2>2
<1>4. kept \in Seq(Nodes) /\ Len(kept) = n
  <2>1. kept \in [1 .. n -> Nodes]
    <3>1. DOMAIN kept = 1 .. n /\ kept = [i \in 1 .. n |-> kept[i]]
      OBVIOUS
    <3> HIDE DEF kept
    <3> QED BY <1>3, <3>1
  <2> HIDE DEF kept
  <2> QED BY <1>0, <2>1
<1> HIDE DEF kept, last
<1>5. Push(stream, node) = Append(kept, last)
  BY DEF Push, kept, last
<1>6. Append(kept, last) \in Seq(Nodes) /\ Len(Append(kept, last)) = n + 1
      /\ (\A i \in 1 .. n : Append(kept, last)[i] = kept[i])
      /\ Append(kept, last)[n + 1] = last
  BY <1>2, <1>4
<1> QED BY <1>2, <1>3, <1>5, <1>6

\* The nodes behind the root stay in the order of the text when a node that
\* starts at the cursor is pushed.
LEMMA PushOrder ==
  ASSUME NEW stream \in Seq(Nodes), NEW groups \in Stack, NEW node \in Nodes,
         NEW later \in Nat, node.from < later, node.kind # "root",
         Spine(stream, groups, node.from)
  PROVE  LET new == Push(stream, node)
         IN  /\ Len(new) = Len(stream) + 1 /\ Len(new) > 0
             /\ \A i \in 1 .. Len(new) : new[i].kind = "root" <=> i = 1
             /\ new[1].open /\ new[1].depth = 0
             /\ \A i, j \in 2 .. Len(new) : i < j => new[i].from < new[j].from
             /\ \A i \in 2 .. Len(new) : new[i].from < later
<1> DEFINE new == Push(stream, node)
           n == Len(stream)
<1>0. n \in Nat /\ n > 0 /\ node.from \in Nat
  BY NodeFields DEF Spine
<1>1. /\ new \in Seq(Nodes) /\ Len(new) = n + 1
      /\ \A i \in 1 .. n : /\ new[i].kind = stream[i].kind /\ new[i].from = stream[i].from
                           /\ new[i].depth = stream[i].depth /\ new[i].open = stream[i].open
      /\ new[n + 1].kind = node.kind /\ new[n + 1].from = node.from
  <2>1. Innermost(stream) \in 1 .. Len(stream)
    BY <1>0, InnermostIs
  <2> QED BY <2>1, PushFacts
<1> HIDE DEF new, n
<1>2. \A i \in 1 .. n + 1 : i \in 1 .. n \/ i = n + 1
  BY <1>0
<1>3. \A i \in 1 .. n : stream[i].kind = "root" <=> i = 1
  BY DEF Spine, n
<1>4. \A i \in 1 .. n + 1 : new[i].kind = "root" <=> i = 1
  BY <1>0, <1>1, <1>2, <1>3
<1>5. new[1].open /\ new[1].depth = 0
  <2>1. 1 \in 1 .. n
    BY <1>0
  <2> QED BY <1>1, <2>1 DEF Spine
<1>6. \A i \in 2 .. n : new[i].from = stream[i].from /\ stream[i].from < node.from
                       /\ stream[i].from \in Nat
  <2> TAKE i \in 2 .. n
  <2>1. i \in 1 .. n
    BY <1>0
  <2>2. stream[i] \in Nodes
    BY <2>1 DEF n
  <2> QED BY <1>1, <2>1, <2>2, NodeFields DEF Spine, n
<1>7. \A i \in 2 .. n + 1 : i \in 2 .. n \/ i = n + 1
  BY <1>0
<1>8. \A i \in 2 .. n + 1 : new[i].from < later
  <2> TAKE i \in 2 .. n + 1
  <2>1. CASE i \in 2 .. n
    BY <1>0, <1>6, <2>1
  <2>2. CASE i = n + 1
    BY <1>1, <2>2
  <2> QED BY <1>7, <2>1, <2>2
<1>9. \A i, j \in 2 .. n + 1 : i < j => new[i].from < new[j].from
  <2> SUFFICES ASSUME NEW i \in 2 .. n + 1, NEW j \in 2 .. n + 1, i < j
               PROVE  new[i].from < new[j].from
    OBVIOUS
  <2>1. i \in 2 .. n
    BY <1>0
  <2>2. CASE j \in 2 .. n
    <3>1. stream[i].from < stream[j].from
      BY <2>1, <2>2 DEF Spine, n
    <3> QED BY <1>6, <2>1, <2>2, <3>1
  <2>3. CASE j = n + 1
    BY <1>1, <1>6, <2>1, <2>3
  <2> QED BY <1>7, <2>2, <2>3
<1> QED BY <1>0, <1>1, <1>4, <1>5, <1>8, <1>9 DEF new, n

\* A token, comment or not before it, leaves the spine as it is.
LEMMA PushTokenSpine ==
  ASSUME NEW stream \in Seq(Nodes), NEW groups \in Stack, NEW node \in Nodes,
         NEW later \in Nat, node.from < later, node.kind \notin {"root", "group"}, ~ node.open,
         Spine(stream, groups, node.from)
  PROVE  /\ Spine(Push(stream, node), groups, later)
         /\ OpenNodes(Push(stream, node)) = OpenNodes(stream)
<1> DEFINE new == Push(stream, node)
           n == Len(stream)
<1>0. n \in Nat /\ n > 0 /\ node.from \in Nat
  BY NodeFields DEF Spine
<1>1. /\ Len(new) = n + 1 /\ new \in Seq(Nodes)
      /\ \A i \in 1 .. n : /\ new[i].kind = stream[i].kind
                           /\ new[i].spelling = stream[i].spelling
                           /\ new[i].from = stream[i].from
                           /\ new[i].depth = stream[i].depth /\ new[i].open = stream[i].open
      /\ new[n + 1].open = node.open
  <2>1. Innermost(stream) \in 1 .. Len(stream)
    BY <1>0, InnermostIs
  <2> QED BY <2>1, PushFacts
<1>2. /\ Len(new) > 0
      /\ \A i \in 1 .. Len(new) : new[i].kind = "root" <=> i = 1
      /\ new[1].open /\ new[1].depth = 0
      /\ \A i, j \in 2 .. Len(new) : i < j => new[i].from < new[j].from
      /\ \A i \in 2 .. Len(new) : new[i].from < later
  BY PushOrder
<1> HIDE DEF new
<1>3. OpenNodes(new) = OpenNodes(stream)
  <2>1. DOMAIN new = 1 .. n + 1 /\ DOMAIN stream = 1 .. n
    BY <1>1
  <2>2. \A i \in 1 .. n + 1 : i \in 1 .. n \/ i = n + 1
    BY <1>0
  <2> QED BY <1>0, <1>1, <2>1, <2>2 DEF OpenNodes
<1>4. \A i \in OpenNodes(stream) :
        /\ new[i].kind = stream[i].kind /\ new[i].spelling = stream[i].spelling
        /\ new[i].from = stream[i].from /\ new[i].depth = stream[i].depth
  BY <1>1 DEF OpenNodes
<1>5. OpenGroups(new) = OpenGroups(stream)
  BY <1>3, <1>4 DEF OpenGroups
<1>6. \A i \in OpenNodes(new) : new[i].kind \in {"root", "group"} /\ new[i].depth <= Len(groups)
  BY <1>3, <1>4 DEF Spine
<1>7. \A i, j \in OpenNodes(new) : i < j => new[i].depth < new[j].depth
  BY <1>3, <1>4 DEF Spine
<1>8. \A k \in 0 .. Len(groups) : \E i \in OpenNodes(new) : new[i].depth = k
  <2> TAKE k \in 0 .. Len(groups)
  <2>1. PICK i \in OpenNodes(stream) : stream[i].depth = k
    BY DEF Spine
  <2> QED BY <1>3, <1>4, <2>1
<1>9. \A i \in OpenGroups(new) :
        groups[new[i].depth] = [kind |-> new[i].spelling, opening_start |-> new[i].from]
  BY <1>4, <1>5 DEF Spine, OpenGroups
<1>10. Spine(new, groups, later)
  BY <1>2, <1>6, <1>7, <1>8, <1>9 DEF Spine
<1> QED BY <1>3, <1>10 DEF new

\* An opened group is the new end of the spine, and the new top of the stack.
LEMMA PushGroupSpine ==
  ASSUME NEW stream \in Seq(Nodes), NEW groups \in Stack, NEW node \in Nodes,
         NEW later \in Nat, node.from < later, node.kind = "group", node.open,
         node.spelling \in Openers, Spine(stream, groups, node.from)
  PROVE  Spine(Push(stream, node),
               Append(groups, [kind |-> node.spelling, opening_start |-> node.from]), later)
<1> DEFINE new == Push(stream, node)
           n == Len(stream)
           top == [kind |-> node.spelling, opening_start |-> node.from]
           taller == Append(groups, top)
           h == Len(groups)
<1>0. n \in Nat /\ n > 0 /\ node.from \in Nat /\ h \in Nat
  BY NodeFields DEF Spine, Stack
<1>1. /\ Len(new) = n + 1 /\ new \in Seq(Nodes)
      /\ \A i \in 1 .. n : /\ new[i].kind = stream[i].kind
                           /\ new[i].spelling = stream[i].spelling
                           /\ new[i].from = stream[i].from
                           /\ new[i].depth = stream[i].depth /\ new[i].open = stream[i].open
      /\ new[n + 1].open /\ new[n + 1].kind = "group" /\ new[n + 1].from = node.from
      /\ new[n + 1].spelling = node.spelling /\ new[n + 1].depth = h + 1
  <2>1. Innermost(stream) \in 1 .. Len(stream) /\ stream[Innermost(stream)].depth = h
    BY <1>0, InnermostIs
  <2>2. /\ Len(new) = n + 1 /\ new \in Seq(Nodes)
        /\ \A i \in 1 .. n : /\ new[i].kind = stream[i].kind
                             /\ new[i].spelling = stream[i].spelling
                             /\ new[i].from = stream[i].from
                             /\ new[i].depth = stream[i].depth /\ new[i].open = stream[i].open
        /\ new[n + 1].open = node.open /\ new[n + 1].kind = node.kind
        /\ new[n + 1].from = node.from /\ new[n + 1].spelling = node.spelling
        /\ new[n + 1].depth = stream[Innermost(stream)].depth + 1
    BY <2>1, PushFacts
  <2> HIDE DEF new
  <2>3. new[n + 1].open
    BY <2>2
  <2> QED BY <2>1, <2>2, <2>3
<1>2. /\ Len(new) > 0
      /\ \A i \in 1 .. Len(new) : new[i].kind = "root" <=> i = 1
      /\ new[1].open /\ new[1].depth = 0
      /\ \A i, j \in 2 .. Len(new) : i < j => new[i].from < new[j].from
      /\ \A i \in 2 .. Len(new) : new[i].from < later
  BY PushOrder
<1>3. /\ Len(taller) = h + 1 /\ taller[h + 1] = top
      /\ \A k \in 1 .. h : taller[k] = groups[k]
  <2>1. top \in [kind : Openers, opening_start : Nat]
    BY <1>0
  <2> QED BY <2>1 DEF Stack
<1> HIDE DEF new, taller
<1>4. OpenNodes(new) = OpenNodes(stream) \cup {n + 1}
  <2>1. DOMAIN new = 1 .. n + 1 /\ DOMAIN stream = 1 .. n
    BY <1>1
  <2>2. \A i \in 1 .. n + 1 : i \in 1 .. n \/ i = n + 1
    BY <1>0
  <2> QED BY <1>0, <1>1, <2>1, <2>2 DEF OpenNodes
<1>5. \A i \in OpenNodes(stream) :
        /\ i \in 1 .. n /\ stream[i].depth \in Nat
        /\ new[i].kind = stream[i].kind /\ new[i].spelling = stream[i].spelling
        /\ new[i].from = stream[i].from /\ new[i].depth = stream[i].depth
  BY <1>1, NodeFields DEF OpenNodes
<1>6. \A i \in OpenNodes(new) : new[i].kind \in {"root", "group"} /\ new[i].depth <= h + 1
  <2>1. \A i \in OpenNodes(stream) : stream[i].kind \in {"root", "group"} /\ stream[i].depth <= h
    BY DEF Spine
  <2> QED BY <1>0, <1>1, <1>4, <1>5, <2>1
<1>7. \A i, j \in OpenNodes(new) : i < j => new[i].depth < new[j].depth
  <2> SUFFICES ASSUME NEW i \in OpenNodes(new), NEW j \in OpenNodes(new), i < j
               PROVE  new[i].depth < new[j].depth
    OBVIOUS
  <2>1. i \in OpenNodes(stream)
    BY <1>0, <1>4, <1>5
  <2>2. CASE j \in OpenNodes(stream)
    <3>1. stream[i].depth < stream[j].depth
      BY <2>1, <2>2 DEF Spine
    <3> QED BY <1>5, <2>1, <2>2, <3>1
  <2>3. CASE j = n + 1
    <3>1. stream[i].depth <= h
      BY <2>1 DEF Spine
    <3> QED BY <1>0, <1>1, <1>5, <2>1, <2>3, <3>1
  <2> QED BY <1>4, <2>2, <2>3
<1>8. \A k \in 0 .. h + 1 : \E i \in OpenNodes(new) : new[i].depth = k
  <2> TAKE k \in 0 .. h + 1
  <2>1. CASE k \in 0 .. h
    <3>1. PICK i \in OpenNodes(stream) : stream[i].depth = k
      BY <2>1 DEF Spine
    <3> QED BY <1>4, <1>5, <3>1
  <2>2. CASE k = h + 1
    BY <1>1, <1>4, <2>2
  <2> QED BY <1>0, <2>1, <2>2
<1>9. \A i \in OpenGroups(new) :
        taller[new[i].depth] = [kind |-> new[i].spelling, opening_start |-> new[i].from]
  <2> SUFFICES ASSUME NEW i \in OpenGroups(new)
               PROVE  taller[new[i].depth]
                        = [kind |-> new[i].spelling, opening_start |-> new[i].from]
    OBVIOUS
  <2>1. CASE i \in OpenNodes(stream)
    <3>1. i \in OpenGroups(stream)
      BY <1>5, <2>1 DEF OpenGroups
    <3>2. groups[stream[i].depth] = [kind |-> stream[i].spelling, opening_start |-> stream[i].from]
      BY <3>1 DEF Spine
    <3>3. stream[i].depth \in 1 .. h
      <4>1. stream[i].depth <= h
        BY <2>1 DEF Spine
      <4>2. i # 1
        BY <2>1, <1>0, <3>1 DEF Spine, OpenGroups
      <4>3. 1 \in OpenNodes(stream) /\ stream[1].depth = 0
        <5>1. 1 \in DOMAIN stream
          BY <1>0
        <5> QED BY <5>1 DEF Spine, OpenNodes
      <4>4. stream[1].depth < stream[i].depth
        <5>1. 1 < i
          BY <1>5, <2>1, <4>2
        <5> QED BY <2>1, <4>3, <5>1 DEF Spine
      <4> QED BY <1>0, <1>5, <2>1, <4>1, <4>3, <4>4
    <3> QED BY <1>3, <1>5, <2>1, <3>2, <3>3
  <2>2. CASE i = n + 1
    BY <1>1, <1>3, <2>2
  <2> QED BY <1>4, <2>1, <2>2 DEF OpenGroups
<1>10. Spine(new, taller, later)
  BY <1>2, <1>3, <1>6, <1>7, <1>8, <1>9 DEF Spine
<1> QED BY <1>10 DEF new, taller

\* The innermost open group is the one a closer completes, and completing it
\* takes the top off the spine.
LEMMA CompleteSpine ==
  ASSUME NEW stream \in Seq(Nodes), NEW groups \in Stack, NEW offset \in Nat,
         NEW later \in Nat, offset <= later, Len(groups) > 0,
         Spine(stream, groups, offset)
  PROVE  LET kind == groups[Len(groups)].kind
             new == CompleteLastGroup(stream, kind, later)
         IN  /\ Completable(stream, kind) # {}
             /\ new \in Seq(Nodes)
             /\ Len(new) = Len(stream)
             /\ \A i \in 1 .. Len(stream) : /\ new[i].kind = stream[i].kind
                                           /\ new[i].spelling = stream[i].spelling
             /\ Spine(new, SubSeq(groups, 1, Len(groups) - 1), later)
<1> DEFINE h == Len(groups)
           n == Len(stream)
           kind == groups[h].kind
           g == Innermost(stream)
           new == CompleteLastGroup(stream, kind, later)
           lower == SubSeq(groups, 1, h - 1)
<1>0. n \in Nat /\ h \in Nat /\ h > 0
  BY DEF Stack
<1>1. /\ g \in OpenNodes(stream) /\ g \in 1 .. n /\ stream[g].depth = h /\ stream[g] \in Nodes
      /\ \A j \in OpenNodes(stream) : j <= g
  BY InnermostIs
<1> HIDE DEF g
<1>2. g # 1 /\ stream[g].kind = "group" /\ g \in OpenGroups(stream)
  BY <1>0, <1>1 DEF Spine, OpenGroups
<1>3. groups[h] = [kind |-> stream[g].spelling, opening_start |-> stream[g].from]
  BY <1>1, <1>2 DEF Spine
<1>4. g \in Completable(stream, kind)
  BY <1>1, <1>2, <1>3 DEF Completable
<1>5. LargestOf(Completable(stream, kind)) = g
  <2>1. Completable(stream, kind) \in SUBSET Nat /\ \A j \in Completable(stream, kind) : j <= g
    BY <1>1 DEF Completable, OpenNodes
  <2> QED BY <1>4, <2>1, LargestIs
<1> DEFINE closed == [stream[g] EXCEPT !.open = FALSE, !.to = later]
<1>6. new = [stream EXCEPT ![g] = closed]
  BY <1>1, <1>5 DEF CompleteLastGroup
<1>7. closed \in Nodes
  BY <1>1, NodeClosed
<1>8. closed.kind = stream[g].kind /\ closed.spelling = stream[g].spelling
      /\ closed.from = stream[g].from /\ closed.depth = stream[g].depth /\ ~ closed.open
  BY <1>1 DEF Nodes
<1> HIDE DEF new, closed
<1>9. new \in Seq(Nodes) /\ Len(new) = n /\ new[g] = closed
      /\ \A i \in 1 .. n : i # g => new[i] = stream[i]
  BY <1>1, <1>6, <1>7
<1>10. \A i \in 1 .. n : /\ new[i].kind = stream[i].kind /\ new[i].spelling = stream[i].spelling
                        /\ new[i].from = stream[i].from /\ new[i].depth = stream[i].depth
  BY <1>8, <1>9
<1>11. OpenNodes(new) = OpenNodes(stream) \ {g}
  <2>1. DOMAIN new = 1 .. n /\ DOMAIN stream = 1 .. n
    BY <1>9
  <2> QED BY <1>1, <1>8, <1>9, <2>1 DEF OpenNodes
<1>12. \A i \in OpenNodes(new) :
         /\ i \in OpenNodes(stream) /\ i \in 1 .. n /\ i < g
         /\ stream[i].depth \in Nat /\ stream[i].depth < h
  <2> TAKE i \in OpenNodes(new)
  <2>1. i \in OpenNodes(stream) /\ i # g /\ i \in 1 .. n
    BY <1>11 DEF OpenNodes
  <2>2. i < g
    BY <1>1, <2>1
  <2>3. stream[i].depth < stream[g].depth
    BY <1>1, <2>1, <2>2 DEF Spine
  <2>4. stream[i] \in Nodes
    BY <2>1
  <2> QED BY <1>1, <2>1, <2>2, <2>3, <2>4, NodeFields
<1>13. Len(lower) = h - 1 /\ \A k \in 1 .. h - 1 : lower[k] = groups[k]
  <2>1. groups \in Seq([kind : Openers, opening_start : Nat])
    BY DEF Stack
  <2>2. /\ Len(SubSeq(groups, 1, h - 1)) = IF 1 <= h - 1 THEN h - 1 - 1 + 1 ELSE 0
        /\ \A k \in 1 .. h - 1 - 1 + 1 : SubSeq(groups, 1, h - 1)[k] = groups[1 + k - 1]
    <3> DEFINE S == [kind : Openers, opening_start : Nat]
    <3> HIDE DEF S, h
    <3>1. \A k \in 1 .. Len(groups) : groups[k] \in S
      BY <2>1, ElementOfSeq DEF S
    <3>2. \A k \in 1 .. h - 1 : groups[k] \in S
      BY <1>0, <3>1 DEF h
    <3>3. 1 \in Int /\ h - 1 \in Int
      BY <1>0
    <3> QED BY <3>2, <3>3, SubSeqProperties
  <2>3. h - 1 - 1 + 1 = h - 1 /\ (~ (1 <= h - 1) => h - 1 = 0)
        /\ \A k \in 1 .. h - 1 : 1 + k - 1 = k
    <3> HIDE DEF h
    <3> QED BY <1>0
  <2> HIDE DEF h
  <2>4. Len(SubSeq(groups, 1, h - 1)) = h - 1
    BY <2>2, <2>3
  <2>5. \A k \in 1 .. h - 1 : SubSeq(groups, 1, h - 1)[k] = groups[k]
    BY <2>2, <2>3
  <2> QED BY <2>4, <2>5
<1> HIDE DEF lower
<1>14. /\ Len(new) > 0
       /\ \A i \in 1 .. Len(new) : new[i].kind = "root" <=> i = 1
       /\ new[1].open /\ new[1].depth = 0
  <2>1. 1 \in 1 .. n /\ new[1] = stream[1]
    BY <1>1, <1>2, <1>9
  <2> QED BY <1>9, <1>10, <2>1 DEF Spine
<1>15. \A i \in OpenNodes(new) : new[i].kind \in {"root", "group"} /\ new[i].depth <= h - 1
  BY <1>0, <1>10, <1>12 DEF Spine
<1>16. \A i, j \in OpenNodes(new) : i < j => new[i].depth < new[j].depth
  BY <1>10, <1>12 DEF Spine
<1>17. \A k \in 0 .. h - 1 : \E i \in OpenNodes(new) : new[i].depth = k
  <2> TAKE k \in 0 .. h - 1
  <2>1. k \in 0 .. h /\ k # h
    BY <1>0
  <2>2. PICK i \in OpenNodes(stream) : stream[i].depth = k
    BY <2>1 DEF Spine
  <2>3. i # g
    BY <1>1, <2>1, <2>2
  <2> QED BY <1>10, <1>11, <1>12, <2>2, <2>3
<1>18. \A i \in OpenGroups(new) :
         lower[new[i].depth] = [kind |-> new[i].spelling, opening_start |-> new[i].from]
  <2> SUFFICES ASSUME NEW i \in OpenGroups(new)
               PROVE  lower[new[i].depth]
                        = [kind |-> new[i].spelling, opening_start |-> new[i].from]
    OBVIOUS
  <2>1. i \in OpenNodes(new) /\ new[i].kind = "group"
    BY DEF OpenGroups
  <2>2. i \in OpenGroups(stream)
    BY <1>10, <1>12, <2>1 DEF OpenGroups
  <2>3. groups[stream[i].depth] = [kind |-> stream[i].spelling, opening_start |-> stream[i].from]
    BY <2>2 DEF Spine
  <2>4. stream[i].depth \in 1 .. h - 1
    <3>1. i # 1
      BY <1>10, <1>12, <2>1 DEF Spine
    <3>2. 1 \in OpenNodes(stream) /\ stream[1].depth = 0 /\ 1 < i
      BY <1>12, <2>1, <3>1 DEF Spine, OpenNodes
    <3>3. stream[1].depth < stream[i].depth
      BY <1>12, <2>1, <3>2 DEF Spine
    <3> QED BY <1>0, <1>12, <2>1, <3>2, <3>3
  <2> QED BY <1>10, <1>12, <1>13, <2>1, <2>3, <2>4
<1>19. \A i, j \in 2 .. n : i < j => new[i].from < new[j].from
  <2> TAKE i, j \in 2 .. n
  <2>1. i \in 1 .. n /\ j \in 1 .. n
    BY <1>0
  <2> QED BY <1>10, <2>1 DEF Spine
<1>20. \A i \in 2 .. n : new[i].from < later
  <2> TAKE i \in 2 .. n
  <2>1. i \in 1 .. n /\ stream[i] \in Nodes
    BY <1>0
  <2>2. stream[i].from < offset /\ stream[i].from \in Nat
    BY <2>1, NodeFields DEF Spine
  <2> QED BY <1>10, <2>1, <2>2
<1>21. Spine(new, lower, later)
  BY <1>9, <1>13, <1>14, <1>15, <1>16, <1>17, <1>18, <1>19, <1>20 DEF Spine
<1> QED BY <1>4, <1>9, <1>10, <1>21 DEF new, lower

\* The last token read decides whether the next one is quoted.
LEMMA PushQuotes ==
  ASSUME NEW stream \in Seq(Nodes), NEW groups \in Stack, NEW node \in Nodes,
         NEW later \in Nat, node.from < later, node.kind \notin {"root", "group"}, ~ node.open,
         Spine(stream, groups, node.from)
  PROVE  QuotesNext(Push(stream, node)) = Specifier(node)
<1> DEFINE new == Push(stream, node)
           n == Len(stream)
           g == Innermost(stream)
<1>0. n \in Nat
  OBVIOUS
<1>1. OpenNodes(new) = OpenNodes(stream)
  BY PushTokenSpine
<1>2. Innermost(new) = g
  BY <1>1 DEF Innermost
<1>3. g \in 1 .. n
  BY InnermostIs, NodeFields
<1>4. /\ new \in Seq(Nodes) /\ Len(new) = n + 1
      /\ new[n + 1].kind = node.kind /\ new[n + 1].spelling = node.spelling
      /\ new[n + 1].depth = stream[g].depth + 1
      /\ new[g].depth = stream[g].depth
  BY <1>3, PushFacts
<1> HIDE DEF new, g
<1>5. n + 1 \in ChildrenOf(new, g) /\ ChildrenOf(new, g) \in SUBSET Nat
      /\ \A j \in ChildrenOf(new, g) : j <= n + 1
  BY <1>0, <1>3, <1>4 DEF ChildrenOf
<1>6. LargestOf(ChildrenOf(new, g)) = n + 1
  BY <1>5, LargestIs
<1>7. LastTree(new, g) = n + 1
  BY <1>5, <1>6 DEF LastTree
<1>8. LastInnermost(new) = n + 1
  BY <1>0, <1>2, <1>7 DEF LastInnermost
<1>9. QuotesNext(new) = Specifier(node)
  BY <1>4, <1>8 DEF QuotesNext, Specifier
<1> QED BY <1>9 DEF new

-----------------------------------------------------------------------------
(* Comments. *)

Suffixed(stream, i, spans) == [stream EXCEPT ![i].suffix = spans]
Prefixed(stream, i, spans) == [stream EXCEPT ![i].prefix = spans]
Trailed(stream, i, spans) == [stream EXCEPT ![i].trail = spans]

\* Comments change no outline, wherever they are attached.
LEMMA Attached ==
  ASSUME NEW stream \in Seq(Nodes), NEW i \in 1 .. Len(stream), NEW spans \in Seq(Spans)
  PROVE  /\ Suffixed(stream, i, spans) \in Seq(Nodes)
         /\ SameOutline(stream, Suffixed(stream, i, spans))
         /\ Prefixed(stream, i, spans) \in Seq(Nodes)
         /\ SameOutline(stream, Prefixed(stream, i, spans))
         /\ Trailed(stream, i, spans) \in Seq(Nodes)
         /\ SameOutline(stream, Trailed(stream, i, spans))
<1>0. stream[i] \in Nodes
  OBVIOUS
<1>1. ASSUME NEW node \in Nodes, node.kind = stream[i].kind,
             node.spelling = stream[i].spelling, node.from = stream[i].from,
             node.to = stream[i].to,
             node.depth = stream[i].depth, node.open = stream[i].open
      PROVE  /\ [stream EXCEPT ![i] = node] \in Seq(Nodes)
             /\ SameOutline(stream, [stream EXCEPT ![i] = node])
  BY <1>1 DEF SameOutline
<1>2. stream[i] = [f \in DOMAIN stream[i] |-> stream[i][f]]
      /\ {"kind", "spelling", "from", "to", "open", "depth", "suffix", "prefix", "trail"}
           \subseteq DOMAIN stream[i]
  BY <1>0 DEF Nodes
<1>3. /\ [stream EXCEPT ![i].suffix = spans] = [stream EXCEPT ![i] = [stream[i] EXCEPT !.suffix = spans]]
      /\ [stream EXCEPT ![i].prefix = spans] = [stream EXCEPT ![i] = [stream[i] EXCEPT !.prefix = spans]]
      /\ [stream EXCEPT ![i].trail = spans] = [stream EXCEPT ![i] = [stream[i] EXCEPT !.trail = spans]]
  OBVIOUS
<1>4. /\ [stream EXCEPT ![i].suffix = spans] \in Seq(Nodes)
      /\ SameOutline(stream, [stream EXCEPT ![i].suffix = spans])
  <2> DEFINE node == [stream[i] EXCEPT !.suffix = spans]
  <2>1. node \in Nodes
    BY <1>0, NodeAttached
  <2>2. /\ node.kind = stream[i].kind
        /\ node.spelling = stream[i].spelling
        /\ node.from = stream[i].from /\ node.to = stream[i].to
        /\ node.depth = stream[i].depth /\ node.open = stream[i].open
    BY <1>2
  <2> HIDE DEF node
  <2> QED BY <1>1, <1>3, <2>1, <2>2 DEF node
<1>5. /\ [stream EXCEPT ![i].prefix = spans] \in Seq(Nodes)
      /\ SameOutline(stream, [stream EXCEPT ![i].prefix = spans])
  <2> DEFINE node == [stream[i] EXCEPT !.prefix = spans]
  <2>1. node \in Nodes
    BY <1>0, NodeAttached
  <2>2. /\ node.kind = stream[i].kind
        /\ node.spelling = stream[i].spelling
        /\ node.from = stream[i].from /\ node.to = stream[i].to
        /\ node.depth = stream[i].depth /\ node.open = stream[i].open
    BY <1>2
  <2> HIDE DEF node
  <2> QED BY <1>1, <1>3, <2>1, <2>2 DEF node
<1>6. /\ [stream EXCEPT ![i].trail = spans] \in Seq(Nodes)
      /\ SameOutline(stream, [stream EXCEPT ![i].trail = spans])
  <2> DEFINE node == [stream[i] EXCEPT !.trail = spans]
  <2>1. node \in Nodes
    BY <1>0, NodeAttached
  <2>2. /\ node.kind = stream[i].kind
        /\ node.spelling = stream[i].spelling
        /\ node.from = stream[i].from /\ node.to = stream[i].to
        /\ node.depth = stream[i].depth /\ node.open = stream[i].open
    BY <1>2
  <2> HIDE DEF node
  <2> QED BY <1>1, <1>3, <2>1, <2>2 DEF node
<1> QED BY <1>4, <1>5, <1>6 DEF Suffixed, Prefixed, Trailed

\* A comment that trails: on the last tree of the stream, or in its prefix.
LEMMA TrailingAttached ==
  ASSUME NEW stream \in Seq(Nodes), NEW g \in 1 .. Len(stream), NEW comment \in Spans
  PROVE  /\ PushTrailing(stream, g, comment) \in Seq(Nodes)
         /\ SameOutline(stream, PushTrailing(stream, g, comment))
<1>1. LastTree(stream, g) # 0 => LastTree(stream, g) \in 1 .. Len(stream)
  <2>1. ChildrenOf(stream, g) \subseteq 1 .. Len(stream) /\ ChildrenOf(stream, g) \subseteq 0 .. Len(stream)
    BY DEF ChildrenOf
  <2>2. Len(stream) \in Nat
    OBVIOUS
  <2> QED BY <2>1, <2>2, LargestIn DEF LastTree
<1>2. CASE LastTree(stream, g) # 0
  <2> DEFINE i == LastTree(stream, g)
  <2>1. i \in 1 .. Len(stream) /\ stream[i] \in Nodes
    BY <1>1, <1>2
  <2>2. Append(stream[i].trail, comment) \in Seq(Spans)
    BY <2>1, NodeFields
  <2>3. PushTrailing(stream, g, comment)
          = Trailed(stream, i, Append(stream[i].trail, comment))
    BY <1>2, <2>1 DEF PushTrailing, Trailed
  <2> HIDE DEF i
  <2> QED BY <2>1, <2>2, <2>3, Attached
<1>3. CASE LastTree(stream, g) = 0
  <2>1. Append(stream[g].prefix, comment) \in Seq(Spans)
    BY NodeFields
  <2>2. PushTrailing(stream, g, comment)
          = Prefixed(stream, g, Append(stream[g].prefix, comment))
    BY <1>3 DEF PushTrailing, Prefixed
  <2> QED BY <2>1, <2>2, Attached
<1> QED BY <1>2, <1>3

\* A block comment.
LEMMA BlockAttached ==
  ASSUME NEW stream \in Seq(Nodes), Innermost(stream) \in 1 .. Len(stream),
         NEW from \in Nat, NEW to \in Nat
  PROVE  /\ PushBlockComment(stream, from, to) \in Seq(Nodes)
         /\ SameOutline(stream, PushBlockComment(stream, from, to))
<1> DEFINE g == Innermost(stream)
           comment == Comment("block", from, to)
<1>1. comment \in Spans
  BY DEF Comment, Spans
<1>2. Append(stream[g].suffix, comment) \in Seq(Spans)
  BY <1>1, NodeFields
<1> HIDE DEF comment
<1>3. CASE LastTree(stream, g) = 0 /\ stream[g].suffix # <<>>
  <2>1. PushBlockComment(stream, from, to)
          = Suffixed(stream, g, Append(stream[g].suffix, comment))
    BY <1>3 DEF PushBlockComment, Suffixed, comment
  <2> QED BY <1>2, <2>1, Attached
<1>4. CASE ~ (LastTree(stream, g) = 0 /\ stream[g].suffix # <<>>)
  <2>1. PushBlockComment(stream, from, to) = PushTrailing(stream, g, comment)
    BY <1>4 DEF PushBlockComment, comment
  <2> QED BY <1>1, <2>1, TrailingAttached
<1> QED BY <1>3, <1>4

\* A line comment, which may extend the one before it.
LEMMA LineAttached ==
  ASSUME NEW stream \in Seq(Nodes), Innermost(stream) \in 1 .. Len(stream),
         NEW t \in Text, NEW from \in Nat, NEW to \in Nat
  PROVE  /\ PushLineComment(stream, t, from, to) \in Seq(Nodes)
         /\ SameOutline(stream, PushLineComment(stream, t, from, to))
<1> DEFINE g == Innermost(stream)
           whole == Comment("line", LineStart(t, from), to)
           comment == Comment("line", from, to)
           longer == ExtendBlock(t, stream[g].suffix, whole)
<1>1. LineStart(t, from) \in Nat
  <2> DEFINE S == {0} \cup { i \in 1 .. from : t[i] = "NL" }
  <2>1. S \subseteq 0 .. from /\ S # {}
    OBVIOUS
  <2> HIDE DEF S
  <2>2. LargestOf(S) \in S
    BY <2>1, LargestIn
  <2> QED BY <2>1, <2>2 DEF LineStart, S
<1>2. whole \in Spans /\ comment \in Spans
  BY <1>1 DEF Comment, Spans
<1>3. stream[g].suffix \in Seq(Spans)
  BY NodeFields
<1> HIDE DEF whole, comment
<1>4. longer \in Seq(Spans)
  <2> DEFINE c == stream[g].suffix
             n == Len(c)
  <2>1. CASE n > 0 /\ SameBlock(t, c[n], whole)
    <3> HIDE DEF c
    <3>1. n \in 1 .. Len(c) /\ c \in Seq(Spans)
      BY <1>3, <2>1 DEF c
    <3>2. c[n] \in Spans
      BY <3>1, ElementOfSeq
    <3>3. [c[n] EXCEPT !.to = whole.to] \in Spans
      BY <1>2, <3>2 DEF Spans
    <3>4. [c EXCEPT ![n].to = whole.to] = [c EXCEPT ![n] = [c[n] EXCEPT !.to = whole.to]]
      OBVIOUS
    <3>5. [c EXCEPT ![n].to = whole.to] \in Seq(Spans)
      <4> DEFINE span == [c[n] EXCEPT !.to = whole.to]
      <4> HIDE DEF span
      <4>1. span \in Spans
        BY <3>3 DEF span
      <4>2. [c EXCEPT ![n] = span] \in Seq(Spans)
        BY <3>1, <4>1
      <4> QED BY <3>4, <4>2 DEF span
    <3> QED BY <2>1, <3>5 DEF ExtendBlock, c
  <2>2. CASE ~ (n > 0 /\ SameBlock(t, c[n], whole))
    BY <1>2, <1>3, <2>2 DEF ExtendBlock
  <2> QED BY <2>1, <2>2
<1> HIDE DEF longer
<1>5. CASE IsCompleteLine(t, from)
  <2>1. PushLineComment(stream, t, from, to) = Suffixed(stream, g, longer)
    BY <1>5 DEF PushLineComment, Suffixed, longer, whole
  <2> QED BY <1>4, <2>1, Attached
<1>6. CASE ~ IsCompleteLine(t, from)
  <2>1. PushLineComment(stream, t, from, to) = PushTrailing(stream, g, comment)
    BY <1>6 DEF PushLineComment, comment
  <2> QED BY <1>2, <2>1, TrailingAttached
<1> QED BY <1>5, <1>6

-----------------------------------------------------------------------------
(* Quoting. *)

\* The specifiers a stream ends in, and whether their number is odd.
Run(stream) == { i \in DOMAIN stream : \A j \in i .. Len(stream) : Specifier(stream[j]) }

OddRun(stream) == \E i \in Run(stream) : (i - 1) \notin Run(stream) /\ (Len(stream) - i) % 2 = 0

\* Only kinds and spellings matter.
LEMMA SameRun ==
  ASSUME NEW a \in Seq(Nodes), NEW b \in Seq(Nodes), Len(a) = Len(b),
         \A i \in 1 .. Len(a) : a[i].kind = b[i].kind /\ a[i].spelling = b[i].spelling
  PROVE  OddRun(a) = OddRun(b)
<1>1. \A i \in 1 .. Len(a) : Specifier(a[i]) = Specifier(b[i])
  BY DEF Specifier
<1>2. Run(a) = Run(b)
  <2>1. \A i \in 1 .. Len(a) : \A j \in i .. Len(a) : j \in 1 .. Len(a)
    OBVIOUS
  <2>2. DOMAIN a = 1 .. Len(a) /\ DOMAIN b = 1 .. Len(a)
    OBVIOUS
  <2> QED BY <1>1, <2>1, <2>2 DEF Run
<1> QED BY <1>2 DEF OddRun

\* A specifier turns the parity over, any other token ends the run.
LEMMA RunGrows ==
  ASSUME NEW a \in Seq(Nodes), NEW b \in Seq(Nodes), Len(b) = Len(a) + 1,
         \A i \in 1 .. Len(a) : a[i].kind = b[i].kind /\ a[i].spelling = b[i].spelling
  PROVE  OddRun(b) = (Specifier(b[Len(b)]) /\ ~ OddRun(a))
<1> DEFINE n == Len(a)
           r == Run(a)
           s == Run(b)
<1>0. n \in Nat /\ DOMAIN a = 1 .. n /\ DOMAIN b = 1 .. n + 1 /\ Len(b) = n + 1
  OBVIOUS
<1>1. \A i \in 1 .. n : Specifier(a[i]) = Specifier(b[i])
  BY DEF Specifier
<1> HIDE DEF n
<1>2. \A i : i \in r <=> i \in 1 .. n /\ \A j \in i .. n : Specifier(a[j])
  BY <1>0 DEF Run, n
<1>3. \A i : i \in s <=> i \in 1 .. n + 1 /\ \A j \in i .. n + 1 : Specifier(b[j])
  BY <1>0 DEF Run
<1> HIDE DEF r, s
<1>4. CASE ~ Specifier(b[n + 1])
  <2>1. \A i : i \notin s
    <3> SUFFICES ASSUME NEW i, i \in s
                 PROVE  FALSE
      OBVIOUS
    <3>1. n + 1 \in i .. n + 1
      BY <1>0, <1>3
    <3> QED BY <1>3, <1>4, <3>1
  <2> QED BY <1>0, <1>4, <2>1 DEF OddRun, s
<1>5. CASE Specifier(b[n + 1])
  <2>1. \A i \in 1 .. n : i \in s <=> i \in r
    <3> TAKE i \in 1 .. n
    <3>1. \A j \in i .. n + 1 : j \in i .. n \/ j = n + 1
      BY <1>0
    <3>2. \A j \in i .. n : j \in i .. n + 1 /\ j \in 1 .. n
      BY <1>0
    <3>3. i \in 1 .. n + 1
      BY <1>0
    <3>4. (\A j \in i .. n + 1 : Specifier(b[j])) <=> (\A j \in i .. n : Specifier(a[j]))
      BY <1>1, <1>5, <3>1, <3>2
    <3> QED BY <1>2, <1>3, <3>3, <3>4
  <2>2. n + 1 \in s
    <3>1. \A j \in n + 1 .. n + 1 : j = n + 1
      BY <1>0
    <3> QED BY <1>0, <1>3, <1>5, <3>1
  <2>3. \A i \in s : i \in 1 .. n + 1
    BY <1>3
  <2>4. \A i \in s, j \in 1 .. n + 1 : i <= j => j \in s
    <3> SUFFICES ASSUME NEW i \in s, NEW j \in 1 .. n + 1, i <= j
                 PROVE  j \in s
      OBVIOUS
    <3>1. \A k \in j .. n + 1 : k \in i .. n + 1
      BY <1>0, <2>3
    <3> QED BY <1>3, <3>1
  <2>5. ASSUME ~ OddRun(a)
        PROVE  OddRun(b)
    <3>1. CASE r = {}
      <4>1. (n + 1) - 1 \notin s
        <5>1. (n + 1) - 1 = n /\ (n \in 1 .. n \/ n = 0)
          BY <1>0
        <5> QED BY <1>0, <2>1, <2>3, <3>1, <5>1
      <4>2. (Len(b) - (n + 1)) % 2 = 0
        BY <1>0
      <4> QED BY <2>2, <4>1, <4>2 DEF OddRun, s
    <3>2. CASE r # {}
      <4>0. r \subseteq Nat /\ r \subseteq 1 .. n
        BY <1>0, <1>2
      <4>1. PICK i \in r : \A j \in r : i <= j
        BY <3>2, <4>0, LeastMember
      <4>2. i - 1 \notin r
        BY <4>0, <4>1
      <4>3. (n - i) % 2 # 0
        BY <2>5, <4>2 DEF OddRun, r, n
      <4>4. (Len(b) - i) % 2 = 0
        BY <1>0, <4>0, <4>3
      <4>5. i \in s /\ i \in 1 .. n
        BY <2>1, <4>0
      <4>6. i - 1 \notin s
        <5>1. i - 1 \in 1 .. n \/ i - 1 = 0
          BY <1>0, <4>5
        <5> QED BY <1>0, <2>1, <2>3, <4>2, <5>1
      <4> QED BY <4>4, <4>5, <4>6 DEF OddRun, s
    <3> QED BY <3>1, <3>2
  <2>6. ASSUME OddRun(a), OddRun(b)
        PROVE  FALSE
    <3>1. PICK i \in r : i - 1 \notin r /\ (n - i) % 2 = 0
      BY <2>6 DEF OddRun, r, n
    <3>2. PICK k \in s : k - 1 \notin s /\ (Len(b) - k) % 2 = 0
      BY <2>6 DEF OddRun, s
    <3>3. i \in 1 .. n /\ i \in s /\ k \in 1 .. n + 1
      BY <1>2, <2>1, <2>3
    <3>4. ~ (i < k)
      <4> SUFFICES ASSUME i < k
                   PROVE  FALSE
        OBVIOUS
      <4>1. k - 1 \in 1 .. n + 1 /\ i <= k - 1
        BY <1>0, <3>3
      <4> QED BY <2>4, <3>2, <3>3, <4>1
    <3>5. ~ (k < i)
      <4> SUFFICES ASSUME k < i
                   PROVE  FALSE
        OBVIOUS
      <4>1. i - 1 \in 1 .. n + 1 /\ k <= i - 1 /\ i - 1 \in 1 .. n
        BY <1>0, <3>3
      <4>2. i - 1 \in s
        BY <2>4, <4>1
      <4> QED BY <2>1, <3>1, <4>1, <4>2
    <3>6. i = k
      BY <1>0, <3>3, <3>4, <3>5
    <3>7. (n - i) % 2 = 0 /\ (Len(b) - i) % 2 = 0
      BY <3>1, <3>2, <3>6
    <3>8. n \in Nat /\ Len(b) = n + 1
      BY <1>0
    <3>9. i \in 1 .. n
      BY <3>3
    <3> QED BY <3>7, <3>8, <3>9
  <2>7. OddRun(a) \in BOOLEAN /\ OddRun(b) \in BOOLEAN
    BY DEF OddRun
  <2> QED BY <1>0, <1>5, <2>5, <2>6, <2>7
<1> QED BY <1>4, <1>5

-----------------------------------------------------------------------------
(* The inductive invariant, of a text and the locals of the loop. *)

\* No group is diagnosed before the end of the input.
Unreported(diagnostics) == \A k \in 1 .. Len(diagnostics) : diagnostics[k].kind # "UnterminatedGroup"

\* UnclosedReported, of a lexer that is done.
Reported(x) ==
  LET reports == { k \in DOMAIN x.diagnostics : x.diagnostics[k].kind = "UnterminatedGroup" }
  IN  /\ { x.diagnostics[k].from : k \in reports } = { x.stream[i].from : i \in OpenGroups(x.stream) }
      /\ \A j, k \in reports : j < k => x.diagnostics[k].from < x.diagnostics[j].from

Sound(t, x) ==
  /\ x \in Lexers
  /\ x.offset <= Len(t)
  /\ Len(x.groups) <= MaxGroupDepth
  /\ x.error # "assert"
  /\ x.error = "none" => x.quote_next = OddRun(x.stream)
  /\ Running(x) => Spine(x.stream, x.groups, x.offset) /\ Unreported(x.diagnostics)
  /\ x.done => Reported(x)

IInv == text \in Texts /\ Sound(text, lexer)

\* The fields of the locals.
LEMMA LexerFields ==
  ASSUME NEW x \in Lexers
  PROVE  /\ x.offset \in Nat /\ x.groups \in Stack /\ x.stream \in Seq(Nodes)
         /\ x.quote_next \in BOOLEAN /\ x.diagnostics \in Seq(Diagnostics)
         /\ x.done \in BOOLEAN /\ x.error \in Errors
         /\ x = [offset |-> x.offset, groups |-> x.groups, stream |-> x.stream,
                 quote_next |-> x.quote_next, diagnostics |-> x.diagnostics,
                 done |-> x.done, error |-> x.error]
BY DEF Lexers, Stack

\* What Sound says of a lexer that runs.
LEMMA SoundRunning ==
  ASSUME NEW t, NEW x, Sound(t, x), Running(x)
  PROVE  /\ x \in Lexers /\ x.offset <= Len(t) /\ Len(x.groups) <= MaxGroupDepth
         /\ x.done = FALSE /\ x.error = "none" /\ x.quote_next = OddRun(x.stream)
         /\ Spine(x.stream, x.groups, x.offset) /\ Unreported(x.diagnostics)
<1>1. x \in Lexers
  BY DEF Sound
<1>2. x.done \in BOOLEAN
  BY <1>1, LexerFields
<1>3. x.done = FALSE
  BY <1>2 DEF Running
<1> QED BY <1>1, <1>3 DEF Sound, Running

\* A fatal error leaves nothing to say of the stream.
LEMMA FatalSound ==
  ASSUME NEW t, NEW x, Sound(t, x), Running(x), NEW to \in Nat, to <= Len(t),
         NEW error \in Errors \ {"none", "assert"}
  PROVE  /\ Sound(t, [x EXCEPT !.error = error, !.offset = to])
         /\ Sound(t, [x EXCEPT !.offset = to, !.error = error])
         /\ Sound(t, [x EXCEPT !.error = error])
<1>1. x \in Lexers /\ x.offset <= Len(t) /\ x.done = FALSE /\ Len(x.groups) <= MaxGroupDepth
  BY SoundRunning
<1>2. /\ [x EXCEPT !.error = error, !.offset = to] \in Lexers
      /\ [x EXCEPT !.offset = to, !.error = error] \in Lexers
      /\ [x EXCEPT !.error = error] \in Lexers
  BY <1>1 DEF Lexers
<1>3. ASSUME NEW y \in Lexers, y.error = error, y.offset <= Len(t), y.done = FALSE,
             y.groups = x.groups
      PROVE  Sound(t, y)
  BY <1>1, <1>3 DEF Sound, Running
<1>4. \A y \in Lexers : y.error = error /\ y.offset <= Len(t) /\ y.done = FALSE
                          /\ y.groups = x.groups => Sound(t, y)
  BY <1>3
<1>5. DOMAIN x = {"offset", "groups", "stream", "quote_next", "diagnostics", "done", "error"}
  BY <1>1 DEF Lexers
<1>6. LET y == [x EXCEPT !.error = error, !.offset = to]
      IN  y.error = error /\ y.offset = to /\ y.done = FALSE /\ y.groups = x.groups
  BY <1>1, <1>5
<1>7. LET y == [x EXCEPT !.offset = to, !.error = error]
      IN  y.error = error /\ y.offset = to /\ y.done = FALSE /\ y.groups = x.groups
  BY <1>1, <1>5
<1>8. LET y == [x EXCEPT !.error = error]
      IN  y.error = error /\ y.offset = x.offset /\ y.done = FALSE /\ y.groups = x.groups
  BY <1>1, <1>5
<1> QED BY <1>1, <1>2, <1>4, <1>6, <1>7, <1>8

\* Layout and comments: the cursor moves on, the outline of the stream stays.
LEMMA OutlineSound ==
  ASSUME NEW t, NEW x, Sound(t, x), Running(x), NEW to \in Nat, x.offset <= to, to <= Len(t),
         NEW stream \in Seq(Nodes), SameOutline(x.stream, stream)
  PROVE  Sound(t, [x EXCEPT !.offset = to, !.stream = stream])
<1> DEFINE y == [x EXCEPT !.offset = to, !.stream = stream]
<1>1. /\ x \in Lexers /\ x.offset <= Len(t) /\ Len(x.groups) <= MaxGroupDepth
      /\ x.done = FALSE /\ x.error = "none" /\ x.quote_next = OddRun(x.stream)
      /\ Spine(x.stream, x.groups, x.offset) /\ Unreported(x.diagnostics)
  BY SoundRunning
<1>2. x.offset \in Nat /\ x.groups \in Stack /\ x.stream \in Seq(Nodes)
  BY <1>1, LexerFields
<1>3. y \in Lexers
  BY <1>1 DEF Lexers
<1>4. /\ y.offset = to /\ y.stream = stream /\ y.groups = x.groups /\ y.done = FALSE
      /\ y.error = "none" /\ y.quote_next = x.quote_next /\ y.diagnostics = x.diagnostics
  BY <1>1 DEF Lexers
<1>5. Spine(stream, x.groups, to)
  BY <1>1, <1>2, OutlineSpine
<1>6. OddRun(x.stream) = OddRun(stream)
  BY <1>2, SameRun DEF SameOutline
<1> HIDE DEF y
<1>7. Sound(t, y)
  BY <1>1, <1>3, <1>4, <1>5, <1>6 DEF Sound, Running
<1> QED BY <1>7 DEF y

LEMMA LayoutSound ==
  ASSUME NEW t, NEW x, Sound(t, x), Running(x), NEW to \in Nat, x.offset <= to, to <= Len(t)
  PROVE  Sound(t, [x EXCEPT !.offset = to])
<1>1. x \in Lexers
  BY SoundRunning
<1>2. x.stream \in Seq(Nodes)
  BY <1>1, LexerFields
<1>3. SameOutline(x.stream, x.stream)
  BY DEF SameOutline
<1>4. Sound(t, [x EXCEPT !.offset = to, !.stream = x.stream])
  BY <1>2, <1>3, OutlineSound
<1>5. [x EXCEPT !.offset = to, !.stream = x.stream] = [x EXCEPT !.offset = to]
  BY <1>1 DEF Lexers
<1> QED BY <1>4, <1>5

\* A token, quoted or quoting or neither, perhaps with a diagnosis of its own.
LEMMA TokenSound ==
  ASSUME NEW t, NEW x, Sound(t, x), Running(x),
         NEW kind \in {"ident", "punct", "literal"}, NEW spelling \in Spellings,
         NEW to \in Nat, x.offset < to, to <= Len(t),
         NEW quote \in BOOLEAN,
         quote = (kind = "ident" /\ spelling \in QuoteSpecifiers /\ ~ x.quote_next),
         NEW diagnostics \in Seq(Diagnostics), Unreported(diagnostics)
  PROVE  LET next == [Emit(x, kind, spelling, to) EXCEPT !.quote_next = quote]
         IN  Sound(t, next) /\ Sound(t, [next EXCEPT !.diagnostics = diagnostics])
<1> DEFINE node == Node(kind, spelling, x.offset, to)
           stream == Push(x.stream, node)
           next == [Emit(x, kind, spelling, to) EXCEPT !.quote_next = quote]
           diagnosed == [next EXCEPT !.diagnostics = diagnostics]
<1>1. /\ x \in Lexers /\ x.offset <= Len(t) /\ Len(x.groups) <= MaxGroupDepth
      /\ x.done = FALSE /\ x.error = "none" /\ x.quote_next = OddRun(x.stream)
      /\ Spine(x.stream, x.groups, x.offset) /\ Unreported(x.diagnostics)
  BY SoundRunning
<1>2. /\ x.offset \in Nat /\ x.groups \in Stack /\ x.stream \in Seq(Nodes)
      /\ x.quote_next \in BOOLEAN /\ x.diagnostics \in Seq(Diagnostics)
  BY <1>1, LexerFields
<1>3. /\ node.kind = kind /\ node.spelling = spelling /\ node.from = x.offset
      /\ ~ node.open
  <2>1. kind \notin {"root", "group"}
    OBVIOUS
  <2>2. node.open = (kind \in {"root", "group"})
    BY DEF Node
  <2>3. node.kind = kind /\ node.spelling = spelling /\ node.from = x.offset
    BY DEF Node
  <2> QED BY <2>1, <2>2, <2>3
<1>4. node \in Nodes
  <2>1. <<>> \in Seq(Spans)
    OBVIOUS
  <2> QED BY <1>2, <2>1 DEF Node, Nodes
<1>5. Innermost(x.stream) \in 1 .. Len(x.stream)
  BY <1>1, <1>2, InnermostIs
<1> HIDE DEF node
<1>6. /\ stream \in Seq(Nodes) /\ Len(stream) = Len(x.stream) + 1
      /\ \A i \in 1 .. Len(x.stream) : /\ stream[i].kind = x.stream[i].kind
                                       /\ stream[i].spelling = x.stream[i].spelling
      /\ stream[Len(x.stream) + 1].kind = kind /\ stream[Len(x.stream) + 1].spelling = spelling
  BY <1>2, <1>3, <1>4, <1>5, PushFacts
<1>7. Spine(stream, x.groups, to)
  BY <1>1, <1>2, <1>3, <1>4, PushTokenSpine
<1>8. quote = OddRun(stream)
  <2> HIDE DEF stream
  <2>1. OddRun(stream) = (Specifier(stream[Len(stream)]) /\ ~ OddRun(x.stream))
    BY <1>2, <1>6, RunGrows
  <2>2. Specifier(stream[Len(stream)]) = (kind = "ident" /\ spelling \in QuoteSpecifiers)
    BY <1>6 DEF Specifier
  <2> QED BY <1>1, <2>1, <2>2
<1>9. Emit(x, kind, spelling, to) = [x EXCEPT !.offset = to, !.stream = stream]
  BY <1>1 DEF Emit, Lexers, node
<1> HIDE DEF stream
<1>10. next = [x EXCEPT !.offset = to, !.stream = stream, !.quote_next = quote]
  BY <1>1, <1>9 DEF Lexers
<1>11. /\ next \in Lexers /\ next.offset = to /\ next.stream = stream /\ next.groups = x.groups
       /\ next.done = FALSE /\ next.error = "none" /\ next.quote_next = quote
       /\ next.diagnostics = x.diagnostics
  BY <1>1, <1>6, <1>10 DEF Lexers
<1> HIDE DEF next
<1>12. /\ diagnosed \in Lexers /\ diagnosed.offset = to /\ diagnosed.stream = stream
       /\ diagnosed.groups = x.groups /\ diagnosed.done = FALSE /\ diagnosed.error = "none"
       /\ diagnosed.quote_next = quote /\ diagnosed.diagnostics = diagnostics
  BY <1>11 DEF Lexers
<1> HIDE DEF diagnosed
<1>13. Sound(t, next)
  BY <1>1, <1>7, <1>8, <1>11 DEF Sound, Running
<1>14. Sound(t, diagnosed)
  BY <1>1, <1>7, <1>8, <1>12 DEF Sound, Running
<1> QED BY <1>13, <1>14 DEF next, diagnosed

\* An opener: one group more on the stack and at the end of the spine.
LEMMA OpenSound ==
  ASSUME NEW t \in Text, NEW x, Sound(t, x), Running(x), x.offset < Len(t),
         Len(x.groups) # MaxGroupDepth, NEW kind \in Openers
  PROVE  Sound(t, [Emit(x, "group", kind, x.offset + 1) EXCEPT
                     !.quote_next = FALSE,
                     !.groups = Append(@, [kind |-> kind, opening_start |-> x.offset])])
<1> DEFINE node == Node("group", kind, x.offset, x.offset + 1)
           stream == Push(x.stream, node)
           groups == Append(x.groups, [kind |-> kind, opening_start |-> x.offset])
           next == [Emit(x, "group", kind, x.offset + 1) EXCEPT
                     !.quote_next = FALSE,
                     !.groups = Append(@, [kind |-> kind, opening_start |-> x.offset])]
<1>1. /\ x \in Lexers /\ x.offset <= Len(t) /\ Len(x.groups) <= MaxGroupDepth
      /\ x.done = FALSE /\ x.error = "none" /\ x.quote_next = OddRun(x.stream)
      /\ Spine(x.stream, x.groups, x.offset) /\ Unreported(x.diagnostics)
  BY SoundRunning
<1>2. /\ x.offset \in Nat /\ x.groups \in Stack /\ x.stream \in Seq(Nodes)
  BY <1>1, LexerFields
<1>3. /\ node.kind = "group" /\ node.spelling = kind /\ node.from = x.offset
      /\ node.open = TRUE
  BY DEF Node
<1>4. node \in Nodes
  <2>1. <<>> \in Seq(Spans)
    OBVIOUS
  <2>2. kind \in Spellings
    BY DEF Spellings
  <2> QED BY <1>2, <2>1, <2>2 DEF Node, Nodes
<1>5. Innermost(x.stream) \in 1 .. Len(x.stream)
  BY <1>1, <1>2, InnermostIs
<1> HIDE DEF node
<1>6. /\ stream \in Seq(Nodes) /\ Len(stream) = Len(x.stream) + 1
      /\ \A i \in 1 .. Len(x.stream) : /\ stream[i].kind = x.stream[i].kind
                                       /\ stream[i].spelling = x.stream[i].spelling
      /\ stream[Len(x.stream) + 1].kind = "group"
  BY <1>2, <1>3, <1>4, <1>5, PushFacts
<1>7. Spine(stream, groups, x.offset + 1)
  BY <1>1, <1>2, <1>3, <1>4, PushGroupSpine
<1>8. OddRun(stream) = FALSE
  <2> HIDE DEF stream
  <2>1. OddRun(stream) = (Specifier(stream[Len(stream)]) /\ ~ OddRun(x.stream))
    BY <1>2, <1>6, RunGrows
  <2>2. ~ Specifier(stream[Len(stream)])
    BY <1>6 DEF Specifier
  <2> QED BY <2>1, <2>2
<1>9. groups \in Stack /\ Len(groups) = Len(x.groups) + 1
  BY <1>2 DEF Stack
<1>10. Emit(x, "group", kind, x.offset + 1) = [x EXCEPT !.offset = x.offset + 1, !.stream = stream]
  BY <1>1 DEF Emit, Lexers, node
<1> HIDE DEF stream
<1>11. next = [x EXCEPT !.offset = x.offset + 1, !.stream = stream, !.quote_next = FALSE,
                        !.groups = groups]
  BY <1>1, <1>10 DEF Lexers
<1> HIDE DEF groups
<1>12. /\ next \in Lexers /\ next.offset = x.offset + 1 /\ next.stream = stream
       /\ next.groups = groups /\ next.done = FALSE /\ next.error = "none"
       /\ next.quote_next = FALSE /\ next.diagnostics = x.diagnostics
  <2> DEFINE later == x.offset + 1
  <2>1. later \in Nat
    BY <1>2
  <2> HIDE DEF later, next
  <2>2. next = [x EXCEPT !.offset = later, !.stream = stream, !.quote_next = FALSE,
                         !.groups = groups]
    BY <1>11 DEF later
  <2>3. groups \in Seq([kind : Openers, opening_start : Nat])
    BY <1>9 DEF Stack
  <2>4. /\ next \in Lexers /\ next.offset = later /\ next.stream = stream
        /\ next.groups = groups /\ next.done = FALSE /\ next.error = "none"
        /\ next.quote_next = FALSE /\ next.diagnostics = x.diagnostics
    BY <1>1, <1>6, <2>1, <2>2, <2>3 DEF Lexers
  <2> QED BY <2>4 DEF later
<1> HIDE DEF next
<1>13. x.offset + 1 <= Len(t) /\ Len(groups) <= MaxGroupDepth
  BY <1>1, <1>2, <1>9, MaxGroupDepthAssumption DEF Stack
<1>14. Sound(t, next)
  BY <1>1, <1>7, <1>8, <1>12, <1>13 DEF Sound, Running
<1> QED BY <1>14 DEF next

\* A closer that matches the top of the stack.
LEMMA CloseSound ==
  ASSUME NEW t \in Text, NEW x, Sound(t, x), Running(x), x.offset < Len(t),
         ~ x.quote_next, Len(x.groups) > 0
  PROVE  LET n == Len(x.groups)
             popped == [x EXCEPT !.offset = @ + 1, !.quote_next = FALSE,
                                 !.groups = SubSeq(@, 1, n - 1)]
         IN  /\ Completable(x.stream, x.groups[n].kind) # {}
             /\ Sound(t, [popped EXCEPT !.stream =
                            CompleteLastGroup(@, x.groups[n].kind, x.offset + 1)])
<1> DEFINE n == Len(x.groups)
           kind == x.groups[n].kind
           popped == [x EXCEPT !.offset = @ + 1, !.quote_next = FALSE,
                               !.groups = SubSeq(@, 1, n - 1)]
           groups == SubSeq(x.groups, 1, n - 1)
           later == x.offset + 1
           stream == CompleteLastGroup(x.stream, kind, later)
           next == [popped EXCEPT !.stream = CompleteLastGroup(@, kind, x.offset + 1)]
<1>1. /\ x \in Lexers /\ x.offset <= Len(t) /\ Len(x.groups) <= MaxGroupDepth
      /\ x.done = FALSE /\ x.error = "none" /\ x.quote_next = OddRun(x.stream)
      /\ Spine(x.stream, x.groups, x.offset) /\ Unreported(x.diagnostics)
  BY SoundRunning
<1>2. /\ x.offset \in Nat /\ x.groups \in Stack /\ x.stream \in Seq(Nodes)
  BY <1>1, LexerFields
<1>3. later \in Nat /\ x.offset <= later /\ later <= Len(t)
  BY <1>2
<1> HIDE DEF later
<1>4. /\ Completable(x.stream, kind) # {} /\ stream \in Seq(Nodes) /\ Len(stream) = Len(x.stream)
      /\ \A i \in 1 .. Len(x.stream) : /\ stream[i].kind = x.stream[i].kind
                                       /\ stream[i].spelling = x.stream[i].spelling
      /\ Spine(stream, groups, later)
  BY <1>1, <1>2, <1>3, CompleteSpine
<1>5. groups \in Stack /\ Len(groups) = n - 1
  <2>1. n \in Nat /\ n - 1 <= n /\ n - 1 \in Nat
    BY <1>2 DEF Stack
  <2>2. \A i \in 1 .. n - 1 : x.groups[i] \in [kind : Openers, opening_start : Nat]
    <3> TAKE i \in 1 .. n - 1
    <3> DEFINE Entries == [kind : Openers, opening_start : Nat]
    <3>1. x.groups \in Seq(Entries)
      BY <1>2 DEF Stack
    <3>2. i \in 1 .. Len(x.groups)
      BY <2>1
    <3> HIDE DEF Entries
    <3>3. x.groups[i] \in Entries
      BY <3>1, <3>2, ElementOfSeq
    <3> QED BY <3>3 DEF Entries
  <2> HIDE DEF n
  <2>3. groups = [i \in 1 .. n - 1 |-> x.groups[i]]
    BY <1>2, <2>1 DEF Stack, n
  <2> QED BY <2>1, <2>2, <2>3 DEF Stack
<1> HIDE DEF stream, groups
<1>6. OddRun(stream) = OddRun(x.stream)
  BY <1>2, <1>4, SameRun
<1>7. OddRun(stream) = FALSE
  BY <1>1, <1>6
<1>8. next = [x EXCEPT !.offset = later, !.quote_next = FALSE, !.groups = groups, !.stream = stream]
  BY <1>1 DEF Lexers, later, stream, groups
<1> HIDE DEF next
<1>9. /\ next \in Lexers /\ next.offset = later /\ next.stream = stream
      /\ next.groups = groups /\ next.done = FALSE /\ next.error = "none"
      /\ next.quote_next = FALSE /\ next.diagnostics = x.diagnostics
  BY <1>1, <1>3, <1>4, <1>5, <1>8 DEF Lexers, Stack
<1>10. Len(groups) <= MaxGroupDepth
  BY <1>1, <1>2, <1>5, MaxGroupDepthAssumption DEF Stack
<1>11. Sound(t, next)
  BY <1>1, <1>3, <1>4, <1>7, <1>9, <1>10 DEF Sound, Running
<1> QED BY <1>4, <1>11 DEF next

\* The stack, from the spine: its entries are the open groups by depth, and a
\* group that is deeper starts later.
LEMMA SpineStack ==
  ASSUME NEW stream \in Seq(Nodes), NEW groups \in Stack, NEW offset \in Nat,
         Spine(stream, groups, offset)
  PROVE  /\ \A i \in OpenGroups(stream) :
              /\ stream[i].depth \in 1 .. Len(groups)
              /\ groups[stream[i].depth]
                   = [kind |-> stream[i].spelling, opening_start |-> stream[i].from]
              /\ groups[stream[i].depth].opening_start = stream[i].from
         /\ \A k \in 1 .. Len(groups) : \E i \in OpenGroups(stream) : stream[i].depth = k
         /\ \A i, j \in OpenGroups(stream) : i < j => stream[i].depth < stream[j].depth
         /\ \A h, k \in 1 .. Len(groups) :
              h < k => groups[h].opening_start < groups[k].opening_start
<1>1. \A i \in OpenNodes(stream) : i \in 1 .. Len(stream) /\ stream[i].depth \in Nat
  <2> TAKE i \in OpenNodes(stream)
  <2>1. i \in 1 .. Len(stream)
    BY DEF OpenNodes
  <2>2. stream[i] \in Nodes
    BY <2>1, ElementOfSeq
  <2> QED BY <2>1, <2>2, NodeFields
<1>2. 1 \in OpenNodes(stream) /\ stream[1].kind = "root" /\ stream[1].depth = 0
  BY DEF Spine, OpenNodes
<1>3. \A i \in OpenGroups(stream) : i \in OpenNodes(stream) /\ stream[i].kind = "group"
  BY DEF OpenGroups
<1>4. \A i \in OpenGroups(stream) : i \in 2 .. Len(stream)
  <2> TAKE i \in OpenGroups(stream)
  <2>1. i \in 1 .. Len(stream) /\ i # 1
    BY <1>1, <1>2, <1>3
  <2> QED BY <2>1
<1>5. Len(groups) \in Nat
  BY DEF Stack
<1>6. \A i \in OpenGroups(stream) : stream[i].depth \in 1 .. Len(groups)
  <2> TAKE i \in OpenGroups(stream)
  <2>1. 1 < i /\ i \in OpenNodes(stream)
    BY <1>3, <1>4
  <2>2. 0 < stream[i].depth
    BY <1>2, <2>1 DEF Spine
  <2>3. stream[i].depth <= Len(groups) /\ stream[i].depth \in Nat
    BY <1>1, <2>1 DEF Spine
  <2> QED BY <1>5, <2>2, <2>3
<1>7. \A k \in 1 .. Len(groups) : \E i \in OpenGroups(stream) : stream[i].depth = k
  <2> TAKE k \in 1 .. Len(groups)
  <2>1. k \in 0 .. Len(groups) /\ k # 0
    BY <1>5
  <2>2. PICK i \in OpenNodes(stream) : stream[i].depth = k
    BY <2>1 DEF Spine
  <2>3. i # 1 /\ i \in 1 .. Len(stream)
    BY <1>1, <1>2, <2>1, <2>2
  <2>4. stream[i].kind # "root" /\ stream[i].kind \in {"root", "group"}
    BY <2>3 DEF Spine
  <2>5. i \in OpenGroups(stream)
    BY <2>4 DEF OpenGroups
  <2> QED BY <2>2, <2>5
<1>8. \A i, j \in OpenGroups(stream) : i < j => stream[i].depth < stream[j].depth
  BY <1>3 DEF Spine
<1>9. \A i \in OpenGroups(stream) :
        /\ groups[stream[i].depth]
             = [kind |-> stream[i].spelling, opening_start |-> stream[i].from]
        /\ groups[stream[i].depth].opening_start = stream[i].from
  <2> TAKE i \in OpenGroups(stream)
  <2> DEFINE entry == groups[stream[i].depth]
  <2>1. entry = [kind |-> stream[i].spelling, opening_start |-> stream[i].from]
    BY DEF Spine
  <2> HIDE DEF entry
  <2>2. entry.opening_start = stream[i].from
    BY <2>1
  <2> QED BY <2>1, <2>2 DEF entry
<1>10. \A h, k \in 1 .. Len(groups) : h < k => groups[h].opening_start < groups[k].opening_start
  <2> TAKE h, k \in 1 .. Len(groups)
  <2> SUFFICES ASSUME h < k
               PROVE  groups[h].opening_start < groups[k].opening_start
    OBVIOUS
  <2>1. PICK i \in OpenGroups(stream) : stream[i].depth = h
    BY <1>7
  <2>2. PICK j \in OpenGroups(stream) : stream[j].depth = k
    BY <1>7
  <2>3. i \in 2 .. Len(stream) /\ j \in 2 .. Len(stream)
    BY <1>4
  <2>4. ~ (j < i) /\ i # j
    <3>1. j < i => k < h
      BY <1>8, <2>1, <2>2
    <3> QED BY <2>1, <2>2, <3>1
  <2>5. i < j
    BY <2>3, <2>4
  <2>6. stream[i].from < stream[j].from
    BY <2>3, <2>5 DEF Spine
  <2>7. groups[h].opening_start = stream[i].from /\ groups[k].opening_start = stream[j].from
    BY <1>9, <2>1, <2>2
  <2> QED BY <2>6, <2>7
<1> QED BY <1>6, <1>7, <1>8, <1>9, <1>10

\* The groups that are open at the end of the input, the innermost first.
Unclosed(groups, to) ==
  [i \in 1 .. Len(groups) |->
     Diagnostic("UnterminatedGroup", groups[Len(groups) + 1 - i].opening_start, to)]

LEMMA UnclosedFacts ==
  ASSUME NEW groups \in Stack, NEW to \in Nat
  PROVE  /\ Unclosed(groups, to) \in Seq(Diagnostics)
         /\ Len(Unclosed(groups, to)) = Len(groups)
         /\ \A i \in 1 .. Len(groups) :
              /\ Unclosed(groups, to)[i].kind = "UnterminatedGroup"
              /\ Unclosed(groups, to)[i].from = groups[Len(groups) + 1 - i].opening_start
<1> DEFINE n == Len(groups)
           Entries == [kind : Openers, opening_start : Nat]
<1>1. n \in Nat
  BY DEF Stack
<1>2. groups \in Seq(Entries)
  BY DEF Stack
<1>3. \A i \in 1 .. n : n + 1 - i \in 1 .. n
  BY <1>1
<1>4. \A i \in 1 .. n : groups[n + 1 - i].opening_start \in Nat
  <2> TAKE i \in 1 .. n
  <2>1. n + 1 - i \in 1 .. Len(groups)
    BY <1>3
  <2> HIDE DEF Entries
  <2>2. groups[n + 1 - i] \in Entries
    BY <1>2, <2>1, ElementOfSeq
  <2> QED BY <2>2 DEF Entries
<1>5. \A i \in 1 .. n :
        Diagnostic("UnterminatedGroup", groups[n + 1 - i].opening_start, to) \in Diagnostics
  BY <1>4 DEF Diagnostic, Diagnostics
<1>6. Unclosed(groups, to) = [i \in 1 .. n |->
        Diagnostic("UnterminatedGroup", groups[n + 1 - i].opening_start, to)]
  BY DEF Unclosed
<1> HIDE DEF n
<1>7. Unclosed(groups, to) \in Seq(Diagnostics) /\ Len(Unclosed(groups, to)) = n
  BY <1>1, <1>5, <1>6
<1>8. \A i \in 1 .. n : /\ Unclosed(groups, to)[i].kind = "UnterminatedGroup"
                        /\ Unclosed(groups, to)[i].from = groups[n + 1 - i].opening_start
  BY <1>6 DEF Diagnostic
<1> QED BY <1>7, <1>8 DEF n

\* The end of the input: what was said of the stack is said by the diagnostics.
LEMMA EndSound ==
  ASSUME NEW t \in Text, NEW x, Sound(t, x), Running(x)
  PROVE  Sound(t, AfterEndOfInput(t, x))
<1> DEFINE n == Len(x.groups)
           m == Len(x.diagnostics)
           unclosed == Unclosed(x.groups, Len(t))
           diagnostics == x.diagnostics \o unclosed
           next == AfterEndOfInput(t, x)
<1>1. /\ x \in Lexers /\ x.offset <= Len(t) /\ Len(x.groups) <= MaxGroupDepth
      /\ x.done = FALSE /\ x.error = "none" /\ x.quote_next = OddRun(x.stream)
      /\ Spine(x.stream, x.groups, x.offset) /\ Unreported(x.diagnostics)
  BY SoundRunning
<1>2. /\ x.offset \in Nat /\ x.groups \in Stack /\ x.stream \in Seq(Nodes)
      /\ x.diagnostics \in Seq(Diagnostics)
  BY <1>1, LexerFields
<1>3. n \in Nat /\ m \in Nat /\ Len(t) \in Nat
  BY <1>2 DEF Stack, Text
<1>4. /\ unclosed \in Seq(Diagnostics) /\ Len(unclosed) = n
      /\ \A i \in 1 .. n : /\ unclosed[i].kind = "UnterminatedGroup"
                           /\ unclosed[i].from = x.groups[n + 1 - i].opening_start
  BY <1>2, <1>3, UnclosedFacts
<1>5. next = [x EXCEPT !.done = TRUE, !.groups = <<>>, !.diagnostics = diagnostics]
  BY <1>1 DEF AfterEndOfInput, Unclosed, Lexers
<1> HIDE DEF unclosed
<1>6. /\ diagnostics \in Seq(Diagnostics) /\ Len(diagnostics) = m + n
      /\ \A k \in 1 .. m : diagnostics[k] = x.diagnostics[k]
      /\ \A k \in m + 1 .. m + n : diagnostics[k] = unclosed[k - m]
  <2>1. /\ x.diagnostics \o unclosed \in Seq(Diagnostics)
        /\ Len(x.diagnostics \o unclosed) = Len(x.diagnostics) + Len(unclosed)
        /\ \A i \in 1 .. Len(x.diagnostics) + Len(unclosed) : (x.diagnostics \o unclosed)[i]
             = IF i <= Len(x.diagnostics) THEN x.diagnostics[i] ELSE unclosed[i - Len(x.diagnostics)]
    <3>1. x.diagnostics \in Seq(Diagnostics) /\ unclosed \in Seq(Diagnostics)
      BY <1>2, <1>4
    <3> QED BY <3>1, ConcatProperties, Zenon
  <2> HIDE DEF diagnostics, m, n
  <2>2. /\ diagnostics \in Seq(Diagnostics) /\ Len(diagnostics) = m + n
        /\ \A i \in 1 .. m + n : diagnostics[i]
             = IF i <= m THEN x.diagnostics[i] ELSE unclosed[i - m]
    BY <1>4, <2>1 DEF diagnostics, m
  <2> QED BY <1>3, <2>2
<1> HIDE DEF diagnostics
<1>7. <<>> \in Stack /\ Len(<<>>) = 0
  BY DEF Stack
<1> HIDE DEF next
<1>8. /\ next \in Lexers /\ next.offset = x.offset /\ next.stream = x.stream
      /\ next.groups = <<>> /\ next.done = TRUE /\ next.error = "none"
      /\ next.quote_next = x.quote_next /\ next.diagnostics = diagnostics
  BY <1>1, <1>5, <1>6, <1>7 DEF Lexers, Stack
<1> HIDE DEF n, m
<1>9. Reported(next)
  <2> DEFINE reports == { k \in DOMAIN next.diagnostics :
                            next.diagnostics[k].kind = "UnterminatedGroup" }
  <2>1. DOMAIN diagnostics = 1 .. m + n
    BY <1>3, <1>6
  <2>2. \A k \in 1 .. m + n : diagnostics[k].kind = "UnterminatedGroup" <=> k \in m + 1 .. m + n
    <3> TAKE k \in 1 .. m + n
    <3>1. CASE k \in 1 .. m
      <4>1. x.diagnostics[k].kind # "UnterminatedGroup"
        BY <1>1, <3>1 DEF Unreported, m
      <4>2. k \notin m + 1 .. m + n
        BY <1>3, <3>1
      <4> QED BY <1>6, <3>1, <4>1, <4>2
    <3>2. CASE k \in m + 1 .. m + n
      <4>1. k - m \in 1 .. n
        BY <1>3, <3>2
      <4> QED BY <1>4, <1>6, <3>2, <4>1
    <3>3. k \in 1 .. m \/ k \in m + 1 .. m + n
      BY <1>3
    <3> QED BY <3>1, <3>2, <3>3
  <2>3. reports = m + 1 .. m + n
    <3>1. m + 1 .. m + n \subseteq 1 .. m + n
      BY <1>3
    <3> QED BY <1>8, <2>1, <2>2, <3>1
  <2> HIDE DEF reports
  <2>4. \A k \in m + 1 .. m + n : /\ m + n + 1 - k \in 1 .. n
                                  /\ diagnostics[k].from = x.groups[m + n + 1 - k].opening_start
    <3> TAKE k \in m + 1 .. m + n
    <3>1. k - m \in 1 .. n /\ n + 1 - (k - m) = m + n + 1 - k /\ m + n + 1 - k \in 1 .. n
      BY <1>3
    <3> QED BY <1>4, <1>6, <3>1
  <2>5. /\ \A i \in OpenGroups(x.stream) :
             /\ x.stream[i].depth \in 1 .. n
             /\ x.groups[x.stream[i].depth].opening_start = x.stream[i].from
        /\ \A k \in 1 .. n : \E i \in OpenGroups(x.stream) : x.stream[i].depth = k
        /\ \A h, k \in 1 .. n :
             h < k => x.groups[h].opening_start < x.groups[k].opening_start
    BY <1>1, <1>2, SpineStack DEF n
  <2>6. ASSUME NEW k \in m + 1 .. m + n
        PROVE  \E i \in OpenGroups(x.stream) : diagnostics[k].from = x.stream[i].from
    <3>1. PICK i \in OpenGroups(x.stream) : x.stream[i].depth = m + n + 1 - k
      BY <2>4, <2>5
    <3>2. x.groups[m + n + 1 - k].opening_start = x.stream[i].from
      BY <2>5, <3>1
    <3> QED BY <2>4, <3>2
  <2>7. ASSUME NEW i \in OpenGroups(x.stream)
        PROVE  \E k \in m + 1 .. m + n : diagnostics[k].from = x.stream[i].from
    <3> DEFINE d == x.stream[i].depth
               k == m + n + 1 - d
    <3>1. d \in 1 .. n /\ x.groups[d].opening_start = x.stream[i].from
      BY <2>5
    <3> HIDE DEF d
    <3>2. k \in m + 1 .. m + n /\ m + n + 1 - k = d
      BY <1>3, <3>1
    <3> HIDE DEF k
    <3>3. diagnostics[k].from = x.groups[d].opening_start
      BY <2>4, <3>2
    <3> QED BY <3>1, <3>2, <3>3
  <2>8. { diagnostics[k].from : k \in m + 1 .. m + n }
          = { x.stream[i].from : i \in OpenGroups(x.stream) }
    BY <2>6, <2>7
  <2>9. \A j, k \in m + 1 .. m + n : j < k => diagnostics[k].from < diagnostics[j].from
    <3> TAKE j, k \in m + 1 .. m + n
    <3> SUFFICES ASSUME j < k
                 PROVE  diagnostics[k].from < diagnostics[j].from
      OBVIOUS
    <3>1. m + n + 1 - k < m + n + 1 - j
      BY <1>3
    <3> DEFINE inner == m + n + 1 - j
               outer == m + n + 1 - k
    <3>2. /\ inner \in 1 .. n /\ outer \in 1 .. n /\ outer < inner
          /\ diagnostics[j].from = x.groups[inner].opening_start
          /\ diagnostics[k].from = x.groups[outer].opening_start
      BY <2>4, <3>1
    <3> HIDE DEF inner, outer
    <3> QED BY <2>5, <3>2
  <2> QED BY <1>8, <2>3, <2>8, <2>9 DEF Reported, reports
<1>10. Sound(t, next)
  BY <1>1, <1>3, <1>7, <1>8, <1>9, MaxGroupDepthAssumption DEF Sound, Running
<1> QED BY <1>10 DEF next

-----------------------------------------------------------------------------
(* Every branch keeps the invariant. *)

\* The first symbol that selects a branch.
LEMMA BranchFacts ==
  ASSUME NEW t, NEW x, x.quote_next \in BOOLEAN
  PROVE  LET first == Peek(t, x.offset, 0)
         IN  /\ Branch(t, x) = "line_break" => first = "NL"
             /\ Branch(t, x) = "whitespace" => first = "SP"
             /\ Branch(t, x) = "identifier" => first \in Words
             /\ Branch(t, x) = "string" => first = "QT"
             /\ Branch(t, x) = "quoted_bracket" => first \in Openers \cup Closers
             /\ Branch(t, x) = "punctuation" => first \in Operators \/ first = "/"
             /\ Branch(t, x) = "raw_string" => first = "/" /\ SlashRun(t, x.offset) >= 3
             /\ Branch(t, x) = "line_comment" => first = "LC"
             /\ Branch(t, x) = "block_comment" => first = "BO"
             /\ Branch(t, x) = "open" => first \in Openers
             /\ Branch(t, x) = "close" => first \in Closers /\ ~ x.quote_next
<1> DEFINE first == Peek(t, x.offset, 0)
           long == SlashRun(t, x.offset) >= 3
<1> QED BY DEF Branch, Words, Keywords, QuoteSpecifiers, Openers, Closers, Operators

\* Behind the end of the input there is nothing to peek at.
LEMMA PeekFacts ==
  ASSUME NEW t \in Text, NEW offset \in Nat, Peek(t, offset, 0) # "EOF"
  PROVE  offset < Len(t) /\ offset + 1 <= Len(t) /\ Peek(t, offset, 0) = t[offset + 1]
BY DEF Peek, Text

\* Punctuation lies in the text, and its last symbol is not a blank.
LEMMA PunctuationEndFacts ==
  ASSUME NEW t \in Text, NEW from \in Nat, Peek(t, from, 0) \notin {"EOF", "SP"}
  PROVE  LET to == PunctuationEnd(t, from)
         IN  to \in Nat /\ from < to /\ to <= Len(t) /\ t[to] # "SP"
<1> DEFINE run == SlashRun(t, from)
           first == Peek(t, from, 0)
           second == Peek(t, from, 1)
           to == PunctuationEnd(t, from)
<1>0. Len(t) \in Nat
  BY DEF Text
<1>1. from < Len(t) /\ from + 1 <= Len(t) /\ first = t[from + 1]
  BY PeekFacts
<1>2. CASE first = "/"
  <2>1. to = from + run
    BY <1>2 DEF PunctuationEnd
  <2>2. run \in 0 .. 4 /\ from + run <= Len(t) /\ run > 0
    BY <1>0, <1>1, <1>2, SlashRunFacts
  <2>3. \A d \in from .. from + run - 1 : t[d + 1] = "/"
    BY <1>0, <1>1, RunOfSlashes
  <2> HIDE DEF run, to
  <2>4. to - 1 \in from .. from + run - 1 /\ (to - 1) + 1 = to
    BY <2>1, <2>2
  <2>5. t[to] = "/"
    BY <2>3, <2>4
  <2>6. to \in Nat /\ from < to /\ to <= Len(t) /\ t[to] # "SP"
    BY <1>0, <2>1, <2>2, <2>5
  <2> QED BY <2>6 DEF to
<1>3. CASE first = "BS" /\ second = "BS"
  <2>1. to = from + 2
    BY <1>3 DEF PunctuationEnd
  <2>2. from + 1 < Len(t) /\ t[from + 1 + 1] = "BS"
    BY <1>3 DEF Peek
  <2> QED BY <1>0, <2>1, <2>2
<1>4. CASE first # "/" /\ ~ (first = "BS" /\ second = "BS")
  <2>1. to = from + 1
    BY <1>4 DEF PunctuationEnd
  <2> QED BY <1>1, <2>1
<1> QED BY <1>2, <1>3, <1>4

\* At the start the spine is the root, and nothing is open.
LEMMA StartSound ==
  ASSUME NEW t \in Text
  PROVE  Sound(t, LexerStart)
<1> DEFINE root == Node("root", "", 0, 0)
           stream == <<root>>
<1>1. root \in Nodes /\ root.kind = "root" /\ root.open = TRUE /\ root.depth = 0
  <2>1. <<>> \in Seq(Spans)
    OBVIOUS
  <2> QED BY <2>1 DEF Node, Nodes, Spellings
<1> HIDE DEF root
<1>2. stream \in Seq(Nodes) /\ Len(stream) = 1 /\ stream[1] = root
  BY <1>1
<1>3. EmptyStream = stream
  BY DEF EmptyStream, root
<1> HIDE DEF stream
<1>4. OpenNodes(stream) = {1} /\ OpenGroups(stream) = {}
  <2>1. \A i : i \in DOMAIN stream <=> i = 1
    BY <1>2
  <2>2. OpenNodes(stream) = {1}
    BY <1>1, <1>2, <2>1 DEF OpenNodes
  <2> QED BY <1>1, <1>2, <2>2 DEF OpenGroups
<1>5. Spine(stream, <<>>, 0)
  <2>1. Len(<<>>) = 0
    OBVIOUS
  <2>2. \A i : i \in 1 .. 1 <=> i = 1
    OBVIOUS
  <2>3. \A i : i \notin 2 .. 1
    OBVIOUS
  <2>4. \A k \in 0 .. 0 : k = 0
    OBVIOUS
  <2> QED BY <1>1, <1>2, <1>4, <2>1, <2>2, <2>3, <2>4 DEF Spine
<1>6. OddRun(stream) = FALSE
  <2>1. Run(stream) = {}
    <3>1. ~ Specifier(stream[1])
      BY <1>1, <1>2 DEF Specifier
    <3>2. \A i \in DOMAIN stream : i = 1 /\ 1 \in i .. Len(stream)
      BY <1>2
    <3> QED BY <3>1, <3>2 DEF Run
  <2> QED BY <2>1 DEF OddRun
<1> DEFINE x == LexerStart
<1>7. /\ x.offset = 0 /\ x.groups = <<>> /\ x.stream = stream /\ x.quote_next = FALSE
      /\ x.diagnostics = <<>> /\ x.done = FALSE /\ x.error = "none"
  BY <1>3 DEF LexerStart
<1>8. x \in Lexers
  BY <1>2, <1>3 DEF LexerStart, Lexers, Errors
<1> HIDE DEF x
<1>9. Unreported(<<>>)
  BY DEF Unreported
<1>10. Len(t) \in Nat /\ Len(<<>>) = 0
  BY DEF Text
<1>11. x.offset <= Len(t) /\ Len(x.groups) <= MaxGroupDepth
  BY <1>7, <1>10, MaxGroupDepthAssumption
<1>12. Spine(x.stream, x.groups, x.offset) /\ Unreported(x.diagnostics)
  BY <1>5, <1>7, <1>9
<1>13. x.quote_next = OddRun(x.stream)
  BY <1>6, <1>7
<1>14. Sound(t, x)
  BY <1>7, <1>8, <1>11, <1>12, <1>13 DEF Sound
<1> QED BY <1>14 DEF x

LEMMA IdentifierSound ==
  ASSUME NEW t \in Text, NEW x, Sound(t, x), Running(x), Branch(t, x) = "identifier"
  PROVE  Sound(t, AfterIdentifier(t, x))
<1> DEFINE to == WordEnd(t, x.offset)
           spelling == IdentSpelling(t, x.offset, to)
           node == Node("ident", spelling, x.offset, to)
           quote == ~ x.quote_next /\ Specifier(node)
<1>1. /\ x \in Lexers /\ x.quote_next = OddRun(x.stream)
      /\ Spine(x.stream, x.groups, x.offset) /\ Unreported(x.diagnostics)
  BY SoundRunning
<1>2. /\ x.offset \in Nat /\ x.groups \in Stack /\ x.stream \in Seq(Nodes)
      /\ x.diagnostics \in Seq(Diagnostics) /\ x.quote_next \in BOOLEAN
  BY <1>1, LexerFields
<1>3. x.offset < Len(t) /\ t[x.offset + 1] \in Words
  <2>1. Peek(t, x.offset, 0) \in Words
    BY <1>2, BranchFacts
  <2>2. Peek(t, x.offset, 0) # "EOF"
    BY <2>1 DEF Words, Keywords, QuoteSpecifiers
  <2> QED BY <1>2, <2>1, <2>2, PeekFacts
<1>4. to \in Nat /\ x.offset < to /\ to <= Len(t)
  BY <1>2, <1>3, WordEndFacts
<1> HIDE DEF to
<1>5. spelling \in Spellings
  BY DEF IdentSpelling, Spellings
<1> HIDE DEF spelling
<1>6. node \in Nodes /\ node.kind = "ident" /\ node.spelling = spelling /\ node.from = x.offset
  <2>1. <<>> \in Seq(Spans)
    OBVIOUS
  <2> QED BY <1>2, <1>4, <1>5, <2>1 DEF Node, Nodes
<1>7. ~ node.open
  <2>1. node.open = ("ident" \in {"root", "group"})
    BY DEF Node
  <2> QED BY <2>1
<1> HIDE DEF node
<1>8. QuotesNext(Push(x.stream, node)) = Specifier(node)
  BY <1>1, <1>2, <1>4, <1>6, <1>7, PushQuotes
<1>9. Emit(x, "ident", spelling, to).stream = Push(x.stream, node)
  BY <1>1 DEF Emit, Lexers, node
<1>10. AfterIdentifier(t, x) = [Emit(x, "ident", spelling, to) EXCEPT !.quote_next = quote]
  BY <1>8, <1>9 DEF AfterIdentifier, spelling, to
<1>11. quote \in BOOLEAN /\ quote = ("ident" = "ident" /\ spelling \in QuoteSpecifiers /\ ~ x.quote_next)
  BY <1>2, <1>6 DEF Specifier
<1> HIDE DEF quote
<1>12. Sound(t, [Emit(x, "ident", spelling, to) EXCEPT !.quote_next = quote])
  BY <1>1, <1>2, <1>4, <1>5, <1>11, TokenSound
<1> QED BY <1>10, <1>12

LEMMA PunctuationSound ==
  ASSUME NEW t \in Text, NEW x, Sound(t, x), Running(x),
         Branch(t, x) \in {"punctuation", "quoted_bracket"}
  PROVE  Sound(t, AfterPunctuation(t, x))
<1> DEFINE first == Peek(t, x.offset, 0)
           to == PunctuationEnd(t, x.offset)
<1>1. /\ x \in Lexers /\ Unreported(x.diagnostics)
  BY SoundRunning
<1>2. x.offset \in Nat /\ x.diagnostics \in Seq(Diagnostics) /\ x.quote_next \in BOOLEAN
  BY <1>1, LexerFields
<1>3. first \in Operators \cup Openers \cup Closers \cup {"/"}
  BY <1>2, BranchFacts
<1>4. first \notin {"EOF", "SP"} /\ first \in Spellings
  BY <1>3 DEF Operators, Openers, Closers, Spellings
<1>6. to \in Nat /\ x.offset < to /\ to <= Len(t)
  BY <1>2, <1>4, PunctuationEndFacts
<1>7. AfterPunctuation(t, x) = [Emit(x, "punct", first, to) EXCEPT !.quote_next = FALSE]
  BY DEF AfterPunctuation
<1> HIDE DEF first, to
<1>8. Sound(t, [Emit(x, "punct", first, to) EXCEPT !.quote_next = FALSE])
  BY <1>1, <1>2, <1>4, <1>6, TokenSound
<1> QED BY <1>7, <1>8

LEMMA LiteralSound ==
  ASSUME NEW t \in Text, NEW x, Sound(t, x), Running(x), NEW scan \in Scan,
         x.offset < scan.to, scan.to <= Len(t),
         NEW diagnosis \in {"UnterminatedString", "UnterminatedRawString"}
  PROVE  Sound(t, AfterLiteral(x, scan, diagnosis))
<1> DEFINE to == scan.to
           next == [Emit(x, "literal", "", to) EXCEPT !.quote_next = FALSE]
           diagnostics == Append(x.diagnostics, Diagnostic(diagnosis, x.offset, to))
<1>1. x \in Lexers /\ Unreported(x.diagnostics)
  BY SoundRunning
<1>2. x.offset \in Nat /\ x.diagnostics \in Seq(Diagnostics)
  BY <1>1, LexerFields
<1>3. to \in Nat /\ scan.status \in {"closed", "unterminated", "bad_escape"}
  BY DEF Scan
<1>4. "" \in Spellings
  BY DEF Spellings
<1>5. diagnostics \in Seq(Diagnostics) /\ Unreported(diagnostics)
  <2> DEFINE last == Diagnostic(diagnosis, x.offset, to)
             m == Len(x.diagnostics)
  <2>1. last \in Diagnostics /\ last.kind # "UnterminatedGroup"
    BY <1>2, <1>3 DEF Diagnostic, Diagnostics
  <2>2. /\ diagnostics \in Seq(Diagnostics) /\ Len(diagnostics) = m + 1 /\ m \in Nat
        /\ \A k \in 1 .. m : diagnostics[k] = x.diagnostics[k]
        /\ diagnostics[m + 1] = last
    <3> HIDE DEF last
    <3>1. diagnostics = Append(x.diagnostics, last)
      BY DEF last
    <3> HIDE DEF diagnostics
    <3> QED BY <1>2, <2>1, <3>1, AppendProperties
  <2> HIDE DEF diagnostics, last
  <2>3. \A k \in 1 .. m + 1 : k \in 1 .. m \/ k = m + 1
    BY <2>2
  <2> QED BY <1>1, <2>1, <2>2, <2>3 DEF Unreported
<1>6. Sound(t, next) /\ Sound(t, [next EXCEPT !.diagnostics = diagnostics])
  <2> HIDE DEF diagnostics, to
  <2> QED BY <1>1, <1>2, <1>3, <1>4, <1>5, TokenSound DEF to
<1>7. next.diagnostics = x.diagnostics
  BY <1>1 DEF Emit, Lexers
<1>8. CASE scan.status = "closed"
  BY <1>6, <1>8 DEF AfterLiteral
<1>9. CASE scan.status = "unterminated"
  <2>1. AfterLiteral(x, scan, diagnosis) = [next EXCEPT !.diagnostics = diagnostics]
    <3>1. AfterLiteral(x, scan, diagnosis)
            = [next EXCEPT !.diagnostics = Append(@, Diagnostic(diagnosis, x.offset, scan.to))]
      BY <1>9 DEF AfterLiteral
    <3> HIDE DEF next
    <3> QED BY <1>7, <3>1
  <2> QED BY <1>6, <2>1
<1>10. CASE scan.status = "bad_escape"
  <2>1. AfterLiteral(x, scan, diagnosis) = [x EXCEPT !.error = "InvalidEscape", !.offset = to]
    BY <1>10 DEF AfterLiteral
  <2>2. "InvalidEscape" \in Errors \ {"none", "assert"}
    BY DEF Errors
  <2> HIDE DEF to
  <2>3. to <= Len(t)
    BY DEF to
  <2>4. Sound(t, [x EXCEPT !.error = "InvalidEscape", !.offset = to])
    BY <1>3, <2>2, <2>3, FatalSound
  <2> QED BY <2>1, <2>4
<1> QED BY <1>3, <1>8, <1>9, <1>10

LEMMA StringsSound ==
  ASSUME NEW t \in Text, NEW x, Sound(t, x), Running(x)
  PROVE  /\ Branch(t, x) = "string" => Sound(t, AfterString(t, x))
         /\ Branch(t, x) = "raw_string" => Sound(t, AfterRawString(t, x))
<1>1. x \in Lexers
  BY SoundRunning
<1>2. x.offset \in Nat /\ x.quote_next \in BOOLEAN
  BY <1>1, LexerFields
<1>3. ASSUME Branch(t, x) = "string"
      PROVE  Sound(t, AfterString(t, x))
  <2>1. Peek(t, x.offset, 0) # "EOF"
    BY <1>2, <1>3, BranchFacts
  <2>2. x.offset < Len(t)
    BY <1>2, <2>1, PeekFacts
  <2> DEFINE scan == StringScan(t, x.offset)
  <2>3. scan \in Scan /\ x.offset < scan.to /\ scan.to <= Len(t)
    BY <1>2, <2>2, StringScanFacts
  <2> HIDE DEF scan
  <2>4. Sound(t, AfterLiteral(x, scan, "UnterminatedString"))
    BY <2>3, LiteralSound
  <2> QED BY <2>4 DEF AfterString, scan
<1>4. ASSUME Branch(t, x) = "raw_string"
      PROVE  Sound(t, AfterRawString(t, x))
  <2>1. Peek(t, x.offset, 0) # "EOF" /\ SlashRun(t, x.offset) >= 3
    BY <1>2, <1>4, BranchFacts
  <2>2. x.offset < Len(t)
    BY <1>2, <2>1, PeekFacts
  <2> DEFINE scan == RawStringScan(t, x.offset)
  <2>3. scan \in Scan /\ x.offset < scan.to /\ scan.to <= Len(t)
    <3>1. x.offset <= Len(t)
      BY <1>2, <2>2 DEF Text
    <3> QED BY <1>2, <2>1, <3>1, RawStringScanFacts
  <2> HIDE DEF scan
  <2>4. Sound(t, AfterLiteral(x, scan, "UnterminatedRawString"))
    BY <2>3, LiteralSound
  <2> QED BY <2>4 DEF AfterRawString, scan
<1> QED BY <1>3, <1>4

LEMMA CommentsSound ==
  ASSUME NEW t \in Text, NEW x, Sound(t, x), Running(x)
  PROVE  /\ Branch(t, x) = "line_comment" => Sound(t, AfterLineComment(t, x))
         /\ Branch(t, x) = "block_comment" => Sound(t, AfterBlockComment(t, x))
<1>1. x \in Lexers /\ Spine(x.stream, x.groups, x.offset) /\ x.offset <= Len(t)
  BY SoundRunning
<1>2. /\ x.offset \in Nat /\ x.quote_next \in BOOLEAN /\ x.stream \in Seq(Nodes)
      /\ x.groups \in Stack
  BY <1>1, LexerFields
<1>3. Innermost(x.stream) \in 1 .. Len(x.stream)
  BY <1>1, <1>2, InnermostIs
<1>4. ASSUME Branch(t, x) = "line_comment"
      PROVE  Sound(t, AfterLineComment(t, x))
  <2> DEFINE to == LineCommentEnd(t, x.offset)
             stream == PushLineComment(x.stream, t, x.offset, to)
  <2>1. to \in Nat /\ x.offset <= to /\ to <= Len(t)
    BY <1>1, <1>2, LineCommentEndFacts
  <2> HIDE DEF to
  <2>2. stream \in Seq(Nodes) /\ SameOutline(x.stream, stream)
    BY <1>2, <1>3, <2>1, LineAttached
  <2>3. AfterLineComment(t, x) = [x EXCEPT !.offset = to, !.stream = stream]
    BY <1>1 DEF AfterLineComment, Lexers, to
  <2> HIDE DEF stream
  <2>4. Sound(t, [x EXCEPT !.offset = to, !.stream = stream])
    BY <2>1, <2>2, OutlineSound
  <2> QED BY <2>3, <2>4
<1>5. ASSUME Branch(t, x) = "block_comment"
      PROVE  Sound(t, AfterBlockComment(t, x))
  <2> DEFINE close == BlockCommentEnd(t, x.offset)
             stream == PushBlockComment(x.stream, x.offset, close + 1)
  <2>1. Peek(t, x.offset, 0) # "EOF"
    BY <1>2, <1>5, BranchFacts
  <2>2. x.offset < Len(t) /\ Len(t) \in Nat
    BY <1>2, <2>1, PeekFacts DEF Text
  <2>3. close \in Nat /\ x.offset < close /\ close <= Len(t)
    BY <1>2, <2>2, BlockCommentEndFacts
  <2> HIDE DEF close
  <2>4. CASE close = Len(t)
    <3>1. AfterBlockComment(t, x)
            = [x EXCEPT !.offset = close, !.error = "UnterminatedBlockComment"]
      BY <2>4 DEF AfterBlockComment, close
    <3>2. "UnterminatedBlockComment" \in Errors \ {"none", "assert"}
      BY DEF Errors
    <3>3. Sound(t, [x EXCEPT !.offset = close, !.error = "UnterminatedBlockComment"])
      BY <2>3, <3>2, FatalSound
    <3> QED BY <3>1, <3>3
  <2>5. CASE close # Len(t)
    <3> DEFINE later == close + 1
    <3>1. later \in Nat /\ x.offset <= later /\ later <= Len(t)
      BY <1>2, <2>2, <2>3, <2>5
    <3>2. AfterBlockComment(t, x) = [x EXCEPT !.offset = close + 1, !.stream = stream]
      BY <1>1, <2>5 DEF AfterBlockComment, Lexers, close
    <3> HIDE DEF later
    <3>3. /\ PushBlockComment(x.stream, x.offset, later) \in Seq(Nodes)
          /\ SameOutline(x.stream, PushBlockComment(x.stream, x.offset, later))
      BY <1>2, <1>3, <3>1, BlockAttached
    <3>4. Sound(t, [x EXCEPT !.offset = later,
                             !.stream = PushBlockComment(x.stream, x.offset, later)])
      BY <3>1, <3>3, OutlineSound
    <3> QED BY <3>2, <3>4 DEF later
  <2> QED BY <2>4, <2>5
<1> QED BY <1>4, <1>5

LEMMA DelimitersSound ==
  ASSUME NEW t \in Text, NEW x, Sound(t, x), Running(x)
  PROVE  /\ Branch(t, x) = "open" => Sound(t, AfterOpen(t, x))
         /\ Branch(t, x) = "close" => Sound(t, AfterClose(t, x))
<1>1. x \in Lexers /\ x.offset <= Len(t)
  BY SoundRunning
<1>2. /\ x.offset \in Nat /\ x.quote_next \in BOOLEAN /\ x.groups \in Stack
  BY <1>1, LexerFields
<1> DEFINE first == Peek(t, x.offset, 0)
<1>3. first # "EOF" => x.offset < Len(t) /\ x.offset + 1 <= Len(t)
  BY <1>2, PeekFacts
<1>4. ASSUME Branch(t, x) = "open"
      PROVE  Sound(t, AfterOpen(t, x))
  <2>1. first \in Openers
    BY <1>2, <1>4, BranchFacts
  <2>2. x.offset < Len(t)
    BY <1>3, <2>1 DEF Openers
  <2> HIDE DEF first
  <2>3. CASE Len(x.groups) = MaxGroupDepth
    <3>1. AfterOpen(t, x) = [x EXCEPT !.error = "NestingLimitExceeded"]
      BY <2>3 DEF AfterOpen
    <3>2. "NestingLimitExceeded" \in Errors \ {"none", "assert"}
      BY DEF Errors
    <3>3. Sound(t, [x EXCEPT !.error = "NestingLimitExceeded"])
      BY <1>1, <1>2, <3>2, FatalSound
    <3> QED BY <3>1, <3>3
  <2>4. CASE Len(x.groups) # MaxGroupDepth
    <3>1. AfterOpen(t, x) = [Emit(x, "group", first, x.offset + 1) EXCEPT
                               !.quote_next = FALSE,
                               !.groups = Append(@, [kind |-> first, opening_start |-> x.offset])]
      BY <2>4 DEF AfterOpen, first
    <3>2. Sound(t, [Emit(x, "group", first, x.offset + 1) EXCEPT
                      !.quote_next = FALSE,
                      !.groups = Append(@, [kind |-> first, opening_start |-> x.offset])])
      BY <2>1, <2>2, <2>4, OpenSound
    <3> QED BY <3>1, <3>2
  <2> QED BY <2>3, <2>4
<1>5. ASSUME Branch(t, x) = "close"
      PROVE  Sound(t, AfterClose(t, x))
  <2>1. first \in Closers /\ ~ x.quote_next
    BY <1>2, <1>5, BranchFacts
  <2>2. x.offset < Len(t) /\ x.offset + 1 <= Len(t) /\ x.offset + 1 \in Nat
    BY <1>2, <1>3, <2>1 DEF Closers
  <2> DEFINE n == Len(x.groups)
             matches == n > 0 /\ Closing(x.groups[n].kind) = first
             popped == [x EXCEPT !.offset = @ + 1, !.quote_next = FALSE,
                                 !.groups = SubSeq(@, 1, n - 1)]
             refused == [x EXCEPT !.offset = @ + 1, !.error = "UnexpectedClosingDelimiter"]
             completed == [popped EXCEPT !.stream =
                             CompleteLastGroup(@, x.groups[n].kind, x.offset + 1)]
  <2>3. CASE ~ matches
    <3>1. AfterClose(t, x) = refused
      BY <2>3 DEF AfterClose, first
    <3>2. refused = [x EXCEPT !.offset = x.offset + 1, !.error = "UnexpectedClosingDelimiter"]
      BY <1>1 DEF Lexers
    <3>3. "UnexpectedClosingDelimiter" \in Errors \ {"none", "assert"}
      BY DEF Errors
    <3>4. Sound(t, [x EXCEPT !.offset = x.offset + 1, !.error = "UnexpectedClosingDelimiter"])
      BY <2>2, <3>3, FatalSound
    <3> QED BY <3>1, <3>2, <3>4
  <2>4. CASE matches
    <3>1. Completable(x.stream, x.groups[n].kind) # {} /\ Sound(t, completed)
      BY <2>1, <2>2, <2>4, CloseSound
    <3>2. AfterClose(t, x) = completed
      <4> HIDE DEF first
      <4> DEFINE empty == Completable(x.stream, x.groups[n].kind) = {}
      <4>1. AfterClose(t, x) =
              CASE ~ matches -> refused
                [] matches /\ empty -> [x EXCEPT !.error = "assert"]
                [] OTHER -> completed
        BY DEF AfterClose, first
      <4>2. ~ empty
        BY <3>1
      <4> HIDE DEF matches, refused, completed, empty
      <4> QED BY <2>4, <4>1, <4>2
    <3> QED BY <3>1, <3>2
  <2> QED BY <2>3, <2>4
<1> QED BY <1>4, <1>5

LEMMA LayoutBranchSound ==
  ASSUME NEW t \in Text, NEW x, Sound(t, x), Running(x)
  PROVE  /\ Branch(t, x) = "line_break" => Sound(t, AfterLineBreak(t, x))
         /\ Branch(t, x) = "whitespace" => Sound(t, AfterWhitespace(t, x))
<1>1. x \in Lexers /\ x.offset <= Len(t)
  BY SoundRunning
<1>2. x.offset \in Nat /\ x.quote_next \in BOOLEAN
  BY <1>1, LexerFields
<1>3. ASSUME Branch(t, x) = "line_break"
      PROVE  Sound(t, AfterLineBreak(t, x))
  <2>1. Peek(t, x.offset, 0) # "EOF"
    BY <1>2, <1>3, BranchFacts
  <2>2. x.offset + 1 <= Len(t) /\ x.offset + 1 \in Nat /\ x.offset <= x.offset + 1
    BY <1>2, <2>1, PeekFacts
  <2>3. Sound(t, [x EXCEPT !.offset = x.offset + 1])
    BY <2>2, LayoutSound
  <2>4. AfterLineBreak(t, x) = [x EXCEPT !.offset = x.offset + 1]
    BY <1>1 DEF AfterLineBreak, Lexers
  <2> QED BY <2>3, <2>4
<1>4. Sound(t, AfterWhitespace(t, x))
  <2> DEFINE to == LayoutEnd(t, x.offset)
  <2>1. to \in Nat /\ x.offset <= to /\ to <= Len(t)
    BY <1>1, <1>2, LayoutEndFacts
  <2>2. AfterWhitespace(t, x) = [x EXCEPT !.offset = to]
    BY <1>1 DEF AfterWhitespace, Lexers
  <2> HIDE DEF to
  <2>3. Sound(t, [x EXCEPT !.offset = to])
    BY <2>1, LayoutSound
  <2> QED BY <2>2, <2>3
<1> QED BY <1>3, <1>4

LEMMA InvalidSound ==
  ASSUME NEW t \in Text, NEW x, Sound(t, x), Running(x), Branch(t, x) = "invalid"
  PROVE  Sound(t, AfterInvalid(t, x))
<1>1. x \in Lexers /\ x.offset <= Len(t)
  BY SoundRunning
<1>2. x.offset \in Nat /\ x.quote_next \in BOOLEAN
  BY <1>1, LexerFields
<1>3. Peek(t, x.offset, 0) # "EOF"
  BY <1>2 DEF Branch
<1>4. x.offset + 1 <= Len(t) /\ x.offset + 1 \in Nat
  BY <1>2, <1>3, PeekFacts
<1>5. "InvalidCharacter" \in Errors \ {"none", "assert"}
  BY DEF Errors
<1>6. Sound(t, [x EXCEPT !.offset = x.offset + 1, !.error = "InvalidCharacter"])
  BY <1>4, <1>5, FatalSound
<1>7. AfterInvalid(t, x) = [x EXCEPT !.offset = x.offset + 1, !.error = "InvalidCharacter"]
  BY <1>1 DEF AfterInvalid, Lexers
<1> QED BY <1>6, <1>7

-----------------------------------------------------------------------------
LEMMA InitInvariant == Init => IInv
BY TextsAssumption, StartSound DEF Init, IInv, Text

\* One step per branch of the loop.
LEMMA NextInvariant == IInv /\ [Next]_vars => IInv'
<1> SUFFICES ASSUME IInv, [Next]_vars
             PROVE  IInv'
  OBVIOUS
<1>1. text \in Text /\ Sound(text, lexer)
  BY TextsAssumption DEF IInv, Text
<1>2. ASSUME NEW branch, Takes(branch), Sound(text, lexer')
      PROVE  IInv'
  BY <1>2 DEF IInv, Takes
<1>3. CASE EndOfInput
  BY <1>1, <1>2, <1>3, EndSound DEF EndOfInput, Takes
<1>4. CASE LineBreak
  BY <1>1, <1>2, <1>4, LayoutBranchSound DEF LineBreak, Takes
<1>5. CASE Whitespace
  BY <1>1, <1>2, <1>5, LayoutBranchSound DEF Whitespace, Takes
<1>6. CASE Identifier
  BY <1>1, <1>2, <1>6, IdentifierSound DEF Identifier, Takes
<1>7. CASE StringToken
  BY <1>1, <1>2, <1>7, StringsSound DEF StringToken, Takes
<1>8. CASE RawString
  BY <1>1, <1>2, <1>8, StringsSound DEF RawString, Takes
<1>9. CASE QuotedBracket
  BY <1>1, <1>2, <1>9, PunctuationSound DEF QuotedBracket, Takes
<1>10. CASE Punctuation
  BY <1>1, <1>2, <1>10, PunctuationSound DEF Punctuation, Takes
<1>11. CASE LineComment
  BY <1>1, <1>2, <1>11, CommentsSound DEF LineComment, Takes
<1>12. CASE BlockComment
  BY <1>1, <1>2, <1>12, CommentsSound DEF BlockComment, Takes
<1>13. CASE Open
  BY <1>1, <1>2, <1>13, DelimitersSound DEF Open, Takes
<1>14. CASE Close
  BY <1>1, <1>2, <1>14, DelimitersSound DEF Close, Takes
<1>15. CASE Invalid
  BY <1>1, <1>2, <1>15, InvalidSound DEF Invalid, Takes
<1>16. CASE UNCHANGED vars
  BY <1>16 DEF IInv, vars
<1> QED BY <1>3, <1>4, <1>5, <1>6, <1>7, <1>8, <1>9, <1>10, <1>11, <1>12, <1>13, <1>14, <1>15,
           <1>16 DEF Next

LEMMA AlwaysSound == Spec => []IInv
BY InitInvariant, NextInvariant, PTL DEF Spec

-----------------------------------------------------------------------------
(* Every symbol that is not layout has one place in the tree.  Each branch   *)
(* adds one piece, or lengthens one, by what the cursor passes; push moves   *)
(* the waiting comments to another place but loses none.                     *)

\* The symbols of a text that are not layout.
Solid(t) == { p \in 1 .. Len(t) : t[p] \notin {"NL", "SP"} }

Covers(piece, p) == piece.from < p /\ p <= piece.to

\* CursorAgrees, of the pieces of a tree: every piece goes forward, each
\* symbol before the cursor is in one of them, none behind it is in any.
Once(t, pieces, offset) ==
  /\ \A q \in DOMAIN pieces : /\ pieces[q].from \in Int /\ pieces[q].to \in Int
                              /\ pieces[q].from <= pieces[q].to
  /\ \A p \in Solid(t) : p <= offset =>
       \E q \in DOMAIN pieces : /\ Covers(pieces[q], p)
                                /\ \A r \in DOMAIN pieces : Covers(pieces[r], p) => r = q
  /\ \A p \in Solid(t) : offset < p => \A q \in DOMAIN pieces : ~ Covers(pieces[q], p)

\* A piece that stands for the symbols between two positions of the cursor,
\* and perhaps for layout.
Spells(t, piece, from, to) ==
  /\ piece.from \in Int /\ piece.to \in Int /\ piece.from <= piece.to
  /\ \A p \in Solid(t) : Covers(piece, p) <=> from < p /\ p <= to

\* The cursor passes layout.
LEMMA OnceLayout ==
  ASSUME NEW t, NEW pieces, NEW offset \in Nat, NEW to \in Nat, offset <= to,
         Once(t, pieces, offset), \A p \in Solid(t) : ~ (offset < p /\ p <= to)
  PROVE  Once(t, pieces, to)
<1>1. \A p \in Solid(t) : p \in Int
  BY DEF Solid
<1> QED BY <1>1 DEF Once

\* Every piece of one tree is a piece of another, perhaps at another place (h),
\* and the other tree has but one piece more (b).
Moves(old, new, h, b) ==
  /\ b \in DOMAIN new
  /\ \A q \in DOMAIN old : h[q] \in DOMAIN new /\ h[q] # b /\ new[h[q]] = old[q]
  /\ \A q, r \in DOMAIN old : h[q] = h[r] => q = r
  /\ \A q \in DOMAIN new : q = b \/ \E r \in DOMAIN old : h[r] = q

\* One piece more.
LEMMA OneMore ==
  ASSUME NEW t, NEW old, NEW new, NEW h, NEW b, Moves(old, new, h, b),
         NEW offset \in Nat, NEW to \in Nat, offset <= to,
         Once(t, old, offset), Spells(t, new[b], offset, to)
  PROVE  Once(t, new, to)
<1>0. /\ b \in DOMAIN new
      /\ \A q \in DOMAIN old : h[q] \in DOMAIN new /\ h[q] # b /\ new[h[q]] = old[q]
      /\ \A q, r \in DOMAIN old : h[q] = h[r] => q = r
      /\ \A q \in DOMAIN new : q = b \/ \E r \in DOMAIN old : h[r] = q
  BY DEF Moves
<1>1. \A p \in Solid(t) : p \in Int
  BY DEF Solid
<1>2. \A q \in DOMAIN new : /\ new[q].from \in Int /\ new[q].to \in Int
                            /\ new[q].from <= new[q].to
  BY <1>0 DEF Once, Spells
<1>3. ASSUME NEW p \in Solid(t), p <= to
      PROVE  \E q \in DOMAIN new : /\ Covers(new[q], p)
                                   /\ \A r \in DOMAIN new : Covers(new[r], p) => r = q
  <2>1. CASE p <= offset
    <3>1. PICK q \in DOMAIN old : /\ Covers(old[q], p)
                                  /\ \A r \in DOMAIN old : Covers(old[r], p) => r = q
      BY <2>1 DEF Once
    <3>2. ~ Covers(new[b], p)
      BY <1>1, <2>1 DEF Spells
    <3>3. \A r \in DOMAIN new : Covers(new[r], p) => r = h[q]
      BY <1>0, <3>1, <3>2
    <3>4. h[q] \in DOMAIN new /\ Covers(new[h[q]], p)
      BY <1>0, <3>1
    <3> QED BY <3>3, <3>4
  <2>2. CASE offset < p
    <3>1. Covers(new[b], p)
      BY <1>3, <2>2 DEF Spells
    <3>2. \A r \in DOMAIN old : ~ Covers(old[r], p)
      BY <2>2 DEF Once
    <3>3. \A r \in DOMAIN new : Covers(new[r], p) => r = b
      BY <1>0, <3>2
    <3> QED BY <1>0, <3>1, <3>3
  <2> QED BY <1>1, <2>1, <2>2
<1>4. ASSUME NEW p \in Solid(t), to < p
      PROVE  \A q \in DOMAIN new : ~ Covers(new[q], p)
  <2>1. offset < p /\ ~ (p <= to)
    BY <1>1, <1>4
  <2>2. ~ Covers(new[b], p)
    BY <2>1 DEF Spells
  <2>3. \A r \in DOMAIN old : ~ Covers(old[r], p)
    BY <2>1 DEF Once
  <2> QED BY <1>0, <2>2, <2>3
<1> QED BY <1>2, <1>3, <1>4 DEF Once

\* One piece longer.
LEMMA OneLonger ==
  ASSUME NEW t, NEW old, NEW new, NEW b \in DOMAIN old,
         NEW offset \in Nat, NEW to \in Nat, offset <= to, Once(t, old, offset),
         DOMAIN new = DOMAIN old, \A q \in DOMAIN old \ {b} : new[q] = old[q],
         new[b].from = old[b].from, new[b].to = to, old[b].to <= to,
         \A p \in Solid(t) : old[b].to < p /\ p <= to => offset < p,
         old[b].to <= offset
  PROVE  Once(t, new, to)
<1>1. \A p \in Solid(t) : p \in Int
  BY DEF Solid
<1>2. old[b].from \in Int /\ old[b].to \in Int /\ old[b].from <= old[b].to
  BY DEF Once
<1>3. \A q \in DOMAIN new : /\ new[q].from \in Int /\ new[q].to \in Int
                            /\ new[q].from <= new[q].to
  BY <1>2 DEF Once
<1>4. \A p \in Solid(t) : Covers(new[b], p) <=> Covers(old[b], p) \/ (offset < p /\ p <= to)
  BY <1>1, <1>2 DEF Covers
<1>5. ASSUME NEW p \in Solid(t), p <= to
      PROVE  \E q \in DOMAIN new : /\ Covers(new[q], p)
                                   /\ \A r \in DOMAIN new : Covers(new[r], p) => r = q
  <2>1. CASE p <= offset
    <3>1. PICK q \in DOMAIN old : /\ Covers(old[q], p)
                                  /\ \A r \in DOMAIN old : Covers(old[r], p) => r = q
      BY <2>1 DEF Once
    <3>2. Covers(new[b], p) <=> Covers(old[b], p)
      BY <1>1, <1>4, <2>1
    <3>3. \A r \in DOMAIN new : Covers(new[r], p) <=> Covers(old[r], p)
      BY <3>2
    <3> QED BY <3>1, <3>3
  <2>2. CASE offset < p
    <3>1. Covers(new[b], p)
      BY <1>4, <1>5, <2>2
    <3>2. \A r \in DOMAIN old : ~ Covers(old[r], p)
      BY <2>2 DEF Once
    <3>3. \A r \in DOMAIN new : Covers(new[r], p) => r = b
      BY <3>2
    <3> QED BY <3>1, <3>3
  <2> QED BY <1>1, <2>1, <2>2
<1>6. ASSUME NEW p \in Solid(t), to < p
      PROVE  \A q \in DOMAIN new : ~ Covers(new[q], p)
  <2>1. offset < p /\ ~ (p <= to)
    BY <1>1, <1>6
  <2>2. \A r \in DOMAIN old : ~ Covers(old[r], p)
    BY <2>1 DEF Once
  <2>3. ~ Covers(new[b], p)
    BY <1>4, <2>1, <2>2
  <2> QED BY <2>2, <2>3
<1> QED BY <1>3, <1>5, <1>6 DEF Once

\* The places of a tree and what each holds.
LEMMA PiecesAre ==
  ASSUME NEW stream
  PROVE  /\ \A i \in DOMAIN stream, slot \in Slots : \A k \in DOMAIN Parts(stream[i], slot) :
              /\ <<i, slot, k>> \in DOMAIN Pieces(stream)
              /\ Pieces(stream)[<<i, slot, k>>] = Parts(stream[i], slot)[k]
         /\ \A q \in DOMAIN Pieces(stream) : \E i \in DOMAIN stream, slot \in Slots :
              \E k \in DOMAIN Parts(stream[i], slot) : q = <<i, slot, k>>
<1> DEFINE places == UNION { { <<i, slot, k>> : k \in DOMAIN Parts(stream[i], slot) } :
                               i \in DOMAIN stream, slot \in Slots }
           piece(place) == Parts(stream[place[1]], place[2])[place[3]]
<1>1. Pieces(stream) = [place \in places |-> piece(place)]
  BY DEF Pieces
<1>2. ASSUME NEW i \in DOMAIN stream, NEW slot \in Slots, NEW k \in DOMAIN Parts(stream[i], slot)
      PROVE  <<i, slot, k>> \in places
  <2> DEFINE within(j, s) == { <<j, s, m>> : m \in DOMAIN Parts(stream[j], s) }
  <2>1. <<i, slot, k>> \in within(i, slot)
    OBVIOUS
  <2>2. places = UNION { within(j, s) : j \in DOMAIN stream, s \in Slots }
    OBVIOUS
  <2> HIDE DEF within, places
  <2> QED BY <2>1, <2>2
<1>3. \A q \in places : \E i \in DOMAIN stream, slot \in Slots :
        \E k \in DOMAIN Parts(stream[i], slot) : q = <<i, slot, k>>
  OBVIOUS
<1>4. \A i, slot, k : piece(<<i, slot, k>>) = Parts(stream[i], slot)[k]
  OBVIOUS
<1> HIDE DEF places, piece
<1>5. DOMAIN Pieces(stream) = places /\ \A q \in places : Pieces(stream)[q] = piece(q)
  BY <1>1
<1>6. ASSUME NEW i \in DOMAIN stream, NEW slot \in Slots, NEW k \in DOMAIN Parts(stream[i], slot)
      PROVE  /\ <<i, slot, k>> \in DOMAIN Pieces(stream)
             /\ Pieces(stream)[<<i, slot, k>>] = Parts(stream[i], slot)[k]
  <2>1. <<i, slot, k>> \in places
    BY <1>2
  <2>2. piece(<<i, slot, k>>) = Parts(stream[i], slot)[k]
    BY <1>4
  <2> QED BY <1>5, <2>1, <2>2
<1> QED BY <1>3, <1>5, <1>6

\* A comment or closer appended to one slot of one node.
LEMMA OnceAppended ==
  ASSUME NEW t, NEW old, NEW new, NEW i \in DOMAIN old, NEW slot \in Slots, NEW n \in Nat,
         NEW offset \in Nat, NEW to \in Nat, offset <= to,
         Once(t, Pieces(old), offset), Spells(t, Parts(new[i], slot)[n + 1], offset, to),
         DOMAIN new = DOMAIN old,
         \A j \in DOMAIN old, s \in Slots :
           j # i \/ s # slot => Parts(new[j], s) = Parts(old[j], s),
         DOMAIN Parts(old[i], slot) = 1 .. n,
         DOMAIN Parts(new[i], slot) = 1 .. n + 1,
         \A k \in 1 .. n : Parts(new[i], slot)[k] = Parts(old[i], slot)[k]
  PROVE  Once(t, Pieces(new), to)
<1> DEFINE b == <<i, slot, n + 1>>
           h == [q \in DOMAIN Pieces(old) |-> q]
<1>1. b \in DOMAIN Pieces(new) /\ Pieces(new)[b] = Parts(new[i], slot)[n + 1]
  <2>1. n + 1 \in DOMAIN Parts(new[i], slot)
    OBVIOUS
  <2> QED BY <2>1, PiecesAre
<1>2. ASSUME NEW q \in DOMAIN Pieces(old)
      PROVE  q \in DOMAIN Pieces(new) /\ q # b /\ Pieces(new)[q] = Pieces(old)[q]
  <2>1. PICK j \in DOMAIN old, s \in Slots : \E k \in DOMAIN Parts(old[j], s) : q = <<j, s, k>>
    BY PiecesAre
  <2>2. PICK k \in DOMAIN Parts(old[j], s) : q = <<j, s, k>>
    BY <2>1
  <2>3. /\ k \in DOMAIN Parts(new[j], s) /\ Parts(new[j], s)[k] = Parts(old[j], s)[k]
        /\ j = i /\ s = slot => k # n + 1
    BY <2>2
  <2>4. Pieces(old)[q] = Parts(old[j], s)[k]
    BY <2>2, PiecesAre
  <2>5. q \in DOMAIN Pieces(new) /\ Pieces(new)[q] = Parts(new[j], s)[k]
    BY <2>2, <2>3, PiecesAre
  <2> QED BY <2>2, <2>3, <2>4, <2>5
<1>3. ASSUME NEW q \in DOMAIN Pieces(new), q # b
      PROVE  q \in DOMAIN Pieces(old)
  <2>1. PICK j \in DOMAIN new, s \in Slots : \E k \in DOMAIN Parts(new[j], s) : q = <<j, s, k>>
    BY PiecesAre
  <2>2. PICK k \in DOMAIN Parts(new[j], s) : q = <<j, s, k>>
    BY <2>1
  <2>3. j \in DOMAIN old /\ k \in DOMAIN Parts(old[j], s)
    <3>1. CASE j = i /\ s = slot
      <4>1. k \in 1 .. n + 1 /\ k # n + 1
        BY <1>3, <2>2, <3>1
      <4> QED BY <3>1, <4>1
    <3>2. CASE j # i \/ s # slot
      BY <2>2, <3>2
    <3> QED BY <3>1, <3>2
  <2> QED BY <2>2, <2>3, PiecesAre
<1> HIDE DEF b
<1>4. Moves(Pieces(old), Pieces(new), h, b)
  BY <1>1, <1>2, <1>3 DEF Moves
<1>5. Spells(t, Pieces(new)[b], offset, to)
  BY <1>1
<1> HIDE DEF h
<1> QED BY <1>4, <1>5, OneMore

\* A comment or a closer that grows: the last of a slot.
LEMMA OnceExtended ==
  ASSUME NEW t, NEW old, NEW new, NEW i \in DOMAIN old, NEW slot \in Slots,
         NEW offset \in Nat, NEW to \in Nat, offset <= to, Once(t, Pieces(old), offset),
         DOMAIN new = DOMAIN old,
         \A j \in DOMAIN old, s \in Slots :
           j # i \/ s # slot => Parts(new[j], s) = Parts(old[j], s),
         NEW n \in DOMAIN Parts(old[i], slot),
         DOMAIN Parts(new[i], slot) = DOMAIN Parts(old[i], slot),
         \A k \in DOMAIN Parts(old[i], slot) :
           k # n => Parts(new[i], slot)[k] = Parts(old[i], slot)[k],
         Parts(new[i], slot)[n].from = Parts(old[i], slot)[n].from,
         Parts(new[i], slot)[n].to = to,
         Parts(old[i], slot)[n].to <= offset,
         \A p \in Solid(t) : Parts(old[i], slot)[n].to < p /\ p <= to => offset < p
  PROVE  Once(t, Pieces(new), to)
<1> DEFINE b == <<i, slot, n>>
<1>1. /\ b \in DOMAIN Pieces(old) /\ Pieces(old)[b] = Parts(old[i], slot)[n]
      /\ b \in DOMAIN Pieces(new) /\ Pieces(new)[b] = Parts(new[i], slot)[n]
  BY PiecesAre
<1>2. ASSUME NEW q \in DOMAIN Pieces(old)
      PROVE  q \in DOMAIN Pieces(new) /\ (q # b => Pieces(new)[q] = Pieces(old)[q])
  <2>1. PICK j \in DOMAIN old, s \in Slots : \E k \in DOMAIN Parts(old[j], s) : q = <<j, s, k>>
    BY PiecesAre
  <2>2. PICK k \in DOMAIN Parts(old[j], s) : q = <<j, s, k>>
    BY <2>1
  <2>3. /\ k \in DOMAIN Parts(new[j], s)
        /\ q # b => Parts(new[j], s)[k] = Parts(old[j], s)[k]
    BY <2>2
  <2>4. Pieces(old)[q] = Parts(old[j], s)[k]
    BY <2>2, PiecesAre
  <2>5. q \in DOMAIN Pieces(new) /\ Pieces(new)[q] = Parts(new[j], s)[k]
    BY <2>2, <2>3, PiecesAre
  <2> QED BY <2>3, <2>4, <2>5
<1>3. ASSUME NEW q \in DOMAIN Pieces(new)
      PROVE  q \in DOMAIN Pieces(old)
  <2>1. PICK j \in DOMAIN new, s \in Slots : \E k \in DOMAIN Parts(new[j], s) : q = <<j, s, k>>
    BY PiecesAre
  <2>2. PICK k \in DOMAIN Parts(new[j], s) : q = <<j, s, k>>
    BY <2>1
  <2>3. j \in DOMAIN old /\ k \in DOMAIN Parts(old[j], s)
    BY <2>2
  <2> QED BY <2>2, <2>3, PiecesAre
<1> HIDE DEF b
<1>4. DOMAIN Pieces(new) = DOMAIN Pieces(old)
  <2>1. \A q : q \in DOMAIN Pieces(new) <=> q \in DOMAIN Pieces(old)
    BY <1>2, <1>3
  <2> QED BY <2>1
<1>5. \A q \in DOMAIN Pieces(old) \ {b} : Pieces(new)[q] = Pieces(old)[q]
  BY <1>2
<1>6. Pieces(old)[b].to \in Int
  BY <1>1 DEF Once
<1>7. Pieces(old)[b].to <= to
  BY <1>1, <1>6
<1> QED BY <1>1, <1>4, <1>5, <1>7, OneLonger

\* What the slots of a node hold depends on these fields only.
LEMMA PartsOf ==
  ASSUME NEW node
  PROVE  /\ Parts(node, "lead") = node.lead /\ Parts(node, "trail") = node.trail
         /\ Parts(node, "prefix") = node.prefix /\ Parts(node, "suffix") = node.suffix
         /\ node.kind = "root" => Parts(node, "token") = <<>> /\ Parts(node, "closer") = <<>>
         /\ node.kind = "group" =>
              Parts(node, "token") = << [from |-> node.from, to |-> node.from + 1] >>
         /\ node.kind \notin {"root", "group"} =>
              /\ Parts(node, "token") = << [from |-> node.from, to |-> node.to] >>
              /\ Parts(node, "closer") = <<>>
         /\ node.kind = "group" /\ node.open => Parts(node, "closer") = <<>>
         /\ node.kind = "group" /\ ~ node.open =>
              Parts(node, "closer") = << [from |-> node.to - 1, to |-> node.to] >>
<1>1. /\ Parts(node, "lead") = node.lead /\ Parts(node, "trail") = node.trail
      /\ Parts(node, "prefix") = node.prefix /\ Parts(node, "suffix") = node.suffix
  BY DEF Parts
<1>2. Parts(node, "token") =
        CASE node.kind = "root"  -> <<>>
          [] node.kind = "group" -> << [from |-> node.from, to |-> node.from + 1] >>
          [] OTHER               -> << [from |-> node.from, to |-> node.to] >>
  BY DEF Parts
<1>3. Parts(node, "closer") = IF node.kind = "group" /\ ~ node.open
                              THEN << [from |-> node.to - 1, to |-> node.to] >> ELSE <<>>
  BY DEF Parts
<1>4. node.kind = "root" => Parts(node, "token") = <<>>
  BY <1>2
<1>5. node.kind = "group" =>
        Parts(node, "token") = << [from |-> node.from, to |-> node.from + 1] >>
  BY <1>2
<1>6. node.kind \notin {"root", "group"} =>
        Parts(node, "token") = << [from |-> node.from, to |-> node.to] >>
  BY <1>2
<1> QED BY <1>1, <1>3, <1>4, <1>5, <1>6

LEMMA SameParts ==
  ASSUME NEW a, NEW b, a.kind = b.kind, a.from = b.from, a.to = b.to, a.open = b.open
  PROVE  Parts(a, "token") = Parts(b, "token") /\ Parts(a, "closer") = Parts(b, "closer")
BY DEF Parts

\* The last element and the others of a sequence that is appended to.
LEMMA AppendedParts ==
  ASSUME NEW S, NEW s \in Seq(S), NEW e \in S
  PROVE  /\ Len(s) \in Nat /\ DOMAIN s = 1 .. Len(s) /\ DOMAIN Append(s, e) = 1 .. Len(s) + 1
         /\ \A k \in 1 .. Len(s) : Append(s, e)[k] = s[k]
         /\ Append(s, e)[Len(s) + 1] = e
  OBVIOUS

\* A comment behind the others of a slot.
LEMMA OnceAttached ==
  ASSUME NEW t, NEW stream \in Seq(Nodes), NEW i \in 1 .. Len(stream), NEW comment \in Spans,
         NEW offset \in Nat, NEW to \in Nat, offset <= to,
         Once(t, Pieces(stream), offset), Spells(t, comment, offset, to)
  PROVE  /\ Once(t, Pieces(Trailed(stream, i, Append(stream[i].trail, comment))), to)
         /\ Once(t, Pieces(Prefixed(stream, i, Append(stream[i].prefix, comment))), to)
         /\ Once(t, Pieces(Suffixed(stream, i, Append(stream[i].suffix, comment))), to)
<1>0. stream[i] \in Nodes /\ DOMAIN stream = 1 .. Len(stream)
  OBVIOUS
<1>1. stream[i].trail \in Seq(Spans) /\ stream[i].prefix \in Seq(Spans) /\ stream[i].suffix \in Seq(Spans)
  BY <1>0, NodeFields
<1>2. stream[i] = [f \in DOMAIN stream[i] |-> stream[i][f]]
      /\ DOMAIN stream[i] = {"kind", "spelling", "from", "to", "depth", "open",
                             "lead", "trail", "prefix", "suffix"}
  BY <1>0 DEF Nodes
<1>3. ASSUME NEW slot \in Slots, NEW comments \in Seq(Spans), NEW node,
             Parts(stream[i], slot) = comments, Parts(node, slot) = Append(comments, comment),
             \A s \in Slots : s # slot => Parts(node, s) = Parts(stream[i], s)
      PROVE  Once(t, Pieces([stream EXCEPT ![i] = node]), to)
  <2> DEFINE new == [stream EXCEPT ![i] = node]
             n == Len(comments)
  <2>1. /\ n \in Nat /\ DOMAIN comments = 1 .. n /\ DOMAIN Append(comments, comment) = 1 .. n + 1
        /\ \A k \in 1 .. n : Append(comments, comment)[k] = comments[k]
        /\ Append(comments, comment)[n + 1] = comment
    BY AppendedParts
  <2>2. /\ DOMAIN new = DOMAIN stream /\ new[i] = node
        /\ \A j \in DOMAIN stream : j # i => new[j] = stream[j]
    BY <1>0
  <2>3. \A j \in DOMAIN stream, s \in Slots :
          j # i \/ s # slot => Parts(new[j], s) = Parts(stream[j], s)
    BY <1>3, <2>2
  <2> HIDE DEF new, n
  <2>4. /\ DOMAIN Parts(stream[i], slot) = 1 .. n /\ DOMAIN Parts(new[i], slot) = 1 .. n + 1
        /\ \A k \in 1 .. n : Parts(new[i], slot)[k] = Parts(stream[i], slot)[k]
        /\ Spells(t, Parts(new[i], slot)[n + 1], offset, to)
    BY <1>3, <2>1, <2>2
  <2>5. i \in DOMAIN stream
    BY <1>0
  <2>6. Once(t, Pieces(new), to)
    BY <2>1, <2>2, <2>3, <2>4, <2>5, OnceAppended
  <2> QED BY <2>6 DEF new
<1>4. Once(t, Pieces(Trailed(stream, i, Append(stream[i].trail, comment))), to)
  <2> DEFINE node == [stream[i] EXCEPT !.trail = Append(stream[i].trail, comment)]
  <2>1. /\ node.kind = stream[i].kind /\ node.from = stream[i].from /\ node.to = stream[i].to
        /\ node.open = stream[i].open /\ node.lead = stream[i].lead
        /\ node.prefix = stream[i].prefix /\ node.suffix = stream[i].suffix
        /\ node.trail = Append(stream[i].trail, comment)
    BY <1>2
  <2>2. Trailed(stream, i, Append(stream[i].trail, comment)) = [stream EXCEPT ![i] = node]
    BY DEF Trailed
  <2> HIDE DEF node
  <2>3. Parts(stream[i], "trail") = stream[i].trail /\ Parts(node, "trail") = Append(stream[i].trail, comment)
    BY <2>1, PartsOf
  <2>4. \A s \in Slots : s # "trail" => Parts(node, s) = Parts(stream[i], s)
    BY <2>1, PartsOf, SameParts DEF Slots
  <2>5. "trail" \in Slots
    BY DEF Slots
  <2> QED BY <1>1, <1>3, <2>2, <2>3, <2>4, <2>5
<1>5. Once(t, Pieces(Prefixed(stream, i, Append(stream[i].prefix, comment))), to)
  <2> DEFINE node == [stream[i] EXCEPT !.prefix = Append(stream[i].prefix, comment)]
  <2>1. /\ node.kind = stream[i].kind /\ node.from = stream[i].from /\ node.to = stream[i].to
        /\ node.open = stream[i].open /\ node.lead = stream[i].lead
        /\ node.trail = stream[i].trail /\ node.suffix = stream[i].suffix
        /\ node.prefix = Append(stream[i].prefix, comment)
    BY <1>2
  <2>2. Prefixed(stream, i, Append(stream[i].prefix, comment)) = [stream EXCEPT ![i] = node]
    BY DEF Prefixed
  <2> HIDE DEF node
  <2>3. Parts(stream[i], "prefix") = stream[i].prefix
        /\ Parts(node, "prefix") = Append(stream[i].prefix, comment)
    BY <2>1, PartsOf
  <2>4. \A s \in Slots : s # "prefix" => Parts(node, s) = Parts(stream[i], s)
    BY <2>1, PartsOf, SameParts DEF Slots
  <2>5. "prefix" \in Slots
    BY DEF Slots
  <2> QED BY <1>1, <1>3, <2>2, <2>3, <2>4, <2>5
<1>6. Once(t, Pieces(Suffixed(stream, i, Append(stream[i].suffix, comment))), to)
  <2> DEFINE node == [stream[i] EXCEPT !.suffix = Append(stream[i].suffix, comment)]
  <2>1. /\ node.kind = stream[i].kind /\ node.from = stream[i].from /\ node.to = stream[i].to
        /\ node.open = stream[i].open /\ node.lead = stream[i].lead
        /\ node.trail = stream[i].trail /\ node.prefix = stream[i].prefix
        /\ node.suffix = Append(stream[i].suffix, comment)
    BY <1>2
  <2>2. Suffixed(stream, i, Append(stream[i].suffix, comment)) = [stream EXCEPT ![i] = node]
    BY DEF Suffixed
  <2> HIDE DEF node
  <2>3. Parts(stream[i], "suffix") = stream[i].suffix
        /\ Parts(node, "suffix") = Append(stream[i].suffix, comment)
    BY <2>1, PartsOf
  <2>4. \A s \in Slots : s # "suffix" => Parts(node, s) = Parts(stream[i], s)
    BY <2>1, PartsOf, SameParts DEF Slots
  <2>5. "suffix" \in Slots
    BY DEF Slots
  <2> QED BY <1>1, <1>3, <2>2, <2>3, <2>4, <2>5
<1> QED BY <1>4, <1>5, <1>6

\* The whole-line comment that waits last grows to the end of the next one.
LEMMA OnceLengthened ==
  ASSUME NEW t, NEW stream \in Seq(Nodes), NEW i \in 1 .. Len(stream),
         NEW n \in 1 .. Len(stream[i].suffix),
         NEW offset \in Nat, NEW to \in Nat, offset <= to, Once(t, Pieces(stream), offset),
         stream[i].suffix[n].to <= offset,
         \A p \in Solid(t) : stream[i].suffix[n].to < p /\ p <= to => offset < p
  PROVE  Once(t, Pieces(Suffixed(stream, i, [stream[i].suffix EXCEPT ![n].to = to])), to)
<1>0. stream[i] \in Nodes /\ DOMAIN stream = 1 .. Len(stream)
  OBVIOUS
<1> DEFINE old == stream[i].suffix
           longer == [old EXCEPT ![n].to = to]
           node == [stream[i] EXCEPT !.suffix = longer]
           new == [stream EXCEPT ![i] = node]
<1>1. old \in Seq(Spans)
  BY <1>0, NodeFields
<1>2. DOMAIN stream[i] = {"kind", "spelling", "from", "to", "depth", "open",
                          "lead", "trail", "prefix", "suffix"}
  BY <1>0 DEF Nodes
<1>3. old[n] \in Spans /\ DOMAIN old = 1 .. Len(old) /\ n \in DOMAIN old
  BY <1>1
<1> HIDE DEF old
<1>4. /\ DOMAIN longer = DOMAIN old /\ longer[n].from = old[n].from /\ longer[n].to = to
      /\ \A k \in DOMAIN old : k # n => longer[k] = old[k]
  BY <1>3 DEF Spans
<1> HIDE DEF longer
<1>5. /\ node.kind = stream[i].kind /\ node.from = stream[i].from /\ node.to = stream[i].to
      /\ node.open = stream[i].open /\ node.lead = stream[i].lead
      /\ node.trail = stream[i].trail /\ node.prefix = stream[i].prefix
      /\ node.suffix = longer
  BY <1>2
<1>6. Suffixed(stream, i, longer) = new
  BY DEF Suffixed
<1> HIDE DEF node
<1>7. Parts(stream[i], "suffix") = old /\ Parts(node, "suffix") = longer
  BY <1>5, PartsOf DEF old
<1>8. \A s \in Slots : s # "suffix" => Parts(node, s) = Parts(stream[i], s)
  BY <1>5, PartsOf, SameParts DEF Slots
<1>9. "suffix" \in Slots
  BY DEF Slots
<1>10. /\ DOMAIN new = DOMAIN stream /\ new[i] = node
       /\ \A j \in DOMAIN stream : j # i => new[j] = stream[j]
  BY <1>0
<1> HIDE DEF new
<1>11. \A j \in DOMAIN stream, s \in Slots :
         j # i \/ s # "suffix" => Parts(new[j], s) = Parts(stream[j], s)
  BY <1>8, <1>10
<1>12. /\ n \in DOMAIN Parts(stream[i], "suffix")
       /\ DOMAIN Parts(new[i], "suffix") = DOMAIN Parts(stream[i], "suffix")
       /\ \A k \in DOMAIN Parts(stream[i], "suffix") :
            k # n => Parts(new[i], "suffix")[k] = Parts(stream[i], "suffix")[k]
       /\ Parts(new[i], "suffix")[n].from = Parts(stream[i], "suffix")[n].from
       /\ Parts(new[i], "suffix")[n].to = to
       /\ Parts(stream[i], "suffix")[n].to <= offset
       /\ \A p \in Solid(t) : Parts(stream[i], "suffix")[n].to < p /\ p <= to => offset < p
  BY <1>3, <1>4, <1>7, <1>10 DEF old
<1>13. i \in DOMAIN stream
  BY <1>0
<1>14. Once(t, Pieces(new), to)
  BY <1>9, <1>10, <1>11, <1>12, <1>13, OnceExtended
<1> QED BY <1>6, <1>14 DEF longer, old

\* What push does to the slots of the nodes: the comments that waited in the
\* receiving stream lead the new node, whose token is the one piece more.
LEMMA PushParts ==
  ASSUME NEW stream \in Seq(Nodes), NEW node \in Nodes, node.kind # "root",
         node.kind = "group" => node.open,
         node.trail = <<>>, node.prefix = <<>>, node.suffix = <<>>,
         Innermost(stream) \in 1 .. Len(stream)
  PROVE  LET g == Innermost(stream)
             n == Len(stream)
             new == Push(stream, node)
         IN  /\ n \in Nat /\ DOMAIN stream = 1 .. n /\ DOMAIN new = 1 .. n + 1
             /\ \A i \in 1 .. n, s \in Slots :
                  i # g \/ s # "suffix" => Parts(new[i], s) = Parts(stream[i], s)
             /\ Parts(new[g], "suffix") = <<>>
             /\ Parts(new[n + 1], "lead") = Parts(stream[g], "suffix")
             /\ Parts(new[n + 1], "token") = Parts(node, "token")
             /\ \A s \in Slots \ {"lead", "token"} : Parts(new[n + 1], s) = <<>>
<1> DEFINE g == Innermost(stream)
           n == Len(stream)
           new == Push(stream, node)
           emptied == [stream[g] EXCEPT !.suffix = <<>>]
           last == [node EXCEPT !.depth = stream[g].depth + 1, !.lead = stream[g].suffix]
           kept == [stream EXCEPT ![g] = emptied]
<1>0. n \in Nat /\ DOMAIN stream = 1 .. n /\ stream[g] \in Nodes /\ g \in 1 .. n
  OBVIOUS
<1>1. /\ DOMAIN stream[g] = {"kind", "spelling", "from", "to", "depth", "open",
                             "lead", "trail", "prefix", "suffix"}
      /\ DOMAIN node = {"kind", "spelling", "from", "to", "depth", "open",
                        "lead", "trail", "prefix", "suffix"}
  BY <1>0 DEF Nodes
<1>2. /\ emptied.kind = stream[g].kind /\ emptied.from = stream[g].from
      /\ emptied.to = stream[g].to /\ emptied.open = stream[g].open
      /\ emptied.lead = stream[g].lead /\ emptied.trail = stream[g].trail
      /\ emptied.prefix = stream[g].prefix /\ emptied.suffix = <<>>
  BY <1>1
<1>3. /\ last.kind = node.kind /\ last.from = node.from /\ last.to = node.to
      /\ last.open = node.open /\ last.lead = stream[g].suffix /\ last.trail = <<>>
      /\ last.prefix = <<>> /\ last.suffix = <<>>
  BY <1>1
<1>4. emptied \in Nodes /\ last \in Nodes
  <2>1. <<>> \in Seq(Spans)
    OBVIOUS
  <2>2. stream[g].depth + 1 \in Nat /\ stream[g].suffix \in Seq(Spans)
    BY <1>0, NodeFields
  <2> QED BY <1>0, <2>1, <2>2, NodeAttached, NodePushed
<1>5. Push(stream, node) = Append([stream EXCEPT ![g].suffix = <<>>], last)
  BY DEF Push
<1>6. [stream EXCEPT ![g].suffix = <<>>] = kept
  OBVIOUS
<1> HIDE DEF emptied, last, g
<1>7. /\ kept \in Seq(Nodes) /\ Len(kept) = n /\ kept[g] = emptied
      /\ \A i \in 1 .. n : i # g => kept[i] = stream[i]
  BY <1>0, <1>4
<1> HIDE DEF kept
<1>8. new = Append(kept, last)
  BY <1>5, <1>6
<1> HIDE DEF new
<1>9. DOMAIN new = 1 .. n + 1 /\ new[n + 1] = last /\ \A i \in 1 .. n : new[i] = kept[i]
  BY <1>4, <1>7, <1>8, AppendedParts
<1>10. ASSUME NEW i \in 1 .. n, NEW s \in Slots, i # g \/ s # "suffix"
       PROVE  Parts(new[i], s) = Parts(stream[i], s)
  <2>1. CASE i # g
    BY <1>7, <1>9, <2>1
  <2>2. CASE i = g
    <3>1. new[i] = emptied /\ s # "suffix"
      BY <1>7, <1>9, <1>10, <2>2
    <3>2. Parts(emptied, s) = Parts(stream[g], s)
      BY <1>2, <3>1, PartsOf, SameParts DEF Slots
    <3> QED BY <2>2, <3>1, <3>2
  <2> QED BY <2>1, <2>2
<1>11. Parts(new[g], "suffix") = <<>>
  BY <1>0, <1>2, <1>7, <1>9, PartsOf
<1>12. Parts(new[n + 1], "lead") = Parts(stream[g], "suffix")
  BY <1>3, <1>9, PartsOf
<1>13. Parts(new[n + 1], "token") = Parts(node, "token")
  BY <1>3, <1>9, SameParts
<1>14. ASSUME NEW s \in Slots \ {"lead", "token"}
       PROVE  Parts(new[n + 1], s) = <<>>
  BY <1>3, <1>9, PartsOf DEF Slots
<1> QED BY <1>0, <1>9, <1>10, <1>11, <1>12, <1>13, <1>14 DEF g, new

\* A token or an opener behind the others.
LEMMA OncePushed ==
  ASSUME NEW t, NEW stream \in Seq(Nodes), NEW node \in Nodes, node.kind # "root",
         node.kind = "group" => node.open,
         node.trail = <<>>, node.prefix = <<>>, node.suffix = <<>>,
         Innermost(stream) \in 1 .. Len(stream),
         NEW offset \in Nat, NEW to \in Nat, offset <= to, Once(t, Pieces(stream), offset),
         NEW piece, Parts(node, "token") = <<piece>>, Spells(t, piece, offset, to)
  PROVE  Once(t, Pieces(Push(stream, node)), to)
<1> DEFINE g == Innermost(stream)
           n == Len(stream)
           new == Push(stream, node)
           place(j, s, k) == IF j = g /\ s = "suffix" THEN <<n + 1, "lead", k>> ELSE <<j, s, k>>
           h == [q \in DOMAIN Pieces(stream) |-> place(q[1], q[2], q[3])]
           b == <<n + 1, "token", 1>>
<1>1. /\ n \in Nat /\ DOMAIN stream = 1 .. n /\ DOMAIN new = 1 .. n + 1
      /\ \A i \in 1 .. n, s \in Slots :
           i # g \/ s # "suffix" => Parts(new[i], s) = Parts(stream[i], s)
      /\ Parts(new[g], "suffix") = <<>>
      /\ Parts(new[n + 1], "lead") = Parts(stream[g], "suffix")
      /\ Parts(new[n + 1], "token") = Parts(node, "token")
      /\ \A s \in Slots \ {"lead", "token"} : Parts(new[n + 1], s) = <<>>
  BY PushParts
<1>2. g \in 1 .. n
  OBVIOUS
<1> HIDE DEF g, n, new
<1>3. "token" \in Slots /\ "lead" \in Slots /\ "suffix" \in Slots
  BY DEF Slots
<1>4. b \in DOMAIN Pieces(new) /\ Pieces(new)[b] = piece
  <2>1. DOMAIN Parts(new[n + 1], "token") = {1} /\ Parts(new[n + 1], "token")[1] = piece
    BY <1>1
  <2>2. n + 1 \in DOMAIN new
    BY <1>1
  <2>3. 1 \in DOMAIN Parts(new[n + 1], "token")
    BY <2>1
  <2>4. <<n + 1, "token", 1>> \in DOMAIN Pieces(new)
        /\ Pieces(new)[<<n + 1, "token", 1>>] = Parts(new[n + 1], "token")[1]
    BY <1>3, <2>2, <2>3, PiecesAre
  <2> QED BY <2>1, <2>4
<1>5. ASSUME NEW q \in DOMAIN Pieces(stream)
      PROVE  \E j \in 1 .. n, s \in Slots : \E k \in DOMAIN Parts(stream[j], s) :
               q = <<j, s, k>> /\ h[q] = place(j, s, k)
  <2>1. PICK j \in DOMAIN stream, s \in Slots : \E k \in DOMAIN Parts(stream[j], s) : q = <<j, s, k>>
    BY PiecesAre
  <2>2. PICK k \in DOMAIN Parts(stream[j], s) : q = <<j, s, k>>
    BY <2>1
  <2>3. q[1] = j /\ q[2] = s /\ q[3] = k
    BY <2>2
  <2>4. h[q] = place(j, s, k)
    BY <2>3
  <2> HIDE DEF h, place
  <2> QED BY <1>1, <2>2, <2>4
<1> HIDE DEF h
<1>6. ASSUME NEW q \in DOMAIN Pieces(stream)
      PROVE  h[q] \in DOMAIN Pieces(new) /\ h[q] # b /\ Pieces(new)[h[q]] = Pieces(stream)[q]
  <2>1. PICK j \in 1 .. n, s \in Slots : \E k \in DOMAIN Parts(stream[j], s) :
               q = <<j, s, k>> /\ h[q] = place(j, s, k)
    BY <1>5
  <2>2. PICK k \in DOMAIN Parts(stream[j], s) : q = <<j, s, k>> /\ h[q] = place(j, s, k)
    BY <2>1
  <2>3. Pieces(stream)[q] = Parts(stream[j], s)[k]
    BY <1>1, <2>2, PiecesAre
  <2>4. CASE j = g /\ s = "suffix"
    <3>1. h[q] = <<n + 1, "lead", k>>
      BY <2>2, <2>4
    <3>2. k \in DOMAIN Parts(new[n + 1], "lead") /\ Parts(new[n + 1], "lead")[k] = Parts(stream[j], s)[k]
      BY <1>1, <2>2, <2>4
    <3>3. n + 1 \in DOMAIN new
      BY <1>1
    <3>4. h[q] \in DOMAIN Pieces(new) /\ Pieces(new)[h[q]] = Parts(new[n + 1], "lead")[k]
      BY <1>3, <3>1, <3>2, <3>3, PiecesAre
    <3> QED BY <2>3, <3>1, <3>2, <3>4
  <2>5. CASE ~ (j = g /\ s = "suffix")
    <3>1. h[q] = <<j, s, k>>
      BY <2>2, <2>5
    <3>2. k \in DOMAIN Parts(new[j], s) /\ Parts(new[j], s)[k] = Parts(stream[j], s)[k]
      BY <1>1, <2>2, <2>5
    <3>3. j \in DOMAIN new /\ j # n + 1
      BY <1>1
    <3>4. h[q] \in DOMAIN Pieces(new) /\ Pieces(new)[h[q]] = Parts(new[j], s)[k]
      BY <3>1, <3>2, <3>3, PiecesAre
    <3> QED BY <2>3, <3>1, <3>2, <3>3, <3>4
  <2> QED BY <2>4, <2>5
<1>7. ASSUME NEW q \in DOMAIN Pieces(stream), NEW r \in DOMAIN Pieces(stream), h[q] = h[r]
      PROVE  q = r
  <2>1. PICK j \in 1 .. n, s \in Slots : \E k \in DOMAIN Parts(stream[j], s) :
               q = <<j, s, k>> /\ h[q] = place(j, s, k)
    BY <1>5
  <2>2. PICK k \in DOMAIN Parts(stream[j], s) : q = <<j, s, k>> /\ h[q] = place(j, s, k)
    BY <2>1
  <2>3. PICK j2 \in 1 .. n, s2 \in Slots : \E k2 \in DOMAIN Parts(stream[j2], s2) :
               r = <<j2, s2, k2>> /\ h[r] = place(j2, s2, k2)
    BY <1>5
  <2>4. PICK k2 \in DOMAIN Parts(stream[j2], s2) : r = <<j2, s2, k2>> /\ h[r] = place(j2, s2, k2)
    BY <2>3
  <2>5. place(j, s, k) = place(j2, s2, k2)
    BY <1>7, <2>2, <2>4
  <2>6. j # n + 1 /\ j2 # n + 1
    BY <1>1
  <2>7. j = j2 /\ s = s2 /\ k = k2
    BY <2>5, <2>6
  <2> QED BY <2>2, <2>4, <2>7
<1>8. ASSUME NEW q \in DOMAIN Pieces(new), q # b
      PROVE  \E r \in DOMAIN Pieces(stream) : h[r] = q
  <2>1. PICK j \in DOMAIN new, s \in Slots : \E k \in DOMAIN Parts(new[j], s) : q = <<j, s, k>>
    BY PiecesAre
  <2>2. PICK k \in DOMAIN Parts(new[j], s) : q = <<j, s, k>>
    BY <2>1
  <2>3. \A i, c, m : <<i, c, m>> \in DOMAIN Pieces(stream) => h[<<i, c, m>>] = place(i, c, m)
    BY DEF h
  <2>4. CASE j = n + 1
    <3>1. s = "lead"
      <4>1. s # "token"
        <5> SUFFICES ASSUME s = "token"
                     PROVE  FALSE
          OBVIOUS
        <5>1. DOMAIN Parts(new[j], s) = {1}
          BY <1>1, <2>4
        <5>2. k = 1
          BY <5>1
        <5> QED BY <1>8, <2>2, <2>4, <5>2
      <4>2. CASE s \notin {"lead", "token"}
        <5>1. DOMAIN Parts(new[j], s) = {}
          BY <1>1, <2>4, <4>2
        <5> QED BY <5>1
      <4> QED BY <4>1, <4>2
    <3>2. k \in DOMAIN Parts(stream[g], "suffix")
      BY <1>1, <2>4, <3>1
    <3>3. <<g, "suffix", k>> \in DOMAIN Pieces(stream)
      BY <1>1, <1>2, <1>3, <3>2, PiecesAre
    <3>4. h[<<g, "suffix", k>>] = q
      BY <2>2, <2>3, <2>4, <3>1, <3>3
    <3> QED BY <3>3, <3>4
  <2>5. CASE j # n + 1
    <3>1. j \in 1 .. n
      BY <1>1, <2>5
    <3>2. ~ (j = g /\ s = "suffix")
      <4> SUFFICES ASSUME j = g, s = "suffix"
                   PROVE  FALSE
        OBVIOUS
      <4>1. DOMAIN Parts(new[j], s) = {}
        BY <1>1
      <4> QED BY <4>1
    <3>3. k \in DOMAIN Parts(stream[j], s)
      BY <1>1, <3>1, <3>2
    <3>4. q \in DOMAIN Pieces(stream)
      BY <1>1, <2>2, <3>1, <3>3, PiecesAre
    <3>5. h[q] = q
      BY <2>2, <2>3, <3>2, <3>4
    <3> QED BY <3>4, <3>5
  <2> QED BY <2>4, <2>5
<1> HIDE DEF b, place
<1>9. Moves(Pieces(stream), Pieces(new), h, b)
  BY <1>4, <1>6, <1>7, <1>8 DEF Moves
<1>10. Spells(t, Pieces(new)[b], offset, to)
  BY <1>4
<1>11. Once(t, Pieces(new), to)
  BY <1>9, <1>10, OneMore
<1> QED BY <1>11 DEF new

\* The closer of the group that is completed.
LEMMA OnceClosed ==
  ASSUME NEW t, NEW stream \in Seq(Nodes), NEW kind, Completable(stream, kind) # {},
         NEW offset \in Nat, Once(t, Pieces(stream), offset)
  PROVE  Once(t, Pieces(CompleteLastGroup(stream, kind, offset + 1)), offset + 1)
<1> DEFINE g == LargestOf(Completable(stream, kind))
           to == offset + 1
           closed == [stream[g] EXCEPT !.open = FALSE, !.to = to]
           new == [stream EXCEPT ![g] = closed]
           closer == [from |-> to - 1, to |-> to]
<1>1. g \in Completable(stream, kind)
  <2>1. Completable(stream, kind) \subseteq 0 .. Len(stream) /\ Len(stream) \in Nat
    BY DEF Completable, OpenNodes
  <2> QED BY <2>1, LargestIn
<1>2. CompleteLastGroup(stream, kind, to) = new
  BY DEF CompleteLastGroup
<1> HIDE DEF g
<1>3. g \in DOMAIN stream /\ stream[g].open /\ stream[g].kind = "group" /\ stream[g] \in Nodes
  BY <1>1 DEF Completable, OpenNodes
<1>4. DOMAIN stream[g] = {"kind", "spelling", "from", "to", "depth", "open",
                          "lead", "trail", "prefix", "suffix"}
  BY <1>3 DEF Nodes
<1>5. /\ closed.kind = "group" /\ closed.from = stream[g].from /\ closed.to = to
      /\ ~ closed.open /\ closed.lead = stream[g].lead /\ closed.trail = stream[g].trail
      /\ closed.prefix = stream[g].prefix /\ closed.suffix = stream[g].suffix
  BY <1>3, <1>4
<1>6. /\ DOMAIN new = DOMAIN stream /\ new[g] = closed
      /\ \A j \in DOMAIN stream : j # g => new[j] = stream[j]
  BY <1>3
<1> HIDE DEF closed
<1>7. \A s \in Slots : s # "closer" => Parts(closed, s) = Parts(stream[g], s)
  BY <1>3, <1>5, PartsOf DEF Slots
<1>8. Parts(stream[g], "closer") = <<>> /\ Parts(closed, "closer") = <<closer>>
  BY <1>3, <1>5, PartsOf
<1>9. \A p \in Solid(t) : p \in Int
  BY DEF Solid
<1>10. Spells(t, closer, offset, to)
  BY <1>9 DEF Spells, Covers
<1> HIDE DEF new, closer
<1> DEFINE none == 0
<1>11. /\ none \in Nat
       /\ DOMAIN Parts(stream[g], "closer") = 1 .. none
       /\ DOMAIN Parts(new[g], "closer") = 1 .. none + 1
       /\ \A k \in 1 .. none : Parts(new[g], "closer")[k] = Parts(stream[g], "closer")[k]
       /\ Spells(t, Parts(new[g], "closer")[none + 1], offset, to)
  BY <1>6, <1>8, <1>10
<1>12. \A j \in DOMAIN stream, s \in Slots :
         j # g \/ s # "closer" => Parts(new[j], s) = Parts(stream[j], s)
  BY <1>6, <1>7
<1>13. "closer" \in Slots /\ to \in Nat /\ offset <= to
  BY DEF Slots
<1> HIDE DEF to, none
<1>14. Once(t, Pieces(new), to)
  BY <1>3, <1>6, <1>11, <1>12, <1>13, OnceAppended
<1> QED BY <1>2, <1>14 DEF to

\* A comment that trails.
LEMMA OnceTrailing ==
  ASSUME NEW t, NEW stream \in Seq(Nodes), NEW g \in 1 .. Len(stream), NEW comment \in Spans,
         NEW offset \in Nat, NEW to \in Nat, offset <= to,
         Once(t, Pieces(stream), offset), Spells(t, comment, offset, to)
  PROVE  Once(t, Pieces(PushTrailing(stream, g, comment)), to)
<1>1. CASE LastTree(stream, g) # 0
  <2> DEFINE i == LastTree(stream, g)
  <2>1. i \in 1 .. Len(stream)
    <3>1. ChildrenOf(stream, g) \subseteq 1 .. Len(stream) /\ ChildrenOf(stream, g) \subseteq 0 .. Len(stream)
      BY DEF ChildrenOf
    <3>2. Len(stream) \in Nat
      OBVIOUS
    <3> QED BY <1>1, <3>1, <3>2, LargestIn DEF LastTree
  <2>2. PushTrailing(stream, g, comment) = Trailed(stream, i, Append(stream[i].trail, comment))
    BY <1>1, <2>1 DEF PushTrailing, Trailed
  <2> HIDE DEF i
  <2> QED BY <2>1, <2>2, OnceAttached
<1>2. CASE LastTree(stream, g) = 0
  <2>1. PushTrailing(stream, g, comment) = Prefixed(stream, g, Append(stream[g].prefix, comment))
    BY <1>2 DEF PushTrailing, Prefixed
  <2> QED BY <2>1, OnceAttached
<1> QED BY <1>1, <1>2

LEMMA OnceBlock ==
  ASSUME NEW t, NEW stream \in Seq(Nodes), Innermost(stream) \in 1 .. Len(stream),
         NEW from \in Nat, NEW to \in Nat, from <= to, Once(t, Pieces(stream), from)
  PROVE  Once(t, Pieces(PushBlockComment(stream, from, to)), to)
<1> DEFINE g == Innermost(stream)
           comment == Comment("block", from, to)
<1>1. comment \in Spans /\ Spells(t, comment, from, to)
  BY DEF Comment, Spans, Spells, Covers
<1> HIDE DEF comment
<1>2. CASE LastTree(stream, g) = 0 /\ stream[g].suffix # <<>>
  <2>1. PushBlockComment(stream, from, to)
          = Suffixed(stream, g, Append(stream[g].suffix, comment))
    BY <1>2 DEF PushBlockComment, Suffixed, comment
  <2> QED BY <1>1, <2>1, OnceAttached
<1>3. CASE ~ (LastTree(stream, g) = 0 /\ stream[g].suffix # <<>>)
  <2>1. PushBlockComment(stream, from, to) = PushTrailing(stream, g, comment)
    BY <1>3 DEF PushBlockComment, comment
  <2> QED BY <1>1, <2>1, OnceTrailing
<1> QED BY <1>2, <1>3

\* A line comment: what it takes with it, the start of its line or the lines
\* since the comment it extends, is layout.
LEMMA OnceLine ==
  ASSUME NEW t \in Text, NEW stream \in Seq(Nodes), Innermost(stream) \in 1 .. Len(stream),
         NEW from \in Nat, NEW to \in Nat, from <= to, Once(t, Pieces(stream), from)
  PROVE  Once(t, Pieces(PushLineComment(stream, t, from, to)), to)
<1> DEFINE g == Innermost(stream)
           start == LineStart(t, from)
           whole == Comment("line", start, to)
           comment == Comment("line", from, to)
           c == stream[g].suffix
           n == Len(c)
<1>0. \A p \in Solid(t) : p \in Int /\ t[p] # "NL" /\ t[p] # "SP"
  BY DEF Solid
<1>1. start \in Nat /\ start <= from
  <2> DEFINE S == {0} \cup { i \in 1 .. from : t[i] = "NL" }
  <2>1. S \subseteq 0 .. from /\ S # {}
    OBVIOUS
  <2> HIDE DEF S
  <2>2. LargestOf(S) \in S
    BY <2>1, LargestIn
  <2> QED BY <2>1, <2>2 DEF LineStart, S
<1>2. c \in Seq(Spans) /\ n \in Nat
  BY NodeFields
<1>3. CASE IsCompleteLine(t, from)
  <2>1. \A p \in Solid(t) : start < p => from < p
    BY <1>0, <1>1, <1>3 DEF IsCompleteLine
  <2> HIDE DEF start
  <2>2. whole \in Spans /\ whole.from = start /\ whole.to = to
    BY <1>1 DEF Comment, Spans
  <2>3. CASE n > 0 /\ SameBlock(t, c[n], whole)
    <3>1. c[n] \in Spans /\ n \in 1 .. Len(c)
      BY <1>2, <2>3
    <3>2. c[n].to \in Nat
      BY <3>1 DEF Spans
    <3>3. /\ c[n].to < start /\ t[c[n].to + 1] = "NL"
          /\ \A i \in c[n].to + 2 .. start : t[i] = "SP"
      BY <2>2, <2>3 DEF SameBlock
    <3>4. \A p \in Solid(t) : c[n].to < p /\ p <= to => from < p
      <4> SUFFICES ASSUME NEW p \in Solid(t), c[n].to < p, p <= to
                   PROVE  from < p
        OBVIOUS
      <4>1. p # c[n].to + 1 /\ p \notin c[n].to + 2 .. start
        BY <1>0, <3>3
      <4> HIDE DEF c, n
      <4>2. start < p
        BY <1>0, <1>1, <3>2, <4>1
      <4> QED BY <2>1, <4>2
    <3>5. c[n].to <= from
      BY <1>1, <3>2, <3>3
    <3>6. PushLineComment(stream, t, from, to) = Suffixed(stream, g, [c EXCEPT ![n].to = to])
      BY <1>3, <2>2, <2>3 DEF PushLineComment, ExtendBlock, Suffixed, start
    <3>7. Once(t, Pieces(Suffixed(stream, g, [stream[g].suffix EXCEPT ![n].to = to])), to)
      <4>1. n \in 1 .. Len(stream[g].suffix)
        BY <3>1
      <4> HIDE DEF n, g
      <4>2. g \in 1 .. Len(stream)
        BY DEF g
      <4> QED BY <3>4, <3>5, <4>1, <4>2, OnceLengthened
    <3> QED BY <3>6, <3>7
  <2>4. CASE ~ (n > 0 /\ SameBlock(t, c[n], whole))
    <3>1. PushLineComment(stream, t, from, to) = Suffixed(stream, g, Append(c, whole))
      BY <1>3, <2>4 DEF PushLineComment, ExtendBlock, Suffixed, start
    <3>2. Spells(t, whole, from, to)
      BY <1>0, <1>1, <2>1, <2>2 DEF Spells, Covers
    <3> HIDE DEF whole
    <3> QED BY <2>2, <3>1, <3>2, OnceAttached
  <2> QED BY <2>3, <2>4
<1>4. CASE ~ IsCompleteLine(t, from)
  <2>1. PushLineComment(stream, t, from, to) = PushTrailing(stream, g, comment)
    BY <1>4 DEF PushLineComment
  <2>2. comment \in Spans /\ Spells(t, comment, from, to)
    BY DEF Comment, Spans, Spells, Covers
  <2> HIDE DEF comment
  <2> QED BY <2>1, <2>2, OnceTrailing
<1> QED BY <1>3, <1>4

\* CursorAgrees, of a text and the locals of the loop.
Kept(t, x) == x.error = "none" => Once(t, Pieces(x.stream), x.offset)

\* The token or opener that Emit pushes is what the cursor passes.
LEMMA EmitKept ==
  ASSUME NEW t, NEW x, Sound(t, x), Running(x), Kept(t, x),
         NEW kind \in {"ident", "punct", "literal", "group"}, NEW spelling \in Spellings,
         NEW to \in Nat, x.offset < to, kind = "group" => to = x.offset + 1,
         NEW y, y.stream = Emit(x, kind, spelling, to).stream, y.offset = to
  PROVE  Kept(t, y)
<1> DEFINE node == Node(kind, spelling, x.offset, to)
           piece == [from |-> x.offset, to |-> to]
<1>1. x \in Lexers /\ x.error = "none" /\ Spine(x.stream, x.groups, x.offset)
  BY SoundRunning
<1>2. x.offset \in Nat /\ x.groups \in Stack /\ x.stream \in Seq(Nodes)
  BY <1>1, LexerFields
<1>3. /\ node.kind = kind /\ node.from = x.offset /\ node.to = to
      /\ node.open = (kind \in {"root", "group"})
      /\ node.trail = <<>> /\ node.prefix = <<>> /\ node.suffix = <<>>
  BY DEF Node
<1>4. node \in Nodes
  <2>1. <<>> \in Seq(Spans)
    OBVIOUS
  <2> QED BY <1>2, <2>1 DEF Node, Nodes
<1>5. Innermost(x.stream) \in 1 .. Len(x.stream)
  BY <1>1, <1>2, InnermostIs
<1>6. Emit(x, kind, spelling, to).stream = Push(x.stream, node)
  BY <1>1 DEF Emit, Lexers
<1> HIDE DEF node
<1>7. Parts(node, "token") = <<piece>>
  <2>1. CASE kind = "group"
    <3>1. Parts(node, "token") = << [from |-> node.from, to |-> node.from + 1] >>
      BY <1>3, <2>1, PartsOf
    <3> QED BY <1>3, <2>1, <3>1
  <2>2. CASE kind # "group"
    <3>1. Parts(node, "token") = << [from |-> node.from, to |-> node.to] >>
      BY <1>3, <2>2, PartsOf
    <3> QED BY <1>3, <3>1
  <2> QED BY <2>1, <2>2
<1>8. Spells(t, piece, x.offset, to)
  BY <1>2 DEF Spells, Covers
<1>9. Once(t, Pieces(x.stream), x.offset)
  BY <1>1 DEF Kept
<1>10. node.kind # "root" /\ (node.kind = "group" => node.open) /\ x.offset <= to
  <2>1. node.kind = "group" => node.open
    BY <1>3
  <2>2. x.offset <= to
    BY <1>2
  <2>3. node.kind # "root"
    BY <1>3
  <2> QED BY <2>1, <2>2, <2>3
<1> HIDE DEF piece
<1>11. Once(t, Pieces(Push(x.stream, node)), to)
  BY <1>2, <1>3, <1>4, <1>5, <1>7, <1>8, <1>9, <1>10, OncePushed
<1> QED BY <1>6, <1>11 DEF Kept

LEMMA TokensKept ==
  ASSUME NEW t \in Text, NEW x, Sound(t, x), Running(x), Kept(t, x)
  PROVE  /\ Branch(t, x) = "identifier" => Kept(t, AfterIdentifier(t, x))
         /\ Branch(t, x) \in {"punctuation", "quoted_bracket"} => Kept(t, AfterPunctuation(t, x))
<1>1. x \in Lexers
  BY SoundRunning
<1>2. x.offset \in Nat /\ x.quote_next \in BOOLEAN
  BY <1>1, LexerFields
<1>3. ASSUME Branch(t, x) = "identifier"
      PROVE  Kept(t, AfterIdentifier(t, x))
  <2> DEFINE to == WordEnd(t, x.offset)
             spelling == IdentSpelling(t, x.offset, to)
             next == Emit(x, "ident", spelling, to)
  <2>1. x.offset < Len(t) /\ t[x.offset + 1] \in Words
    <3>1. Peek(t, x.offset, 0) \in Words
      BY <1>2, <1>3, BranchFacts
    <3>2. Peek(t, x.offset, 0) # "EOF"
      BY <3>1 DEF Words, Keywords, QuoteSpecifiers
    <3> QED BY <1>2, <3>1, <3>2, PeekFacts
  <2>2. to \in Nat /\ x.offset < to
    BY <1>2, <2>1, WordEndFacts
  <2>3. spelling \in Spellings
    BY DEF IdentSpelling, Spellings
  <2>4. AfterIdentifier(t, x).stream = next.stream /\ AfterIdentifier(t, x).offset = to
    <3> HIDE DEF to, spelling
    <3>1. next.offset = to /\ {"stream", "offset"} \subseteq DOMAIN next
      BY <1>1 DEF Emit, Lexers
    <3>2. AfterIdentifier(t, x) =
            [next EXCEPT !.quote_next = ~ x.quote_next /\ QuotesNext(next.stream)]
      BY DEF AfterIdentifier, spelling, to
    <3> HIDE DEF next
    <3> QED BY <3>1, <3>2
  <2> HIDE DEF to, spelling
  <2> QED BY <2>2, <2>3, <2>4, EmitKept
<1>4. ASSUME Branch(t, x) \in {"punctuation", "quoted_bracket"}
      PROVE  Kept(t, AfterPunctuation(t, x))
  <2> DEFINE first == Peek(t, x.offset, 0)
             to == PunctuationEnd(t, x.offset)
             next == Emit(x, "punct", first, to)
  <2>1. first \in Operators \cup Openers \cup Closers \cup {"/"}
    BY <1>2, <1>4, BranchFacts
  <2>2. first \notin {"EOF", "SP"} /\ first \in Spellings
    BY <2>1 DEF Operators, Openers, Closers, Spellings
  <2>4. to \in Nat /\ x.offset < to
    BY <1>2, <2>2, PunctuationEndFacts
  <2>5. AfterPunctuation(t, x) = [next EXCEPT !.quote_next = FALSE]
    BY DEF AfterPunctuation
  <2> HIDE DEF first, to
  <2>6. AfterPunctuation(t, x).stream = next.stream /\ AfterPunctuation(t, x).offset = to
    <3>1. next.offset = to /\ {"stream", "offset"} \subseteq DOMAIN next
      BY <1>1 DEF Emit, Lexers
    <3> HIDE DEF next
    <3> QED BY <2>5, <3>1
  <2> QED BY <2>2, <2>4, <2>6, EmitKept
<1> QED BY <1>3, <1>4

\* A literal, unless its escape is bad.
LEMMA LiteralKept ==
  ASSUME NEW t, NEW x, Sound(t, x), Running(x), Kept(t, x), NEW scan \in Scan,
         x.offset < scan.to, NEW diagnosis
  PROVE  Kept(t, AfterLiteral(x, scan, diagnosis))
<1> DEFINE to == scan.to
           next == Emit(x, "literal", "", to)
           y == AfterLiteral(x, scan, diagnosis)
<1>1. x \in Lexers
  BY SoundRunning
<1>2. to \in Nat /\ scan.status \in {"closed", "unterminated", "bad_escape"}
  BY DEF Scan
<1>3. "" \in Spellings
  BY DEF Spellings
<1>4. next.offset = to /\ {"stream", "offset"} \subseteq DOMAIN next
  BY <1>1 DEF Emit, Lexers
<1>5. CASE scan.status \in {"closed", "unterminated"}
  <2>1. y.stream = next.stream /\ y.offset = next.offset
    <3>1. \/ y = [next EXCEPT !.quote_next = FALSE]
          \/ y = [[next EXCEPT !.quote_next = FALSE] EXCEPT !.diagnostics =
                    Append(@, Diagnostic(diagnosis, x.offset, scan.to))]
      BY <1>5 DEF AfterLiteral
    <3> HIDE DEF y, next
    <3> QED BY <1>4, <3>1
  <2> HIDE DEF y
  <2>2. Kept(t, y)
    <3> HIDE DEF to
    <3>1. x.offset < to
      BY DEF to
    <3> QED BY <1>2, <1>3, <1>4, <2>1, <3>1, EmitKept
  <2> QED BY <2>2 DEF y
<1>6. CASE scan.status = "bad_escape"
  <2>1. y = [x EXCEPT !.error = "InvalidEscape", !.offset = to]
    BY <1>6 DEF AfterLiteral
  <2>2. y.error = "InvalidEscape"
    BY <1>1, <2>1 DEF Lexers
  <2> HIDE DEF y
  <2>3. Kept(t, y)
    BY <2>2 DEF Kept
  <2> QED BY <2>3 DEF y
<1> QED BY <1>2, <1>5, <1>6

LEMMA StringsKept ==
  ASSUME NEW t \in Text, NEW x, Sound(t, x), Running(x), Kept(t, x)
  PROVE  /\ Branch(t, x) = "string" => Kept(t, AfterString(t, x))
         /\ Branch(t, x) = "raw_string" => Kept(t, AfterRawString(t, x))
<1>1. x \in Lexers
  BY SoundRunning
<1>2. x.offset \in Nat /\ x.quote_next \in BOOLEAN
  BY <1>1, LexerFields
<1>3. ASSUME Branch(t, x) = "string"
      PROVE  Kept(t, AfterString(t, x))
  <2>1. Peek(t, x.offset, 0) # "EOF"
    BY <1>2, <1>3, BranchFacts
  <2>2. x.offset < Len(t)
    BY <1>2, <2>1, PeekFacts
  <2>3. StringScan(t, x.offset) \in Scan /\ x.offset < StringScan(t, x.offset).to
    BY <1>2, <2>2, StringScanFacts
  <2> QED BY <2>3, LiteralKept DEF AfterString
<1>4. ASSUME Branch(t, x) = "raw_string"
      PROVE  Kept(t, AfterRawString(t, x))
  <2>1. Peek(t, x.offset, 0) # "EOF" /\ SlashRun(t, x.offset) >= 3
    BY <1>2, <1>4, BranchFacts
  <2>2. x.offset <= Len(t)
    BY <1>2, <2>1, PeekFacts DEF Text
  <2>3. RawStringScan(t, x.offset) \in Scan /\ x.offset < RawStringScan(t, x.offset).to
    BY <1>2, <2>1, <2>2, RawStringScanFacts
  <2> QED BY <2>3, LiteralKept DEF AfterRawString
<1> QED BY <1>3, <1>4

LEMMA CommentsKept ==
  ASSUME NEW t \in Text, NEW x, Sound(t, x), Running(x), Kept(t, x)
  PROVE  /\ Kept(t, AfterLineComment(t, x))
         /\ Branch(t, x) = "block_comment" => Kept(t, AfterBlockComment(t, x))
<1>1. /\ x \in Lexers /\ Spine(x.stream, x.groups, x.offset) /\ x.offset <= Len(t)
      /\ x.error = "none"
  BY SoundRunning
<1>2. /\ x.offset \in Nat /\ x.quote_next \in BOOLEAN /\ x.stream \in Seq(Nodes)
      /\ x.groups \in Stack
  BY <1>1, LexerFields
<1>3. Innermost(x.stream) \in 1 .. Len(x.stream)
  BY <1>1, <1>2, InnermostIs
<1>4. Once(t, Pieces(x.stream), x.offset)
  BY <1>1 DEF Kept
<1>5. Kept(t, AfterLineComment(t, x))
  <2> DEFINE to == LineCommentEnd(t, x.offset)
             stream == PushLineComment(x.stream, t, x.offset, to)
             y == AfterLineComment(t, x)
  <2>1. to \in Nat /\ x.offset <= to
    BY <1>1, <1>2, LineCommentEndFacts
  <2>2. y.stream = stream /\ y.offset = to
    BY <1>1 DEF AfterLineComment, Lexers
  <2> HIDE DEF to, y
  <2>3. Once(t, Pieces(stream), to)
    BY <1>2, <1>3, <1>4, <2>1, OnceLine
  <2>4. Kept(t, y)
    BY <2>2, <2>3 DEF Kept
  <2> QED BY <2>4 DEF y
<1>6. ASSUME Branch(t, x) = "block_comment"
      PROVE  Kept(t, AfterBlockComment(t, x))
  <2> DEFINE close == BlockCommentEnd(t, x.offset)
             to == close + 1
             stream == PushBlockComment(x.stream, x.offset, to)
             y == AfterBlockComment(t, x)
  <2>1. Peek(t, x.offset, 0) # "EOF"
    BY <1>2, <1>6, BranchFacts
  <2>2. x.offset < Len(t)
    BY <1>2, <2>1, PeekFacts
  <2>3. close \in Nat /\ x.offset < close
    BY <1>2, <2>2, BlockCommentEndFacts
  <2>4. CASE close = Len(t)
    <3>1. y.error = "UnterminatedBlockComment"
      BY <1>1, <2>4 DEF AfterBlockComment, Lexers
    <3> HIDE DEF y
    <3>2. Kept(t, y)
      BY <3>1 DEF Kept
    <3> QED BY <3>2 DEF y
  <2>5. CASE close # Len(t)
    <3>1. y.stream = stream /\ y.offset = to
      BY <1>1, <2>5 DEF AfterBlockComment, Lexers
    <3>2. to \in Nat /\ x.offset <= to
      BY <1>2, <2>3
    <3> HIDE DEF to, y
    <3>3. Once(t, Pieces(stream), to)
      BY <1>2, <1>3, <1>4, <3>2, OnceBlock
    <3>4. Kept(t, y)
      BY <3>1, <3>3 DEF Kept
    <3> QED BY <3>4 DEF y
  <2> QED BY <2>4, <2>5
<1> QED BY <1>5, <1>6

LEMMA DelimitersKept ==
  ASSUME NEW t \in Text, NEW x, Sound(t, x), Running(x), Kept(t, x)
  PROVE  /\ Branch(t, x) = "open" => Kept(t, AfterOpen(t, x))
         /\ Branch(t, x) = "close" => Kept(t, AfterClose(t, x))
<1>1. x \in Lexers /\ x.error = "none"
  BY SoundRunning
<1>2. /\ x.offset \in Nat /\ x.quote_next \in BOOLEAN /\ x.groups \in Stack
      /\ x.stream \in Seq(Nodes)
  BY <1>1, LexerFields
<1> DEFINE first == Peek(t, x.offset, 0)
<1>3. ASSUME Branch(t, x) = "open"
      PROVE  Kept(t, AfterOpen(t, x))
  <2> DEFINE to == x.offset + 1
             next == Emit(x, "group", first, to)
             y == AfterOpen(t, x)
  <2>1. first \in Openers
    BY <1>2, <1>3, BranchFacts
  <2>2. first \in Spellings
    BY <2>1 DEF Spellings
  <2> HIDE DEF first
  <2>3. CASE Len(x.groups) = MaxGroupDepth
    <3>1. y.error = "NestingLimitExceeded"
      BY <1>1, <2>3 DEF AfterOpen, Lexers
    <3> HIDE DEF y
    <3>2. Kept(t, y)
      BY <3>1 DEF Kept
    <3> QED BY <3>2 DEF y
  <2>4. CASE Len(x.groups) # MaxGroupDepth
    <3>1. y = [next EXCEPT !.quote_next = FALSE,
                           !.groups = Append(@, [kind |-> first, opening_start |-> x.offset])]
      BY <2>4 DEF AfterOpen, first
    <3>2. next.offset = to /\ {"stream", "offset"} \subseteq DOMAIN next
      BY <1>1 DEF Emit, Lexers
    <3>3. y.stream = next.stream /\ y.offset = to
      <4> HIDE DEF y, next
      <4> QED BY <3>1, <3>2
    <3>4. to \in Nat /\ x.offset < to
      BY <1>2
    <3> HIDE DEF y
    <3>5. Kept(t, y)
      BY <2>2, <3>3, <3>4, EmitKept
    <3> QED BY <3>5 DEF y
  <2> QED BY <2>3, <2>4
<1>4. ASSUME Branch(t, x) = "close"
      PROVE  Kept(t, AfterClose(t, x))
  <2> DEFINE n == Len(x.groups)
             kind == x.groups[n].kind
             matches == n > 0 /\ Closing(kind) = first
             to == x.offset + 1
             popped == [x EXCEPT !.offset = @ + 1, !.quote_next = FALSE,
                                 !.groups = SubSeq(@, 1, n - 1)]
             stream == CompleteLastGroup(x.stream, kind, to)
             refused == [x EXCEPT !.offset = @ + 1, !.error = "UnexpectedClosingDelimiter"]
             asserted == [x EXCEPT !.error = "assert"]
             completed == [popped EXCEPT !.stream = CompleteLastGroup(@, kind, x.offset + 1)]
             empty == Completable(x.stream, kind) = {}
  <2>1. AfterClose(t, x) = CASE ~ matches -> refused
                             [] matches /\ empty -> asserted
                             [] OTHER -> completed
    BY DEF AfterClose
  <2>2. refused.error # "none" /\ asserted.error # "none"
    BY <1>1 DEF Lexers
  <2>3. completed.stream = stream /\ completed.offset = to
    BY <1>1 DEF Lexers
  <2>4. CASE ~ empty
    <3>1. Once(t, Pieces(x.stream), x.offset)
      BY <1>1 DEF Kept
    <3>2. Once(t, Pieces(stream), to)
      BY <1>2, <2>4, <3>1, OnceClosed
    <3> HIDE DEF completed, refused, asserted, stream, to, matches, empty
    <3>3. Kept(t, completed)
      BY <2>3, <3>2 DEF Kept
    <3>4. Kept(t, refused)
      BY <2>2 DEF Kept
    <3> QED BY <2>1, <2>4, <3>3, <3>4
  <2>5. CASE empty
    <3> HIDE DEF completed, refused, asserted, stream, to, matches, empty
    <3>1. Kept(t, asserted) /\ Kept(t, refused)
      BY <2>2 DEF Kept
    <3> QED BY <2>1, <2>5, <3>1
  <2> QED BY <2>4, <2>5
<1> QED BY <1>3, <1>4

LEMMA LayoutKept ==
  ASSUME NEW t \in Text, NEW x, Sound(t, x), Running(x), Kept(t, x)
  PROVE  /\ Branch(t, x) = "line_break" => Kept(t, AfterLineBreak(t, x))
         /\ Kept(t, AfterWhitespace(t, x))
<1>1. x \in Lexers /\ x.offset <= Len(t) /\ x.error = "none"
  BY SoundRunning
<1>2. x.offset \in Nat /\ x.quote_next \in BOOLEAN
  BY <1>1, LexerFields
<1>3. Once(t, Pieces(x.stream), x.offset)
  BY <1>1 DEF Kept
<1>4. \A p \in Solid(t) : p \in Nat /\ t[p] # "NL" /\ t[p] # "SP"
  BY DEF Solid
<1>5. ASSUME Branch(t, x) = "line_break"
      PROVE  Kept(t, AfterLineBreak(t, x))
  <2> DEFINE y == AfterLineBreak(t, x)
             to == x.offset + 1
  <2>1. Peek(t, x.offset, 0) = "NL"
    BY <1>2, <1>5, BranchFacts
  <2>2. t[to] = "NL"
    BY <1>2, <2>1, PeekFacts
  <2>3. y.stream = x.stream /\ y.offset = to
    BY <1>1 DEF AfterLineBreak, Lexers
  <2>4. \A p \in Solid(t) : ~ (x.offset < p /\ p <= to)
    BY <1>2, <1>4, <2>2
  <2>5. to \in Nat /\ x.offset <= to
    BY <1>2
  <2> HIDE DEF y, to
  <2>6. Once(t, Pieces(x.stream), to)
    BY <1>2, <1>3, <2>4, <2>5, OnceLayout
  <2>7. Kept(t, y)
    BY <2>3, <2>6 DEF Kept
  <2> QED BY <2>7 DEF y
<1>6. Kept(t, AfterWhitespace(t, x))
  <2> DEFINE y == AfterWhitespace(t, x)
             to == LayoutEnd(t, x.offset)
  <2>1. /\ to \in Nat /\ x.offset <= to
        /\ \A d \in x.offset .. to - 1 : t[d + 1] = "SP"
    BY <1>1, <1>2, LayoutEndFacts
  <2>2. y.stream = x.stream /\ y.offset = to
    BY <1>1 DEF AfterWhitespace, Lexers
  <2> HIDE DEF y, to
  <2>3. \A p \in Solid(t) : ~ (x.offset < p /\ p <= to)
    <3> SUFFICES ASSUME NEW p \in Solid(t), x.offset < p, p <= to
                 PROVE  FALSE
      OBVIOUS
    <3>1. p - 1 \in x.offset .. to - 1 /\ (p - 1) + 1 = p
      BY <1>2, <1>4, <2>1
    <3>2. t[(p - 1) + 1] = "SP"
      BY <2>1, <3>1
    <3> QED BY <1>4, <3>1, <3>2
  <2>4. Once(t, Pieces(x.stream), to)
    BY <1>2, <1>3, <2>1, <2>3, OnceLayout
  <2>5. Kept(t, y)
    BY <2>2, <2>4 DEF Kept
  <2> QED BY <2>5 DEF y
<1> QED BY <1>5, <1>6

\* What is left: the end of the input, and a byte no token begins with.
LEMMA EndKept ==
  ASSUME NEW t, NEW x, Sound(t, x), Running(x), Kept(t, x)
  PROVE  Kept(t, AfterEndOfInput(t, x)) /\ Kept(t, AfterInvalid(t, x))
<1>1. x \in Lexers /\ x.error = "none"
  BY SoundRunning
<1>2. /\ AfterEndOfInput(t, x).stream = x.stream /\ AfterEndOfInput(t, x).offset = x.offset
      /\ AfterInvalid(t, x).error = "InvalidCharacter"
  BY <1>1 DEF AfterEndOfInput, AfterInvalid, Lexers
<1> QED BY <1>1, <1>2 DEF Kept

\* At the start there is the root, and no piece.
LEMMA StartKept ==
  ASSUME NEW t
  PROVE  Kept(t, LexerStart)
<1> DEFINE root == Node("root", "", 0, 0)
           stream == <<root>>
<1>1. /\ root.kind = "root" /\ root.lead = <<>> /\ root.trail = <<>>
      /\ root.prefix = <<>> /\ root.suffix = <<>>
  BY DEF Node
<1>2. LexerStart.stream = stream /\ LexerStart.offset = 0
  BY DEF LexerStart, EmptyStream
<1> HIDE DEF root
<1>3. DOMAIN stream = {1} /\ stream[1] = root
  OBVIOUS
<1> HIDE DEF stream
<1>4. \A s \in Slots : Parts(root, s) = <<>>
  BY <1>1, PartsOf DEF Slots
<1>5. DOMAIN Pieces(stream) = {}
  <2> SUFFICES ASSUME NEW q \in DOMAIN Pieces(stream)
               PROVE  FALSE
    OBVIOUS
  <2>1. PICK i \in DOMAIN stream, slot \in Slots : \E k \in DOMAIN Parts(stream[i], slot) : q = <<i, slot, k>>
    BY PiecesAre
  <2>2. DOMAIN Parts(stream[i], slot) = {}
    BY <1>3, <1>4
  <2> QED BY <2>1, <2>2
<1>6. \A p \in Solid(t) : ~ (p <= 0)
  BY DEF Solid
<1>7. Once(t, Pieces(stream), 0)
  BY <1>5, <1>6 DEF Once
<1> QED BY <1>2, <1>7 DEF Kept

LEMMA KeptInvariant == IInv /\ Kept(text, lexer) /\ [Next]_vars => Kept(text, lexer)'
<1> SUFFICES ASSUME IInv, Kept(text, lexer), [Next]_vars
             PROVE  Kept(text, lexer)'
  OBVIOUS
<1>1. text \in Text /\ Sound(text, lexer)
  BY TextsAssumption DEF IInv, Text
<1>2. ASSUME NEW branch, Takes(branch), Kept(text, lexer')
      PROVE  Kept(text, lexer)'
  BY <1>2 DEF Takes
<1>3. CASE EndOfInput
  BY <1>1, <1>2, <1>3, EndKept DEF EndOfInput, Takes
<1>4. CASE LineBreak
  BY <1>1, <1>2, <1>4, LayoutKept DEF LineBreak, Takes
<1>5. CASE Whitespace
  BY <1>1, <1>2, <1>5, LayoutKept DEF Whitespace, Takes
<1>6. CASE Identifier
  BY <1>1, <1>2, <1>6, TokensKept DEF Identifier, Takes
<1>7. CASE StringToken
  BY <1>1, <1>2, <1>7, StringsKept DEF StringToken, Takes
<1>8. CASE RawString
  BY <1>1, <1>2, <1>8, StringsKept DEF RawString, Takes
<1>9. CASE QuotedBracket
  BY <1>1, <1>2, <1>9, TokensKept DEF QuotedBracket, Takes
<1>10. CASE Punctuation
  BY <1>1, <1>2, <1>10, TokensKept DEF Punctuation, Takes
<1>11. CASE LineComment
  BY <1>1, <1>2, <1>11, CommentsKept DEF LineComment, Takes
<1>12. CASE BlockComment
  BY <1>1, <1>2, <1>12, CommentsKept DEF BlockComment, Takes
<1>13. CASE Open
  BY <1>1, <1>2, <1>13, DelimitersKept DEF Open, Takes
<1>14. CASE Close
  BY <1>1, <1>2, <1>14, DelimitersKept DEF Close, Takes
<1>15. CASE Invalid
  BY <1>1, <1>2, <1>15, EndKept DEF Invalid, Takes
<1>16. CASE UNCHANGED vars
  BY <1>16 DEF vars
<1> QED BY <1>3, <1>4, <1>5, <1>6, <1>7, <1>8, <1>9, <1>10, <1>11, <1>12, <1>13, <1>14, <1>15,
           <1>16 DEF Next

LEMMA AlwaysKept == Spec => [](IInv /\ Kept(text, lexer))
<1>1. Init => IInv /\ Kept(text, lexer)
  <2>1. Init => Kept(text, lexer)
    BY StartKept DEF Init
  <2> QED BY <2>1, InitInvariant
<1>2. IInv /\ Kept(text, lexer) /\ [Next]_vars => (IInv /\ Kept(text, lexer))'
  BY NextInvariant, KeptInvariant
<1> QED BY <1>1, <1>2, PTL DEF Spec

LEMMA CursorKept ==
  ASSUME text \in Text, lexer.offset \in Nat, Kept(text, lexer)
  PROVE  CursorAgrees
<1> DEFINE pieces == Pieces(lexer.stream)
           holders(p) == { q \in DOMAIN pieces : pieces[q].from < p /\ p <= pieces[q].to }
<1> SUFFICES ASSUME lexer.error = "none", NEW p \in DOMAIN text, text[p] \notin {"NL", "SP"}
             PROVE  IF p <= lexer.offset THEN \E q \in DOMAIN pieces : holders(p) = {q}
                                         ELSE holders(p) = {}
  BY DEF CursorAgrees
<1>1. Once(text, pieces, lexer.offset)
  BY DEF Kept
<1>2. p \in Solid(text) /\ p \in Nat
  BY DEF Solid, Text
<1> HIDE DEF pieces
<1>3. CASE p <= lexer.offset
  <2>1. PICK q \in DOMAIN pieces : /\ Covers(pieces[q], p)
                                   /\ \A r \in DOMAIN pieces : Covers(pieces[r], p) => r = q
    BY <1>1, <1>2, <1>3 DEF Once
  <2>2. holders(p) = {q}
    BY <2>1 DEF Covers
  <2> QED BY <1>3, <2>2
<1>4. CASE ~ (p <= lexer.offset)
  <2>1. lexer.offset < p
    BY <1>2, <1>4
  <2>2. \A q \in DOMAIN pieces : ~ Covers(pieces[q], p)
    BY <1>1, <1>2, <2>1 DEF Once
  <2>3. holders(p) = {}
    BY <2>2 DEF Covers
  <2> QED BY <1>4, <2>3
<1> QED BY <1>3, <1>4

-----------------------------------------------------------------------------
(* A text at the end of another: what is read of it does not depend on what  *)
(* stands in front.                                                          *)

\* u is what follows the first `by` symbols of t.
Ending(t, u, by) ==
  /\ t \in Text /\ u \in Text /\ by \in Nat
  /\ Len(t) = by + Len(u)
  /\ \A k \in 1 .. Len(u) : t[by + k] = u[k]

\* What FirstEnd chooses, of the positions at which it may stop.
Stops(S, a, b, e) == e \in a .. b /\ (e = b \/ e \in S) /\ \A d \in a .. e - 1 : d \notin S

LEMMA OneStop ==
  ASSUME NEW S, NEW a \in Nat, NEW b \in Nat, NEW e, NEW f, Stops(S, a, b, e), Stops(S, a, b, f)
  PROVE  e = f
<1>1. e \in Nat /\ f \in Nat
  BY DEF Stops
<1>2. ~ (e < f)
  <2> SUFFICES ASSUME e < f
               PROVE  FALSE
    OBVIOUS
  <2>1. e \in a .. f - 1 /\ e # b
    BY <1>1 DEF Stops
  <2> QED BY <2>1 DEF Stops
<1>3. ~ (f < e)
  <2> SUFFICES ASSUME f < e
               PROVE  FALSE
    OBVIOUS
  <2>1. f \in a .. e - 1 /\ f # b
    BY <1>1 DEF Stops
  <2> QED BY <2>1 DEF Stops
<1> QED BY <1>1, <1>2, <1>3

LEMMA StopExists ==
  ASSUME NEW S, NEW a \in Nat, NEW b \in Nat, a <= b
  PROVE  \E e : Stops(S, a, b, e)
<1>1. PICK e \in a .. b : (e = b \/ e \in S) /\ \A d \in a .. e - 1 : d \notin S
  BY FirstIn
<1> QED BY <1>1 DEF Stops

\* The positions of u are those of t, further on.
LEMMA StopMoves ==
  ASSUME NEW S, NEW R, NEW a \in Nat, NEW b \in Nat, NEW e, NEW by \in Nat,
         Stops(R, a, b, e), \A d \in a .. b - 1 : d \in R <=> by + d \in S
  PROVE  Stops(S, by + a, by + b, by + e)
<1>1. e \in a .. b /\ e \in Nat
  BY DEF Stops
<1>2. by + e = by + b \/ by + e \in S
  <2>1. CASE e = b
    BY <2>1
  <2>2. CASE e # b
    <3>1. e \in R /\ e \in a .. b - 1
      BY <1>1, <2>2 DEF Stops
    <3> QED BY <3>1
  <2> QED BY <2>1, <2>2
<1>3. ASSUME NEW d \in by + a .. by + e - 1
      PROVE  d \notin S
  <2> DEFINE c == d - by
  <2>1. c \in a .. e - 1 /\ c \in a .. b - 1 /\ by + c = d
    BY <1>1
  <2> HIDE DEF c
  <2>2. c \notin R
    BY <2>1 DEF Stops
  <2> QED BY <2>1, <2>2
<1> QED BY <1>1, <1>2, <1>3 DEF Stops

\* Where the operators of LexicalScan stop.
LEMMA EndsStop ==
  ASSUME NEW t \in Text, NEW from \in Nat, from <= Len(t)
  PROVE  /\ Stops({ e \in Nat : t[e + 1] \notin Words }, from, Len(t), WordEnd(t, from))
         /\ Stops({ e \in Nat : t[e + 1] # "SP" }, from, Len(t), LayoutEnd(t, from))
         /\ Stops({ e \in Nat : t[e + 1] = "NL" }, from, Len(t), LineCommentEnd(t, from))
         /\ from < Len(t) => Stops({ e \in Nat : t[e + 1] = "BC" }, from + 1, Len(t),
                                   BlockCommentEnd(t, from))
<1>0. Len(t) \in Nat
  BY DEF Text
<1>1. Stops({ e \in Nat : t[e + 1] \notin Words }, from, Len(t), WordEnd(t, from))
  <2> DEFINE S == { e \in Nat : t[e + 1] \notin Words }
  <2>1. PICK e : Stops(S, from, Len(t), e)
    BY <1>0, StopExists
  <2>2. \A f \in from .. Len(t) : Stops(S, from, Len(t), f) <=>
          /\ f = Len(t) \/ t[f + 1] \notin Words
          /\ \A d \in from .. f - 1 : ~ (t[d + 1] \notin Words)
    BY <1>0 DEF Stops
  <2>3. e \in from .. Len(t)
    BY <2>1 DEF Stops
  <2> HIDE DEF S
  <2> QED BY <2>1, <2>2, <2>3 DEF WordEnd, FirstEnd, S
<1>2. Stops({ e \in Nat : t[e + 1] # "SP" }, from, Len(t), LayoutEnd(t, from))
  <2> DEFINE S == { e \in Nat : t[e + 1] # "SP" }
  <2>1. PICK e : Stops(S, from, Len(t), e)
    BY <1>0, StopExists
  <2>2. \A f \in from .. Len(t) : Stops(S, from, Len(t), f) <=>
          /\ f = Len(t) \/ t[f + 1] # "SP"
          /\ \A d \in from .. f - 1 : ~ (t[d + 1] # "SP")
    BY <1>0 DEF Stops
  <2>3. e \in from .. Len(t)
    BY <2>1 DEF Stops
  <2> HIDE DEF S
  <2> QED BY <2>1, <2>2, <2>3 DEF LayoutEnd, FirstEnd, S
<1>3. Stops({ e \in Nat : t[e + 1] = "NL" }, from, Len(t), LineCommentEnd(t, from))
  <2> DEFINE S == { e \in Nat : t[e + 1] = "NL" }
  <2>1. PICK e : Stops(S, from, Len(t), e)
    BY <1>0, StopExists
  <2>2. \A f \in from .. Len(t) : Stops(S, from, Len(t), f) <=>
          /\ f = Len(t) \/ t[f + 1] = "NL"
          /\ \A d \in from .. f - 1 : ~ (t[d + 1] = "NL")
    BY <1>0 DEF Stops
  <2>3. e \in from .. Len(t)
    BY <2>1 DEF Stops
  <2> HIDE DEF S
  <2> QED BY <2>1, <2>2, <2>3 DEF LineCommentEnd, FirstEnd, S
<1>4. ASSUME from < Len(t)
      PROVE  Stops({ e \in Nat : t[e + 1] = "BC" }, from + 1, Len(t), BlockCommentEnd(t, from))
  <2> DEFINE S == { e \in Nat : t[e + 1] = "BC" }
  <2>0. from + 1 \in Nat /\ from + 1 <= Len(t)
    BY <1>0, <1>4
  <2>1. PICK e : Stops(S, from + 1, Len(t), e)
    BY <1>0, <2>0, StopExists
  <2>2. \A f \in from + 1 .. Len(t) : Stops(S, from + 1, Len(t), f) <=>
          /\ f = Len(t) \/ t[f + 1] = "BC"
          /\ \A d \in from + 1 .. f - 1 : ~ (t[d + 1] = "BC")
    BY <1>0 DEF Stops
  <2>3. e \in from + 1 .. Len(t)
    BY <2>1 DEF Stops
  <2> HIDE DEF S
  <2> QED BY <2>1, <2>2, <2>3 DEF BlockCommentEnd, FirstEnd, S
<1> QED BY <1>1, <1>2, <1>3, <1>4

\* A run of slashes, before it is cut to four.
SlashEnd(t, from) == FirstEnd(t, from, LAMBDA e : t[e + 1] # "/")

LEMMA SlashesStop ==
  ASSUME NEW t \in Text, NEW from \in Nat, from <= Len(t)
  PROVE  /\ Stops({ e \in Nat : t[e + 1] # "/" }, from, Len(t), SlashEnd(t, from))
         /\ SlashRun(t, from) = IF SlashEnd(t, from) - from > 4 THEN 4
                                                              ELSE SlashEnd(t, from) - from
<1> DEFINE S == { e \in Nat : t[e + 1] # "/" }
<1>0. Len(t) \in Nat
  BY DEF Text
<1>1. PICK e : Stops(S, from, Len(t), e)
  BY <1>0, StopExists
<1>2. \A f \in from .. Len(t) : Stops(S, from, Len(t), f) <=>
        /\ f = Len(t) \/ t[f + 1] # "/"
        /\ \A d \in from .. f - 1 : ~ (t[d + 1] # "/")
  BY <1>0 DEF Stops
<1>3. e \in from .. Len(t)
  BY <1>1 DEF Stops
<1> HIDE DEF S
<1>4. Stops(S, from, Len(t), SlashEnd(t, from))
  BY <1>1, <1>2, <1>3 DEF SlashEnd, FirstEnd
<1> QED BY <1>4 DEF SlashRun, SlashEnd, S

\* A symbol that ends a token in u ends it in t.
LEMMA SameSymbols ==
  ASSUME NEW t, NEW u, NEW by, Ending(t, u, by), NEW d \in Nat, d < Len(u)
  PROVE  t[by + d + 1] = u[d + 1]
<1>1. d + 1 \in 1 .. Len(u) /\ by + (d + 1) = by + d + 1
  BY DEF Ending, Text
<1> QED BY <1>1 DEF Ending

LEMMA EndsMove ==
  ASSUME NEW t, NEW u, NEW by, Ending(t, u, by), NEW from \in Nat, from <= Len(u)
  PROVE  /\ WordEnd(t, by + from) = by + WordEnd(u, from)
         /\ LayoutEnd(t, by + from) = by + LayoutEnd(u, from)
         /\ LineCommentEnd(t, by + from) = by + LineCommentEnd(u, from)
         /\ from < Len(u) => BlockCommentEnd(t, by + from) = by + BlockCommentEnd(u, from)
         /\ SlashRun(t, by + from) = SlashRun(u, from)
<1>0. /\ t \in Text /\ u \in Text /\ by \in Nat /\ Len(u) \in Nat /\ Len(t) = by + Len(u)
      /\ by + from \in Nat /\ by + from <= Len(t) /\ Len(t) \in Nat
  BY DEF Ending, Text
<1>s. \A d \in Nat : d < Len(u) => t[by + d + 1] = u[d + 1]
  BY SameSymbols
<1>a. ASSUME NEW S, NEW R, NEW a \in Nat, from <= a, a <= Len(u),
             \A d \in a .. Len(u) - 1 : d \in R <=> by + d \in S,
             NEW e, NEW f, Stops(R, a, Len(u), e), Stops(S, by + a, Len(t), f)
      PROVE  f = by + e
  <2>1. Stops(S, by + a, by + Len(u), by + e)
    BY <1>0, <1>a, StopMoves
  <2> QED BY <1>0, <1>a, <2>1, OneStop
<1>1. WordEnd(t, by + from) = by + WordEnd(u, from)
  <2> DEFINE S == { e \in Nat : t[e + 1] \notin Words }
             R == { e \in Nat : u[e + 1] \notin Words }
  <2>1. \A d \in from .. Len(u) - 1 : d \in R <=> by + d \in S
    <3> TAKE d \in from .. Len(u) - 1
    <3>1. d \in Nat /\ d < Len(u) /\ by + d \in Nat
      BY <1>0
    <3>2. t[by + d + 1] = u[d + 1]
      BY <1>s, <3>1
    <3> QED BY <3>1, <3>2
  <2>2. Stops(R, from, Len(u), WordEnd(u, from))
    BY <1>0, EndsStop
  <2>3. Stops(S, by + from, Len(t), WordEnd(t, by + from))
    BY <1>0, EndsStop
  <2> HIDE DEF S, R
  <2> QED BY <1>0, <1>a, <2>1, <2>2, <2>3
<1>2. LayoutEnd(t, by + from) = by + LayoutEnd(u, from)
  <2> DEFINE S == { e \in Nat : t[e + 1] # "SP" }
             R == { e \in Nat : u[e + 1] # "SP" }
  <2>1. \A d \in from .. Len(u) - 1 : d \in R <=> by + d \in S
    <3> TAKE d \in from .. Len(u) - 1
    <3>1. d \in Nat /\ d < Len(u) /\ by + d \in Nat
      BY <1>0
    <3>2. t[by + d + 1] = u[d + 1]
      BY <1>s, <3>1
    <3> QED BY <3>1, <3>2
  <2>2. Stops(R, from, Len(u), LayoutEnd(u, from))
    BY <1>0, EndsStop
  <2>3. Stops(S, by + from, Len(t), LayoutEnd(t, by + from))
    BY <1>0, EndsStop
  <2> HIDE DEF S, R
  <2> QED BY <1>0, <1>a, <2>1, <2>2, <2>3
<1>3. LineCommentEnd(t, by + from) = by + LineCommentEnd(u, from)
  <2> DEFINE S == { e \in Nat : t[e + 1] = "NL" }
             R == { e \in Nat : u[e + 1] = "NL" }
  <2>1. \A d \in from .. Len(u) - 1 : d \in R <=> by + d \in S
    <3> TAKE d \in from .. Len(u) - 1
    <3>1. d \in Nat /\ d < Len(u) /\ by + d \in Nat
      BY <1>0
    <3>2. t[by + d + 1] = u[d + 1]
      BY <1>s, <3>1
    <3> QED BY <3>1, <3>2
  <2>2. Stops(R, from, Len(u), LineCommentEnd(u, from))
    BY <1>0, EndsStop
  <2>3. Stops(S, by + from, Len(t), LineCommentEnd(t, by + from))
    BY <1>0, EndsStop
  <2> HIDE DEF S, R
  <2> QED BY <1>0, <1>a, <2>1, <2>2, <2>3
<1>4. ASSUME from < Len(u)
      PROVE  BlockCommentEnd(t, by + from) = by + BlockCommentEnd(u, from)
  <2> DEFINE S == { e \in Nat : t[e + 1] = "BC" }
             R == { e \in Nat : u[e + 1] = "BC" }
  <2>1. \A d \in from + 1 .. Len(u) - 1 : d \in R <=> by + d \in S
    <3> TAKE d \in from + 1 .. Len(u) - 1
    <3>1. d \in Nat /\ d < Len(u) /\ by + d \in Nat
      BY <1>0, <1>4
    <3>2. t[by + d + 1] = u[d + 1]
      BY <1>s, <3>1
    <3> QED BY <3>1, <3>2
  <2>2. Stops(R, from + 1, Len(u), BlockCommentEnd(u, from))
    BY <1>0, <1>4, EndsStop
  <2>3. Stops(S, by + from + 1, Len(t), BlockCommentEnd(t, by + from))
    <3>1. by + from < Len(t)
      BY <1>0, <1>4
    <3> QED BY <1>0, <3>1, EndsStop
  <2>4. from + 1 \in Nat /\ from <= from + 1 /\ from + 1 <= Len(u) /\ by + from + 1 = by + (from + 1)
    BY <1>0, <1>4
  <2> HIDE DEF S, R
  <2>5. Stops(S, by + (from + 1), Len(t), BlockCommentEnd(t, by + from))
    BY <2>3, <2>4
  <2> QED BY <1>a, <2>1, <2>2, <2>4, <2>5
<1>5. SlashEnd(t, by + from) = by + SlashEnd(u, from)
  <2> DEFINE S == { e \in Nat : t[e + 1] # "/" }
             R == { e \in Nat : u[e + 1] # "/" }
  <2>1. \A d \in from .. Len(u) - 1 : d \in R <=> by + d \in S
    <3> TAKE d \in from .. Len(u) - 1
    <3>1. d \in Nat /\ d < Len(u) /\ by + d \in Nat
      BY <1>0
    <3>2. t[by + d + 1] = u[d + 1]
      BY <1>s, <3>1
    <3> QED BY <3>1, <3>2
  <2>2. Stops(R, from, Len(u), SlashEnd(u, from))
    BY <1>0, SlashesStop
  <2>3. Stops(S, by + from, Len(t), SlashEnd(t, by + from))
    BY <1>0, SlashesStop
  <2> HIDE DEF S, R
  <2> QED BY <1>0, <1>a, <2>1, <2>2, <2>3
<1>6. SlashRun(t, by + from) = SlashRun(u, from)
  <2>1. /\ SlashRun(t, by + from) = IF SlashEnd(t, by + from) - (by + from) > 4 THEN 4
                                      ELSE SlashEnd(t, by + from) - (by + from)
        /\ SlashRun(u, from) = IF SlashEnd(u, from) - from > 4 THEN 4 ELSE SlashEnd(u, from) - from
    BY <1>0, SlashesStop
  <2>2. SlashEnd(u, from) \in Nat
    <3>1. Stops({ e \in Nat : u[e + 1] # "/" }, from, Len(u), SlashEnd(u, from))
      BY <1>0, SlashesStop
    <3> QED BY <3>1 DEF Stops
  <2>3. SlashEnd(t, by + from) - (by + from) = SlashEnd(u, from) - from
    BY <1>0, <1>5, <2>2
  <2> QED BY <2>1, <2>3
<1> QED BY <1>1, <1>2, <1>3, <1>4, <1>6

LEMMA SymbolsMove ==
  ASSUME NEW t, NEW u, NEW by, Ending(t, u, by), NEW from \in Nat, from <= Len(u)
  PROVE  /\ Peek(t, by + from, 0) = Peek(u, from, 0)
         /\ Peek(t, by + from, 1) = Peek(u, from, 1)
         /\ \A to \in Nat : from < to /\ to <= Len(u) =>
              IdentSpelling(t, by + from, by + to) = IdentSpelling(u, from, to)
<1>0. /\ t \in Text /\ u \in Text /\ by \in Nat /\ Len(u) \in Nat /\ Len(t) = by + Len(u)
  BY DEF Ending, Text
<1>1. Peek(t, by + from, 0) = Peek(u, from, 0)
  <2>1. CASE from < Len(u)
    <3>1. t[by + from + 1] = u[from + 1]
      BY <2>1, SameSymbols
    <3>2. by + from + 0 < Len(t) /\ from + 0 < Len(u) /\ by + from + 0 + 1 = by + from + 1
          /\ from + 0 + 1 = from + 1
      BY <1>0, <2>1
    <3> QED BY <3>1, <3>2 DEF Peek
  <2>2. CASE from = Len(u)
    <3>1. ~ (by + from + 0 < Len(t)) /\ ~ (from + 0 < Len(u))
      BY <1>0, <2>2
    <3> QED BY <3>1 DEF Peek
  <2> QED BY <1>0, <2>1, <2>2
<1>3. Peek(t, by + from, 1) = Peek(u, from, 1)
  <2>1. CASE from + 1 < Len(u)
    <3>1. t[by + (from + 1) + 1] = u[from + 1 + 1]
      BY <2>1, SameSymbols
    <3>2. by + from + 1 < Len(t) /\ by + from + 1 + 1 = by + (from + 1) + 1
      BY <1>0, <2>1
    <3> QED BY <2>1, <3>1, <3>2 DEF Peek
  <2>2. CASE ~ (from + 1 < Len(u))
    <3>1. ~ (by + from + 1 < Len(t))
      BY <1>0, <2>2
    <3> QED BY <2>2, <3>1 DEF Peek
  <2> QED BY <2>1, <2>2
<1>2. ASSUME NEW to \in Nat, from < to, to <= Len(u)
      PROVE  IdentSpelling(t, by + from, by + to) = IdentSpelling(u, from, to)
  <2>1. t[by + from + 1] = u[from + 1]
    <3>1. from < Len(u)
      BY <1>0, <1>2
    <3> QED BY <3>1, SameSymbols
  <2>2. t[by + to] = u[to]
    <3>1. to \in 1 .. Len(u)
      BY <1>0, <1>2
    <3> QED BY <3>1 DEF Ending
  <2>3. (by + to = by + from + 1 <=> to = from + 1) /\ (by + to = by + from + 2 <=> to = from + 2)
    BY <1>0
  <2> QED BY <2>1, <2>2, <2>3 DEF IdentSpelling
<1> QED BY <1>1, <1>2, <1>3

\* Punctuation ends at the same symbol.
LEMMA PunctuationMoves ==
  ASSUME NEW t, NEW u, NEW by, Ending(t, u, by), NEW from \in Nat, from <= Len(u)
  PROVE  PunctuationEnd(t, by + from) = by + PunctuationEnd(u, from)
<1> DEFINE run == SlashRun(u, from)
           first == Peek(u, from, 0)
           second == Peek(u, from, 1)
<1>1. u \in Text /\ by \in Nat
  BY DEF Ending
<1>2. /\ Peek(t, by + from, 0) = first /\ Peek(t, by + from, 1) = second
      /\ SlashRun(t, by + from) = run
  BY EndsMove, SymbolsMove
<1>3. run \in 0 .. 4
  BY <1>1, SlashRunFacts
<1> HIDE DEF run, first, second
<1>4. CASE first = "/"
  <2>1. PunctuationEnd(t, by + from) = by + from + run /\ PunctuationEnd(u, from) = from + run
    BY <1>2, <1>4 DEF PunctuationEnd, run, first
  <2> QED BY <1>1, <1>3, <2>1
<1>5. CASE first = "BS" /\ second = "BS"
  <2>1. PunctuationEnd(t, by + from) = by + from + 2 /\ PunctuationEnd(u, from) = from + 2
    BY <1>2, <1>5 DEF PunctuationEnd, first, second
  <2> QED BY <1>1, <2>1
<1>6. CASE first # "/" /\ ~ (first = "BS" /\ second = "BS")
  <2>1. PunctuationEnd(t, by + from) = by + from + 1 /\ PunctuationEnd(u, from) = from + 1
    BY <1>2, <1>6 DEF PunctuationEnd, first, second
  <2> QED BY <1>1, <2>1
<1> QED BY <1>4, <1>5, <1>6

\* The same scan, further on.
Further(s, r, by) == s.status = r.status /\ s.to = by + r.to

LEMMA StringMoves ==
  ASSUME NEW t, NEW u, NEW by, Ending(t, u, by), NEW from \in Nat, from < Len(u)
  PROVE  Further(StringScan(t, by + from), StringScan(u, from), by)
<1> DEFINE n == Len(u)
           D == 0 .. n + 1
           m == [i \in D |-> n + 1 - i]
           far == StringRun(t)
           near == StringRun(u)
           good == { i \in D : Further(far[by + i], near[i], by) }
<1>0. /\ t \in Text /\ u \in Text /\ by \in Nat /\ n \in Nat /\ Len(t) = by + n
  BY DEF Ending, Text
<1>1. \A i \in D :
        /\ i >= n => near[i] = [status |-> "unterminated", to |-> n]
        /\ i < n /\ u[i + 1] = "QT" => near[i] = [status |-> "closed", to |-> i + 1]
        /\ i < n /\ u[i + 1] = "BS" =>
             near[i] = IF i + 1 = n THEN [status |-> "unterminated", to |-> n]
                       ELSE IF u[i + 2] \in {"QT", "BS"} THEN near[i + 2]
                       ELSE [status |-> "bad_escape", to |-> i + 2]
        /\ i < n /\ u[i + 1] \notin {"QT", "BS"} => near[i] = near[i + 1]
  BY <1>0, StringRunIs
<1>2. ASSUME NEW i \in D
      PROVE  /\ i >= n => far[by + i] = [status |-> "unterminated", to |-> by + n]
             /\ i < n /\ u[i + 1] = "QT" => far[by + i] = [status |-> "closed", to |-> by + i + 1]
             /\ i < n /\ u[i + 1] = "BS" =>
                  far[by + i] = IF i + 1 = n THEN [status |-> "unterminated", to |-> by + n]
                                ELSE IF u[i + 2] \in {"QT", "BS"} THEN far[by + (i + 2)]
                                ELSE [status |-> "bad_escape", to |-> by + i + 2]
             /\ i < n /\ u[i + 1] \notin {"QT", "BS"} => far[by + i] = far[by + (i + 1)]
  <2> DEFINE k == by + i
  <2>1. k \in 0 .. Len(t) + 1 /\ (k >= Len(t) <=> i >= n) /\ (k < Len(t) <=> i < n)
        /\ (k + 1 = Len(t) <=> i + 1 = n) /\ k + 2 = by + (i + 2) /\ k + 1 = by + (i + 1)
    BY <1>0
  <2>2. i < n => t[k + 1] = u[i + 1]
    BY <1>0, SameSymbols
  <2>3. i < n /\ i + 1 # n => t[k + 2] = u[i + 2]
    <3> HAVE i < n /\ i + 1 # n
    <3>1. i + 1 \in Nat /\ i + 1 < n /\ by + (i + 1) + 1 = k + 2 /\ i + 1 + 1 = i + 2
      BY <1>0
    <3>2. t[by + (i + 1) + 1] = u[i + 1 + 1]
      BY <3>1, SameSymbols
    <3> HIDE DEF k
    <3> QED BY <3>1, <3>2
  <2>4. /\ k >= Len(t) => far[k] = [status |-> "unterminated", to |-> Len(t)]
        /\ k < Len(t) /\ t[k + 1] = "QT" => far[k] = [status |-> "closed", to |-> k + 1]
        /\ k < Len(t) /\ t[k + 1] = "BS" =>
             far[k] = IF k + 1 = Len(t) THEN [status |-> "unterminated", to |-> Len(t)]
                      ELSE IF t[k + 2] \in {"QT", "BS"} THEN far[k + 2]
                      ELSE [status |-> "bad_escape", to |-> k + 2]
        /\ k < Len(t) /\ t[k + 1] \notin {"QT", "BS"} => far[k] = far[k + 1]
    <3> HIDE DEF k
    <3> QED BY <1>0, <2>1, StringRunIs
  <2> HIDE DEF far, D
  <2>5. i >= n => far[k] = [status |-> "unterminated", to |-> by + n]
    <3> HIDE DEF k
    <3> QED BY <1>0, <2>1, <2>4
  <2>6. i < n /\ u[i + 1] = "QT" => far[k] = [status |-> "closed", to |-> by + i + 1]
    BY <2>1, <2>2, <2>4
  <2>7. i < n /\ u[i + 1] = "BS" =>
                  far[k] = IF i + 1 = n THEN [status |-> "unterminated", to |-> by + n]
                                ELSE IF u[i + 2] \in {"QT", "BS"} THEN far[by + (i + 2)]
                                ELSE [status |-> "bad_escape", to |-> by + i + 2]
    <3> HIDE DEF k
    <3> QED BY <1>0, <2>1, <2>2, <2>3, <2>4 DEF k
  <2>8. i < n /\ u[i + 1] \notin {"QT", "BS"} => far[k] = far[by + (i + 1)]
    <3> HIDE DEF k
    <3> QED BY <1>0, <2>1, <2>2, <2>4
  <2> QED BY <2>5, <2>6, <2>7, <2>8
<1> HIDE DEF near, far
<1>3. ASSUME NEW i \in D, \A k \in D : m[k] < m[i] => k \in good
      PROVE  i \in good
  <2>0. i \in Nat /\ i <= n + 1
    BY <1>0
  <2>a. ASSUME NEW k \in D, i < k
        PROVE  Further(far[by + k], near[k], by)
    <3>1. m[k] < m[i]
      BY <1>0, <2>a
    <3> QED BY <1>3, <3>1
  <2> HIDE DEF m
  <2>1. CASE i >= n
    <3>1. near[i] = [status |-> "unterminated", to |-> n]
          /\ far[by + i] = [status |-> "unterminated", to |-> by + n]
      BY <1>1, <1>2, <2>1
    <3> QED BY <3>1 DEF Further
  <2>2. CASE i < n /\ u[i + 1] = "QT"
    <3>1. near[i] = [status |-> "closed", to |-> i + 1]
          /\ far[by + i] = [status |-> "closed", to |-> by + i + 1]
      BY <1>1, <1>2, <2>2
    <3> QED BY <1>0, <3>1 DEF Further
  <2>3. CASE i < n /\ u[i + 1] = "BS"
    <3>1. near[i] = IF i + 1 = n THEN [status |-> "unterminated", to |-> n]
                       ELSE IF u[i + 2] \in {"QT", "BS"} THEN near[i + 2]
                       ELSE [status |-> "bad_escape", to |-> i + 2]
      BY <1>1, <2>3
    <3>2. far[by + i] = IF i + 1 = n THEN [status |-> "unterminated", to |-> by + n]
                                ELSE IF u[i + 2] \in {"QT", "BS"} THEN far[by + (i + 2)]
                                ELSE [status |-> "bad_escape", to |-> by + i + 2]
      BY <1>2, <2>3
    <3>3. CASE i + 1 = n
      BY <3>1, <3>2, <3>3 DEF Further
    <3>4. CASE i + 1 # n /\ u[i + 2] \in {"QT", "BS"}
      <4>1. i + 2 \in D /\ i < i + 2
        BY <1>0, <2>0, <2>3, <3>4
      <4>2. Further(far[by + (i + 2)], near[i + 2], by)
        BY <2>a, <4>1
      <4> QED BY <3>1, <3>2, <3>4, <4>2
    <3>5. CASE i + 1 # n /\ u[i + 2] \notin {"QT", "BS"}
      <4>1. near[i] = [status |-> "bad_escape", to |-> i + 2]
            /\ far[by + i] = [status |-> "bad_escape", to |-> by + i + 2]
        BY <3>1, <3>2, <3>5
      <4> QED BY <1>0, <2>0, <4>1 DEF Further
    <3> QED BY <3>3, <3>4, <3>5
  <2>4. CASE i < n /\ u[i + 1] \notin {"QT", "BS"}
    <3>1. near[i] = near[i + 1] /\ far[by + i] = far[by + (i + 1)]
      BY <1>1, <1>2, <2>4
    <3>2. i + 1 \in D /\ i < i + 1
      BY <1>0, <2>0, <2>4
    <3>3. Further(far[by + (i + 1)], near[i + 1], by)
      BY <2>a, <3>2
    <3> QED BY <3>1, <3>3
  <2> QED BY <1>0, <2>0, <2>1, <2>2, <2>3, <2>4
<1>4. m \in [D -> Nat]
  BY <1>0
<1>5. D \subseteq good
  <2> HIDE DEF D, m, good
  <2> QED BY <1>3, <1>4, MeasureInduction
<1>6. from + 1 \in D
  BY <1>0
<1>7. Further(far[by + (from + 1)], near[from + 1], by)
  BY <1>5, <1>6
<1>8. StringScan(t, by + from) = far[by + from + 1] /\ StringScan(u, from) = near[from + 1]
  BY <1>0, StringRunIs DEF far, near
<1>9. by + from + 1 = by + (from + 1)
  BY <1>0
<1> QED BY <1>7, <1>8, <1>9

LEMMA RawMoves ==
  ASSUME NEW t, NEW u, NEW by, Ending(t, u, by), NEW from \in Nat, from + 3 <= Len(u)
  PROVE  Further(RawStringScan(t, by + from), RawStringScan(u, from), by)
<1> DEFINE n == Len(u)
           D == 0 .. n
           m == [i \in D |-> n - i]
           r(i) == SlashRun(u, i)
           far == RawRun(t)
           near == RawRun(u)
           good == { i \in D : Further(far[by + i], near[i], by) }
<1>0. /\ t \in Text /\ u \in Text /\ by \in Nat /\ n \in Nat /\ Len(t) = by + n
  BY DEF Ending, Text
<1>a. \A i \in D : r(i) \in 0 .. 4 /\ i + r(i) <= n /\ SlashRun(t, by + i) = r(i)
  BY <1>0, SlashRunFacts, EndsMove
<1>1. \A i \in D :
        /\ i = n => near[i] = [status |-> "unterminated", to |-> n]
        /\ i # n /\ r(i) = 3 => near[i] = [status |-> "closed", to |-> i + 3]
        /\ i # n /\ r(i) \in {2, 4} => near[i] = near[i + 2]
        /\ i # n /\ r(i) \notin {2, 3, 4} => near[i] = near[i + 1]
  BY <1>0, RawRunIs
<1>2. ASSUME NEW i \in D
      PROVE  /\ i = n => far[by + i] = [status |-> "unterminated", to |-> by + n]
             /\ i # n /\ r(i) = 3 => far[by + i] = [status |-> "closed", to |-> by + i + 3]
             /\ i # n /\ r(i) \in {2, 4} => far[by + i] = far[by + (i + 2)]
             /\ i # n /\ r(i) \notin {2, 3, 4} => far[by + i] = far[by + (i + 1)]
  <2> DEFINE k == by + i
  <2>1. k \in 0 .. Len(t) /\ (k = Len(t) <=> i = n) /\ k + 2 = by + (i + 2) /\ k + 1 = by + (i + 1)
    BY <1>0
  <2>2. SlashRun(t, k) = r(i)
    BY <1>a
  <2>3. /\ k = Len(t) => far[k] = [status |-> "unterminated", to |-> Len(t)]
        /\ k # Len(t) /\ SlashRun(t, k) = 3 => far[k] = [status |-> "closed", to |-> k + 3]
        /\ k # Len(t) /\ SlashRun(t, k) \in {2, 4} => far[k] = far[k + 2]
        /\ k # Len(t) /\ SlashRun(t, k) \notin {2, 3, 4} => far[k] = far[k + 1]
    <3> HIDE DEF k, r
    <3> QED BY <1>0, <2>1, RawRunIs
  <2> HIDE DEF far, D, r
  <2>4. i = n => far[k] = [status |-> "unterminated", to |-> by + n]
    BY <1>0, <2>1, <2>3
  <2>5. i # n /\ r(i) = 3 => far[k] = [status |-> "closed", to |-> by + i + 3]
    BY <2>1, <2>2, <2>3
  <2>6. i # n /\ r(i) \in {2, 4} => far[k] = far[by + (i + 2)]
    <3> HIDE DEF k
    <3> QED BY <2>1, <2>2, <2>3
  <2>7. i # n /\ r(i) \notin {2, 3, 4} => far[k] = far[by + (i + 1)]
    <3> HIDE DEF k
    <3> QED BY <2>1, <2>2, <2>3
  <2> QED BY <2>4, <2>5, <2>6, <2>7
<1> HIDE DEF near, far, r
<1>3. ASSUME NEW i \in D, \A k \in D : m[k] < m[i] => k \in good
      PROVE  i \in good
  <2>0. i \in Nat /\ i <= n /\ r(i) \in 0 .. 4 /\ i + r(i) <= n
    BY <1>0, <1>a
  <2>a. ASSUME NEW k \in D, i < k
        PROVE  Further(far[by + k], near[k], by)
    <3>1. m[k] < m[i]
      BY <1>0, <2>a
    <3> QED BY <1>3, <3>1
  <2> HIDE DEF m
  <2>1. CASE i = n
    <3>1. near[i] = [status |-> "unterminated", to |-> n]
          /\ far[by + i] = [status |-> "unterminated", to |-> by + n]
      BY <1>1, <1>2, <2>1
    <3> QED BY <3>1 DEF Further
  <2>2. CASE i # n /\ r(i) = 3
    <3>1. near[i] = [status |-> "closed", to |-> i + 3]
          /\ far[by + i] = [status |-> "closed", to |-> by + i + 3]
      BY <1>1, <1>2, <2>2
    <3> QED BY <1>0, <2>0, <3>1 DEF Further
  <2>3. CASE i # n /\ r(i) \in {2, 4}
    <3>1. near[i] = near[i + 2] /\ far[by + i] = far[by + (i + 2)]
      BY <1>1, <1>2, <2>3
    <3>2. i + 2 \in D /\ i < i + 2
      BY <1>0, <2>0, <2>3
    <3>3. Further(far[by + (i + 2)], near[i + 2], by)
      BY <2>a, <3>2
    <3> QED BY <3>1, <3>3
  <2>4. CASE i # n /\ r(i) \notin {2, 3, 4}
    <3>1. near[i] = near[i + 1] /\ far[by + i] = far[by + (i + 1)]
      BY <1>1, <1>2, <2>4
    <3>2. i + 1 \in D /\ i < i + 1
      BY <1>0, <2>0, <2>4
    <3>3. Further(far[by + (i + 1)], near[i + 1], by)
      BY <2>a, <3>2
    <3> QED BY <3>1, <3>3
  <2> QED BY <2>1, <2>2, <2>3, <2>4
<1>4. m \in [D -> Nat]
  BY <1>0
<1>5. D \subseteq good
  <2> HIDE DEF D, m, good
  <2> QED BY <1>3, <1>4, MeasureInduction
<1>6. from + 3 \in D
  BY <1>0
<1>7. Further(far[by + (from + 3)], near[from + 3], by)
  BY <1>5, <1>6
<1>8. RawStringScan(t, by + from) = far[by + from + 3] /\ RawStringScan(u, from) = near[from + 3]
  BY <1>0, RawRunIs DEF far, near
<1>9. by + from + 3 = by + (from + 3)
  BY <1>0
<1> QED BY <1>7, <1>8, <1>9

\* Which branch is taken, where, and quoted or not.
LEMMA BranchMoves ==
  ASSUME NEW t, NEW u, NEW by, Ending(t, u, by), NEW x, NEW y, y.offset \in Nat,
         y.offset <= Len(u), x.offset = by + y.offset, x.quote_next = y.quote_next
  PROVE  Branch(t, x) = Branch(u, y)
<1>1. Peek(t, x.offset, 0) = Peek(u, y.offset, 0) /\ SlashRun(t, x.offset) = SlashRun(u, y.offset)
  BY SymbolsMove, EndsMove
<1> DEFINE first == Peek(u, y.offset, 0)
           slashes == SlashRun(u, y.offset)
<1> QED BY <1>1 DEF Branch

\* A token, and the same one in a text that starts earlier.
SameToken(a, b, by) ==
  /\ a.kind = b.kind /\ a.spelling = b.spelling /\ a.depth = b.depth
  /\ a.from = by + b.from /\ a.to = by + b.to /\ a.open = b.open

\* The tokens of s are those of base, which are complete, and then those of r.
Continues(s, r, base, by) ==
  /\ Len(base) > 0 /\ Len(r) > 0 /\ Len(s) = Len(base) - 1 + Len(r)
  /\ \A i \in 2 .. Len(base) : SameToken(s[i], base[i], 0) /\ ~ base[i].open
  /\ \A i \in 2 .. Len(r) : SameToken(s[Len(base) - 1 + i], r[i], by)

\* Comments are not compared.
LEMMA ContinuesOutline ==
  ASSUME NEW s \in Seq(Nodes), NEW r \in Seq(Nodes), NEW base \in Seq(Nodes), NEW by \in Nat,
         Continues(s, r, base, by), NEW v \in Seq(Nodes), NEW w \in Seq(Nodes),
         SameOutline(s, v), SameOutline(r, w)
  PROVE  Continues(v, w, base, by)
<1> DEFINE m == Len(base)
           n == Len(r)
<1>0. /\ m \in Nat /\ n \in Nat /\ m > 0 /\ n > 0
      /\ Len(s) = m - 1 + n /\ Len(v) = m - 1 + n /\ Len(w) = n
  <2>1. m > 0 /\ n > 0 /\ Len(s) = m - 1 + n
    BY DEF Continues
  <2>2. Len(v) = Len(s) /\ Len(w) = n
    BY DEF SameOutline
  <2> QED BY <2>1, <2>2
<1>1. ASSUME NEW i \in 2 .. m
      PROVE  SameToken(v[i], base[i], 0) /\ ~ base[i].open
  <2>1. i \in 1 .. Len(s)
    BY <1>0
  <2>2. SameToken(s[i], base[i], 0) /\ ~ base[i].open
    BY DEF Continues
  <2> HIDE DEF m
  <2> QED BY <2>1, <2>2 DEF SameToken, SameOutline
<1>2. ASSUME NEW i \in 2 .. n
      PROVE  SameToken(v[m - 1 + i], w[i], by)
  <2> DEFINE k == m - 1 + i
  <2>1. k \in 1 .. Len(s) /\ i \in 1 .. Len(r)
    BY <1>0
  <2>2. SameToken(s[k], r[i], by)
    BY DEF Continues
  <2> HIDE DEF k
  <2>3. SameToken(v[k], w[i], by)
    BY <2>1, <2>2 DEF SameToken, SameOutline
  <2> QED BY <2>3 DEF k
<1> QED BY <1>0, <1>1, <1>2 DEF Continues

\* The receiving stream of s is that of r.
LEMMA ContinuesInnermost ==
  ASSUME NEW s \in Seq(Nodes), NEW r \in Seq(Nodes), NEW base \in Seq(Nodes), NEW by \in Nat,
         Continues(s, r, base, by), NEW groups \in Stack, NEW stack \in Stack,
         NEW offset \in Nat, NEW later \in Nat,
         Spine(s, groups, offset), Spine(r, stack, later)
  PROVE  Innermost(r) # 1 => Innermost(s) = Len(base) - 1 + Innermost(r)
<1> DEFINE m == Len(base)
           n == Len(r)
           g == Innermost(r)
<1>0. m \in Nat /\ n \in Nat /\ m > 0 /\ n > 0 /\ Len(s) = m - 1 + n
  BY DEF Continues
<1>1. g \in OpenNodes(r) /\ g \in 1 .. n /\ \A j \in OpenNodes(r) : j <= g
  BY InnermostIs
<1> HIDE DEF g
<1> SUFFICES ASSUME g # 1
             PROVE  Innermost(s) = m - 1 + g
  BY DEF g
<1>2. g \in 2 .. n
  BY <1>0, <1>1
<1>3. DOMAIN s = 1 .. m - 1 + n /\ DOMAIN r = 1 .. n
  BY <1>0
<1>4. m - 1 + g \in OpenNodes(s)
  <2> DEFINE k == m - 1 + g
  <2>1. SameToken(s[k], r[g], by)
    BY <1>2 DEF Continues
  <2>2. k \in 1 .. m - 1 + n
    BY <1>0, <1>2
  <2> HIDE DEF k
  <2>3. r[g].open
    BY <1>1 DEF OpenNodes
  <2>4. s[k].open
    BY <2>1, <2>3 DEF SameToken
  <2> QED BY <1>3, <2>2, <2>4 DEF OpenNodes, k
<1>5. \A j \in OpenNodes(s) : j <= m - 1 + g
  <2> SUFFICES ASSUME NEW j \in OpenNodes(s), ~ (j <= m - 1 + g)
               PROVE  FALSE
    OBVIOUS
  <2> DEFINE i == j - (m - 1)
  <2>1. j \in 1 .. m - 1 + n /\ s[j].open
    BY <1>3 DEF OpenNodes
  <2>2. i \in 2 .. n /\ m - 1 + i = j /\ i > g
    BY <1>0, <1>2, <2>1
  <2> HIDE DEF i
  <2>3. SameToken(s[j], r[i], by)
    BY <2>2 DEF Continues
  <2>4. r[i].open
    BY <2>1, <2>3 DEF SameToken
  <2>5. i \in OpenNodes(r)
    BY <1>0, <1>3, <2>2, <2>4 DEF OpenNodes
  <2> QED BY <1>0, <1>1, <1>2, <2>2, <2>5
<1>6. OpenNodes(s) \in SUBSET Nat
  BY DEF OpenNodes
<1> HIDE DEF m
<1> QED BY <1>4, <1>5, <1>6, LargestIs DEF Innermost

\* What is compared of a token that is pushed, and of those before it.
LEMMA PushedToken ==
  ASSUME NEW s \in Seq(Nodes), NEW a \in Nodes, NEW groups \in Stack,
         Innermost(s) \in 1 .. Len(s), s[Innermost(s)].depth = Len(groups)
  PROVE  LET v == Push(s, a)
             n == Len(s)
         IN  /\ v \in Seq(Nodes) /\ Len(v) = n + 1
             /\ \A i \in 1 .. n : SameToken(v[i], s[i], 0)
             /\ v[n + 1].kind = a.kind /\ v[n + 1].spelling = a.spelling
             /\ v[n + 1].from = a.from /\ v[n + 1].to = a.to /\ v[n + 1].open = a.open
             /\ v[n + 1].depth = Len(groups) + 1
<1> DEFINE v == Push(s, a)
           n == Len(s)
<1>1. /\ v \in Seq(Nodes)
      /\ Len(v) = n + 1
      /\ \A i \in 1 .. n : /\ v[i].kind = s[i].kind
                           /\ v[i].spelling = s[i].spelling
                           /\ v[i].from = s[i].from
                           /\ v[i].to = s[i].to
                           /\ v[i].depth = s[i].depth
                           /\ v[i].open = s[i].open
      /\ v[n + 1].kind = a.kind /\ v[n + 1].spelling = a.spelling
      /\ v[n + 1].from = a.from /\ v[n + 1].to = a.to
      /\ v[n + 1].open = a.open
      /\ v[n + 1].depth = s[Innermost(s)].depth + 1
  BY PushFacts
<1> HIDE DEF v
<1>2. ASSUME NEW i \in 1 .. n
      PROVE  SameToken(v[i], s[i], 0)
  <2>1. s[i] \in Nodes
    OBVIOUS
  <2>2. s[i].from \in Nat /\ s[i].to \in Nat
    BY <2>1, NodeFields
  <2> QED BY <1>1, <2>2 DEF SameToken
<1> QED BY <1>1, <1>2 DEF v

\* Node g is complete in v, and the others are as they were in s.
Completes(s, v, g, to) ==
  /\ g \in 2 .. Len(s) /\ v \in Seq(Nodes) /\ Len(v) = Len(s)
  /\ \A i \in 1 .. Len(s) : i # g => v[i] = s[i]
  /\ v[g].kind = s[g].kind /\ v[g].spelling = s[g].spelling /\ v[g].from = s[g].from
  /\ v[g].depth = s[g].depth /\ v[g].to = to /\ v[g].open = FALSE

\* The node that is completed is the innermost one.
LEMMA CompletedNode ==
  ASSUME NEW s \in Seq(Nodes), NEW groups \in Stack, NEW offset \in Nat, NEW to \in Nat,
         Len(groups) > 0, Spine(s, groups, offset)
  PROVE  Completes(s, CompleteLastGroup(s, groups[Len(groups)].kind, to), Innermost(s), to)
<1> DEFINE h == Len(groups)
           n == Len(s)
           kind == groups[h].kind
           g == Innermost(s)
           v == CompleteLastGroup(s, kind, to)
<1>0. n \in Nat /\ h \in Nat /\ h > 0
  BY DEF Stack
<1>1. /\ g \in OpenNodes(s) /\ g \in 1 .. n /\ s[g].depth = h /\ s[g] \in Nodes
      /\ \A j \in OpenNodes(s) : j <= g
  BY InnermostIs
<1> HIDE DEF g
<1>2. g # 1 /\ s[g].kind = "group" /\ g \in OpenGroups(s)
  BY <1>0, <1>1 DEF Spine, OpenGroups
<1>3. groups[h] = [kind |-> s[g].spelling, opening_start |-> s[g].from]
  BY <1>1, <1>2 DEF Spine
<1>4. g \in Completable(s, kind)
  BY <1>1, <1>2, <1>3 DEF Completable
<1>5. LargestOf(Completable(s, kind)) = g
  <2>1. Completable(s, kind) \in SUBSET Nat /\ \A j \in Completable(s, kind) : j <= g
    BY <1>1 DEF Completable, OpenNodes
  <2> QED BY <1>4, <2>1, LargestIs
<1> DEFINE closed == [s[g] EXCEPT !.open = FALSE, !.to = to]
<1>6. v = [s EXCEPT ![g] = closed]
  BY <1>1, <1>5 DEF CompleteLastGroup
<1>7. closed \in Nodes
  BY <1>1, NodeClosed
<1>8. closed.kind = s[g].kind /\ closed.spelling = s[g].spelling /\ closed.from = s[g].from
      /\ closed.depth = s[g].depth /\ closed.to = to /\ closed.open = FALSE
  BY <1>1 DEF Nodes
<1> HIDE DEF v, closed
<1>9. v \in Seq(Nodes) /\ Len(v) = n /\ v[g] = closed
      /\ \A i \in 1 .. n : i # g => v[i] = s[i]
  BY <1>1, <1>6, <1>7
<1>10. g \in 2 .. n
  BY <1>0, <1>1, <1>2
<1>11. Completes(s, v, g, to)
  BY <1>8, <1>9, <1>10 DEF Completes
<1> QED BY <1>11 DEF v, g

\* A token pushed to both.
LEMMA ContinuesPush ==
  ASSUME NEW s \in Seq(Nodes), NEW r \in Seq(Nodes), NEW base \in Seq(Nodes), NEW by \in Nat,
         Continues(s, r, base, by), NEW groups \in Stack, NEW stack \in Stack,
         Len(groups) = Len(stack), NEW offset \in Nat, NEW later \in Nat,
         Spine(s, groups, offset), Spine(r, stack, later),
         NEW a \in Nodes, NEW b \in Nodes, SameToken(a, b, by)
  PROVE  Continues(Push(s, a), Push(r, b), base, by)
<1> DEFINE m == Len(base)
           n == Len(r)
           v == Push(s, a)
           w == Push(r, b)
<1>0. m \in Nat /\ n \in Nat /\ m > 0 /\ n > 0 /\ Len(s) = m - 1 + n
  BY DEF Continues
<1>1. /\ Innermost(s) \in 1 .. Len(s) /\ s[Innermost(s)].depth = Len(groups)
      /\ Innermost(r) \in 1 .. Len(r) /\ r[Innermost(r)].depth = Len(stack)
  BY InnermostIs
<1>2. /\ v \in Seq(Nodes) /\ Len(v) = Len(s) + 1
      /\ \A i \in 1 .. Len(s) : SameToken(v[i], s[i], 0)
      /\ v[Len(s) + 1].kind = a.kind /\ v[Len(s) + 1].spelling = a.spelling
      /\ v[Len(s) + 1].from = a.from /\ v[Len(s) + 1].to = a.to /\ v[Len(s) + 1].open = a.open
      /\ v[Len(s) + 1].depth = Len(groups) + 1
  BY <1>1, PushedToken
<1>3. /\ w \in Seq(Nodes) /\ Len(w) = n + 1
      /\ \A i \in 1 .. n : SameToken(w[i], r[i], 0)
      /\ w[n + 1].kind = b.kind /\ w[n + 1].spelling = b.spelling
      /\ w[n + 1].from = b.from /\ w[n + 1].to = b.to /\ w[n + 1].open = b.open
      /\ w[n + 1].depth = Len(stack) + 1
  BY <1>1, PushedToken
<1> HIDE DEF v, w
<1>4. ASSUME NEW i \in 2 .. m
      PROVE  SameToken(v[i], base[i], 0) /\ ~ base[i].open
  <2>1. i \in 1 .. Len(s)
    BY <1>0
  <2>2. SameToken(s[i], base[i], 0) /\ ~ base[i].open
    BY DEF Continues
  <2>3. SameToken(v[i], s[i], 0)
    BY <1>2, <2>1
  <2>4. s[i] \in Nodes /\ base[i] \in Nodes
    BY <1>0, <2>1
  <2>5. base[i].from \in Nat /\ base[i].to \in Nat
    BY <2>4, NodeFields
  <2> HIDE DEF m
  <2> QED BY <2>2, <2>3, <2>5 DEF SameToken
<1>5. ASSUME NEW i \in 2 .. n + 1
      PROVE  SameToken(v[m - 1 + i], w[i], by)
  <2> DEFINE k == m - 1 + i
  <2>1. CASE i \in 2 .. n
    <3>1. k \in 1 .. Len(s) /\ i \in 1 .. n
      BY <1>0, <2>1
    <3>2. SameToken(s[k], r[i], by)
      BY <2>1 DEF Continues
    <3>3. SameToken(v[k], s[k], 0) /\ SameToken(w[i], r[i], 0)
      BY <1>2, <1>3, <3>1
    <3>4. r[i] \in Nodes
      BY <3>1
    <3>5. r[i].from \in Nat /\ r[i].to \in Nat
      BY <3>4, NodeFields
    <3> HIDE DEF k
    <3>6. SameToken(v[k], w[i], by)
      BY <3>2, <3>3, <3>5 DEF SameToken
    <3> QED BY <3>6 DEF k
  <2>2. CASE i = n + 1
    <3>1. k = Len(s) + 1
      BY <1>0, <2>2
    <3> HIDE DEF k
    <3>2. SameToken(v[k], w[i], by)
      BY <1>2, <1>3, <2>2, <3>1 DEF SameToken
    <3> QED BY <3>2 DEF k
  <2> QED BY <1>0, <2>1, <2>2
<1>6. Len(v) = m - 1 + Len(w) /\ Len(w) = n + 1 /\ Len(w) > 0
  BY <1>0, <1>2, <1>3
<1>7. Continues(v, w, base, by)
  BY <1>0, <1>4, <1>5, <1>6 DEF Continues
<1> QED BY <1>7 DEF v, w

\* A group completed in both.
LEMMA ContinuesComplete ==
  ASSUME NEW s \in Seq(Nodes), NEW r \in Seq(Nodes), NEW base \in Seq(Nodes), NEW by \in Nat,
         Continues(s, r, base, by), NEW groups \in Stack, NEW stack \in Stack,
         Len(groups) = Len(stack), Len(stack) > 0, NEW offset \in Nat, NEW later \in Nat,
         Spine(s, groups, offset), Spine(r, stack, later), NEW to \in Nat
  PROVE  Continues(CompleteLastGroup(s, groups[Len(groups)].kind, by + to),
                   CompleteLastGroup(r, stack[Len(stack)].kind, to), base, by)
<1> DEFINE m == Len(base)
           n == Len(r)
           g == Innermost(r)
           k == m - 1 + g
           v == CompleteLastGroup(s, groups[Len(groups)].kind, by + to)
           w == CompleteLastGroup(r, stack[Len(stack)].kind, to)
<1>0. m \in Nat /\ n \in Nat /\ m > 0 /\ n > 0 /\ Len(s) = m - 1 + n /\ by + to \in Nat
  BY DEF Continues
<1>1. /\ g \in 2 .. n /\ w \in Seq(Nodes) /\ Len(w) = n
      /\ \A i \in 1 .. n : i # g => w[i] = r[i]
      /\ w[g].kind = r[g].kind /\ w[g].spelling = r[g].spelling /\ w[g].from = r[g].from
      /\ w[g].depth = r[g].depth /\ w[g].to = to /\ w[g].open = FALSE
  <2>1. Completes(r, w, g, to)
    BY CompletedNode
  <2> HIDE DEF w, g
  <2> QED BY <2>1 DEF Completes
<1>2. Innermost(s) = k
  <2>1. g # 1
    BY <1>1
  <2> QED BY <2>1, ContinuesInnermost
<1>3. /\ v \in Seq(Nodes) /\ Len(v) = Len(s)
      /\ \A i \in 1 .. Len(s) : i # k => v[i] = s[i]
      /\ v[k].kind = s[k].kind /\ v[k].spelling = s[k].spelling /\ v[k].from = s[k].from
      /\ v[k].depth = s[k].depth /\ v[k].to = by + to /\ v[k].open = FALSE
  <2>1. Len(groups) > 0
    OBVIOUS
  <2>2. Completes(s, v, Innermost(s), by + to)
    BY <1>0, <2>1, CompletedNode
  <2> HIDE DEF v, k
  <2> QED BY <1>2, <2>2 DEF Completes
<1> HIDE DEF v, w, g
<1>4. k \in m + 1 .. m - 1 + n
  BY <1>0, <1>1
<1>5. ASSUME NEW i \in 2 .. m
      PROVE  SameToken(v[i], base[i], 0) /\ ~ base[i].open
  <2>1. i \in 1 .. Len(s) /\ i # k
    BY <1>0, <1>4
  <2>2. SameToken(s[i], base[i], 0) /\ ~ base[i].open
    BY DEF Continues
  <2> QED BY <1>3, <2>1, <2>2
<1>6. ASSUME NEW i \in 2 .. n
      PROVE  SameToken(v[m - 1 + i], w[i], by)
  <2> DEFINE j == m - 1 + i
  <2>1. SameToken(s[j], r[i], by)
    BY DEF Continues
  <2>2. j \in 1 .. Len(s) /\ (i # g => j # k)
    BY <1>0, <1>1
  <2>3. CASE i = g
    <3>1. j = k
      BY <2>3
    <3> HIDE DEF j, k
    <3>2. SameToken(v[j], w[i], by)
      BY <1>1, <1>3, <2>1, <2>3, <3>1 DEF SameToken
    <3> QED BY <3>2 DEF j
  <2>4. CASE i # g
    <3>1. i \in 1 .. n
      BY <1>0
    <3> HIDE DEF j, k
    <3>2. v[j] = s[j] /\ w[i] = r[i]
      BY <1>1, <1>3, <2>2, <2>4, <3>1
    <3>3. SameToken(v[j], w[i], by)
      BY <2>1, <3>2
    <3> QED BY <3>3 DEF j
  <2> QED BY <2>3, <2>4
<1>7. Continues(v, w, base, by)
  BY <1>0, <1>1, <1>3, <1>5, <1>6 DEF Continues
<1> QED BY <1>7 DEF v, w

\* x, in the whole text, is where y is in its ending, base being what was read
\* of the part in front.
Follows(x, y, base, by) ==
  /\ x.offset = by + y.offset /\ x.quote_next = y.quote_next
  /\ x.done = y.done /\ x.error = y.error
  /\ Len(x.groups) = Len(y.groups)
  /\ \A k \in 1 .. Len(y.groups) : x.groups[k].kind = y.groups[k].kind
  /\ Continues(x.stream, y.stream, base, by)

Together(t, u, by, base, x, y) ==
  /\ Ending(t, u, by) /\ base \in Seq(Nodes)
  /\ Sound(t, x) /\ Running(x) /\ Sound(u, y) /\ Running(y)
  /\ Follows(x, y, base, by)

LEMMA TogetherFacts ==
  ASSUME NEW t, NEW u, NEW by, NEW base, NEW x, NEW y, Together(t, u, by, base, x, y)
  PROVE  /\ t \in Text /\ u \in Text /\ by \in Nat /\ base \in Seq(Nodes)
         /\ x \in Lexers /\ y \in Lexers
         /\ x.offset \in Nat /\ x.groups \in Stack /\ x.stream \in Seq(Nodes)
         /\ x.quote_next \in BOOLEAN /\ y.quote_next \in BOOLEAN
         /\ y.offset \in Nat /\ y.groups \in Stack /\ y.stream \in Seq(Nodes)
         /\ y.offset <= Len(u) /\ x.offset <= Len(t) /\ Len(u) \in Nat /\ Len(t) = by + Len(u)
         /\ Spine(x.stream, x.groups, x.offset) /\ Spine(y.stream, y.groups, y.offset)
         /\ x.done = FALSE /\ y.done = FALSE /\ x.error = "none" /\ y.error = "none"
<1>1. /\ t \in Text /\ u \in Text /\ by \in Nat /\ base \in Seq(Nodes)
      /\ Len(u) \in Nat /\ Len(t) = by + Len(u)
  BY DEF Together, Ending, Text
<1>2. /\ x \in Lexers /\ x.offset <= Len(t) /\ x.done = FALSE /\ x.error = "none"
      /\ Spine(x.stream, x.groups, x.offset)
  BY SoundRunning DEF Together
<1>3. /\ y \in Lexers /\ y.offset <= Len(u) /\ y.done = FALSE /\ y.error = "none"
      /\ Spine(y.stream, y.groups, y.offset)
  BY SoundRunning DEF Together
<1>4. /\ x.offset \in Nat /\ x.groups \in Stack /\ x.stream \in Seq(Nodes) /\ x.quote_next \in BOOLEAN
  BY <1>2, LexerFields
<1>5. /\ y.offset \in Nat /\ y.groups \in Stack /\ y.stream \in Seq(Nodes) /\ y.quote_next \in BOOLEAN
  BY <1>3, LexerFields
<1> QED BY <1>1, <1>2, <1>3, <1>4, <1>5

\* A token read in both.
LEMMA EmitFollows ==
  ASSUME NEW t, NEW u, NEW by, NEW base, NEW x, NEW y, Together(t, u, by, base, x, y),
         NEW kind \in {"ident", "punct", "literal", "group"}, NEW spelling \in Spellings,
         NEW to \in Nat
  PROVE  Continues(Emit(x, kind, spelling, by + to).stream, Emit(y, kind, spelling, to).stream,
                   base, by)
<1> DEFINE a == Node(kind, spelling, x.offset, by + to)
           b == Node(kind, spelling, y.offset, to)
<1>1. /\ by \in Nat /\ base \in Seq(Nodes) /\ x \in Lexers /\ y \in Lexers
      /\ x.offset \in Nat /\ x.groups \in Stack /\ x.stream \in Seq(Nodes)
      /\ y.offset \in Nat /\ y.groups \in Stack /\ y.stream \in Seq(Nodes)
      /\ Spine(x.stream, x.groups, x.offset) /\ Spine(y.stream, y.groups, y.offset)
  BY TogetherFacts
<1>2. /\ x.offset = by + y.offset /\ Len(x.groups) = Len(y.groups)
      /\ Continues(x.stream, y.stream, base, by)
  BY DEF Together, Follows
<1>3. a \in Nodes /\ b \in Nodes
  <2>1. <<>> \in Seq(Spans) /\ by + to \in Nat
    BY <1>1
  <2> QED BY <1>1, <2>1 DEF Node, Nodes
<1>4. SameToken(a, b, by)
  BY <1>2 DEF Node, SameToken
<1> HIDE DEF a, b
<1>5. Continues(Push(x.stream, a), Push(y.stream, b), base, by)
  BY <1>1, <1>2, <1>3, <1>4, ContinuesPush
<1>6. Emit(x, kind, spelling, by + to).stream = Push(x.stream, a)
      /\ Emit(y, kind, spelling, to).stream = Push(y.stream, b)
  BY <1>1 DEF Emit, Lexers, a, b
<1> QED BY <1>5, <1>6

\* The other locals, after a token.
LEMMA EmitFields ==
  ASSUME NEW x \in Lexers, NEW kind, NEW spelling, NEW to
  PROVE  Emit(x, kind, spelling, to) =
           [offset |-> to, groups |-> x.groups, stream |-> Emit(x, kind, spelling, to).stream,
            quote_next |-> x.quote_next, diagnostics |-> x.diagnostics,
            done |-> x.done, error |-> x.error]
<1> DEFINE s == Push(x.stream, Node(kind, spelling, x.offset, to))
<1>1. Emit(x, kind, spelling, to) = [x EXCEPT !.offset = to, !.stream = s]
  BY DEF Emit, Lexers
<1> HIDE DEF s
<1> QED BY <1>1 DEF Lexers

\* A token, and what it leaves of the pending quote.
LEMMA TokenFollows ==
  ASSUME NEW t, NEW u, NEW by, NEW base, NEW x, NEW y, Together(t, u, by, base, x, y),
         NEW kind \in {"ident", "punct", "literal"}, NEW spelling \in Spellings,
         NEW far, NEW to \in Nat, far = by + to, NEW quote, NEW d, NEW e
  PROVE  LET p == [Emit(x, kind, spelling, far) EXCEPT !.quote_next = quote]
             q == [Emit(y, kind, spelling, to) EXCEPT !.quote_next = quote]
         IN  /\ Follows(p, q, base, by)
             /\ Follows([p EXCEPT !.diagnostics = d], [q EXCEPT !.diagnostics = e], base, by)
<1> DEFINE v == Emit(x, kind, spelling, far)
           w == Emit(y, kind, spelling, to)
           p == [v EXCEPT !.quote_next = quote]
           q == [w EXCEPT !.quote_next = quote]
           c == [p EXCEPT !.diagnostics = d]
           f == [q EXCEPT !.diagnostics = e]
<1>1. x \in Lexers /\ y \in Lexers
  BY TogetherFacts
<1>2. Continues(v.stream, w.stream, base, by)
  BY EmitFollows
<1>3. /\ v = [offset |-> far, groups |-> x.groups, stream |-> v.stream,
              quote_next |-> x.quote_next, diagnostics |-> x.diagnostics,
              done |-> x.done, error |-> x.error]
      /\ w = [offset |-> to, groups |-> y.groups, stream |-> w.stream,
              quote_next |-> y.quote_next, diagnostics |-> y.diagnostics,
              done |-> y.done, error |-> y.error]
  BY <1>1, EmitFields
<1> HIDE DEF v, w
<1>4. /\ p.offset = far /\ p.groups = x.groups /\ p.stream = v.stream /\ p.quote_next = quote
      /\ p.done = x.done /\ p.error = x.error
      /\ q.offset = to /\ q.groups = y.groups /\ q.stream = w.stream /\ q.quote_next = quote
      /\ q.done = y.done /\ q.error = y.error
  BY <1>3
<1>5. /\ c.offset = far /\ c.groups = x.groups /\ c.stream = v.stream /\ c.quote_next = quote
      /\ c.done = x.done /\ c.error = x.error
      /\ f.offset = to /\ f.groups = y.groups /\ f.stream = w.stream /\ f.quote_next = quote
      /\ f.done = y.done /\ f.error = y.error
  BY <1>3
<1> HIDE DEF p, q, c, f
<1>6. Follows(p, q, base, by)
  BY <1>2, <1>4 DEF Together, Follows
<1>7. Follows(c, f, base, by)
  BY <1>2, <1>5 DEF Together, Follows
<1> QED BY <1>6, <1>7 DEF p, q, c, f, v, w

\* A comment, or layout: the outline stays.
LEMMA OutlineFollows ==
  ASSUME NEW t, NEW u, NEW by, NEW base, NEW x, NEW y, Together(t, u, by, base, x, y),
         NEW v \in Seq(Nodes), SameOutline(x.stream, v),
         NEW w \in Seq(Nodes), SameOutline(y.stream, w), NEW far, NEW to, far = by + to
  PROVE  Follows([x EXCEPT !.offset = far, !.stream = v], [y EXCEPT !.offset = to, !.stream = w],
                 base, by)
<1> DEFINE p == [x EXCEPT !.offset = far, !.stream = v]
           q == [y EXCEPT !.offset = to, !.stream = w]
<1>1. /\ x \in Lexers /\ y \in Lexers /\ by \in Nat /\ base \in Seq(Nodes)
      /\ x.stream \in Seq(Nodes) /\ y.stream \in Seq(Nodes)
  BY TogetherFacts
<1>2. Continues(x.stream, y.stream, base, by)
  BY DEF Together, Follows
<1>3. Continues(v, w, base, by)
  BY <1>1, <1>2, ContinuesOutline
<1>4. /\ p.offset = far /\ p.groups = x.groups /\ p.stream = v /\ p.quote_next = x.quote_next
      /\ p.done = x.done /\ p.error = x.error
      /\ q.offset = to /\ q.groups = y.groups /\ q.stream = w /\ q.quote_next = y.quote_next
      /\ q.done = y.done /\ q.error = y.error
  BY <1>1 DEF Lexers
<1> HIDE DEF p, q
<1>5. Follows(p, q, base, by)
  BY <1>3, <1>4 DEF Together, Follows
<1> QED BY <1>5 DEF p, q

LEMMA LayoutFollows ==
  ASSUME NEW t, NEW u, NEW by, NEW base, NEW x, NEW y, Together(t, u, by, base, x, y),
         NEW far, NEW to, far = by + to
  PROVE  Follows([x EXCEPT !.offset = far], [y EXCEPT !.offset = to], base, by)
<1>1. x \in Lexers /\ y \in Lexers /\ x.stream \in Seq(Nodes) /\ y.stream \in Seq(Nodes)
  BY TogetherFacts
<1>2. SameOutline(x.stream, x.stream) /\ SameOutline(y.stream, y.stream)
  BY DEF SameOutline
<1>3. Follows([x EXCEPT !.offset = far, !.stream = x.stream],
              [y EXCEPT !.offset = to, !.stream = y.stream], base, by)
  BY <1>1, <1>2, OutlineFollows
<1>4. [x EXCEPT !.offset = far, !.stream = x.stream] = [x EXCEPT !.offset = far]
      /\ [y EXCEPT !.offset = to, !.stream = y.stream] = [y EXCEPT !.offset = to]
  BY <1>1 DEF Lexers
<1> QED BY <1>3, <1>4

\* A fatal error ends both.
LEMMA FatalFollows ==
  ASSUME NEW t, NEW u, NEW by, NEW base, NEW x, NEW y, Together(t, u, by, base, x, y),
         NEW far, NEW to, far = by + to, NEW error
  PROVE  /\ Follows([x EXCEPT !.offset = far, !.error = error],
                    [y EXCEPT !.offset = to, !.error = error], base, by)
         /\ Follows([x EXCEPT !.error = error, !.offset = far],
                    [y EXCEPT !.error = error, !.offset = to], base, by)
         /\ Follows([x EXCEPT !.error = error], [y EXCEPT !.error = error], base, by)
<1>1. x \in Lexers /\ y \in Lexers
  BY TogetherFacts
<1>2. Follows(x, y, base, by)
  BY DEF Together
<1> DEFINE p == [x EXCEPT !.offset = far, !.error = error]
           q == [y EXCEPT !.offset = to, !.error = error]
           c == [x EXCEPT !.error = error]
           d == [y EXCEPT !.error = error]
<1>3. /\ p.offset = far /\ p.groups = x.groups /\ p.stream = x.stream
      /\ p.quote_next = x.quote_next /\ p.done = x.done /\ p.error = error
      /\ q.offset = to /\ q.groups = y.groups /\ q.stream = y.stream
      /\ q.quote_next = y.quote_next /\ q.done = y.done /\ q.error = error
      /\ [x EXCEPT !.error = error, !.offset = far] = p
      /\ [y EXCEPT !.error = error, !.offset = to] = q
  BY <1>1 DEF Lexers
<1>4. /\ c.offset = x.offset /\ c.groups = x.groups /\ c.stream = x.stream
      /\ c.quote_next = x.quote_next /\ c.done = x.done /\ c.error = error
      /\ d.offset = y.offset /\ d.groups = y.groups /\ d.stream = y.stream
      /\ d.quote_next = y.quote_next /\ d.done = y.done /\ d.error = error
  BY <1>1 DEF Lexers
<1> HIDE DEF p, q, c, d
<1>5. Follows(p, q, base, by)
  BY <1>2, <1>3 DEF Follows
<1>6. Follows(c, d, base, by)
  BY <1>2, <1>4 DEF Follows
<1> QED BY <1>3, <1>5, <1>6 DEF p, q, c, d

\* Whether a word quotes what follows it.
LEMMA EmitQuotes ==
  ASSUME NEW t, NEW x, Sound(t, x), Running(x), NEW spelling \in Spellings,
         NEW to \in Nat, x.offset < to
  PROVE  QuotesNext(Emit(x, "ident", spelling, to).stream) = (spelling \in QuoteSpecifiers)
<1> DEFINE node == Node("ident", spelling, x.offset, to)
<1>1. x \in Lexers /\ Spine(x.stream, x.groups, x.offset)
  BY SoundRunning
<1>2. x.offset \in Nat /\ x.groups \in Stack /\ x.stream \in Seq(Nodes)
  BY <1>1, LexerFields
<1>3. node \in Nodes /\ node.kind = "ident" /\ node.spelling = spelling /\ node.from = x.offset
  <2>1. <<>> \in Seq(Spans)
    OBVIOUS
  <2> QED BY <1>2, <2>1 DEF Node, Nodes
<1>4. ~ node.open
  <2>1. node.open = ("ident" \in {"root", "group"})
    BY DEF Node
  <2> QED BY <2>1
<1>5. Emit(x, "ident", spelling, to).stream = Push(x.stream, node)
  BY <1>1 DEF Emit, Lexers
<1> HIDE DEF node
<1>6. QuotesNext(Push(x.stream, node)) = Specifier(node)
  BY <1>1, <1>2, <1>3, <1>4, PushQuotes
<1> QED BY <1>3, <1>5, <1>6 DEF Specifier

LEMMA IdentifierFollows ==
  ASSUME NEW t, NEW u, NEW by, NEW base, NEW x, NEW y, Together(t, u, by, base, x, y),
         Branch(u, y) = "identifier"
  PROVE  Follows(AfterIdentifier(t, x), AfterIdentifier(u, y), base, by)
<1> DEFINE far == WordEnd(t, x.offset)
           to == WordEnd(u, y.offset)
           spelling == IdentSpelling(u, y.offset, to)
           quote == ~ y.quote_next /\ spelling \in QuoteSpecifiers
<1>1. /\ t \in Text /\ u \in Text /\ by \in Nat /\ x.offset \in Nat /\ y.offset \in Nat
      /\ y.offset <= Len(u) /\ y.quote_next \in BOOLEAN /\ Len(u) \in Nat
  BY TogetherFacts
<1>2. /\ Ending(t, u, by) /\ Sound(t, x) /\ Running(x) /\ Sound(u, y) /\ Running(y)
      /\ x.offset = by + y.offset /\ x.quote_next = y.quote_next
  BY DEF Together, Follows
<1>3. y.offset < Len(u) /\ u[y.offset + 1] \in Words
  <2>1. Peek(u, y.offset, 0) \in Words
    BY <1>1, BranchFacts
  <2>2. Peek(u, y.offset, 0) # "EOF"
    BY <2>1 DEF Words, Keywords, QuoteSpecifiers
  <2> QED BY <1>1, <2>1, <2>2, PeekFacts
<1>4. to \in Nat /\ y.offset < to /\ to <= Len(u)
  BY <1>1, <1>3, WordEndFacts
<1>5. far = by + to
  BY <1>1, <1>2, EndsMove
<1> HIDE DEF to, far
<1>6. IdentSpelling(t, x.offset, far) = spelling
  BY <1>1, <1>2, <1>4, <1>5, SymbolsMove
<1>7. spelling \in Spellings
  BY DEF IdentSpelling, Spellings
<1> HIDE DEF spelling
<1>8. x.offset < far /\ far \in Nat
  BY <1>1, <1>2, <1>4, <1>5
<1>9. /\ QuotesNext(Emit(x, "ident", spelling, far).stream) = (spelling \in QuoteSpecifiers)
      /\ QuotesNext(Emit(y, "ident", spelling, to).stream) = (spelling \in QuoteSpecifiers)
  BY <1>2, <1>4, <1>7, <1>8, EmitQuotes
<1>10. AfterIdentifier(t, x) = [Emit(x, "ident", spelling, far) EXCEPT !.quote_next = quote]
  BY <1>2, <1>6, <1>9 DEF AfterIdentifier, far
<1>11. AfterIdentifier(u, y) = [Emit(y, "ident", spelling, to) EXCEPT !.quote_next = quote]
  BY <1>9 DEF AfterIdentifier, spelling, to
<1> HIDE DEF quote
<1>12. Follows([Emit(x, "ident", spelling, far) EXCEPT !.quote_next = quote],
               [Emit(y, "ident", spelling, to) EXCEPT !.quote_next = quote], base, by)
  BY <1>4, <1>5, <1>7, TokenFollows
<1> QED BY <1>10, <1>11, <1>12

LEMMA PunctuationFollows ==
  ASSUME NEW t, NEW u, NEW by, NEW base, NEW x, NEW y, Together(t, u, by, base, x, y),
         Branch(u, y) \in {"punctuation", "quoted_bracket"}
  PROVE  Follows(AfterPunctuation(t, x), AfterPunctuation(u, y), base, by)
<1> DEFINE first == Peek(u, y.offset, 0)
           to == PunctuationEnd(u, y.offset)
           far == PunctuationEnd(t, x.offset)
<1>1. /\ u \in Text /\ by \in Nat /\ x.offset \in Nat /\ y.offset \in Nat
      /\ y.offset <= Len(u) /\ y.quote_next \in BOOLEAN
  BY TogetherFacts
<1>2. Ending(t, u, by) /\ x.offset = by + y.offset
  BY DEF Together, Follows
<1>3. Peek(t, x.offset, 0) = first
  BY <1>1, <1>2, SymbolsMove
<1>4. first \in Spellings /\ first \notin {"EOF", "SP"}
  <2>1. first \in Operators \cup Openers \cup Closers \cup {"/"}
    BY <1>1, BranchFacts
  <2> QED BY <2>1 DEF Operators, Openers, Closers, Spellings
<1>5. to \in Nat
  BY <1>1, <1>4, PunctuationEndFacts
<1>6. far = by + to
  BY <1>1, <1>2, PunctuationMoves
<1>7. AfterPunctuation(t, x) = [Emit(x, "punct", first, far) EXCEPT !.quote_next = FALSE]
  BY <1>3 DEF AfterPunctuation
<1>8. AfterPunctuation(u, y) = [Emit(y, "punct", first, to) EXCEPT !.quote_next = FALSE]
  BY DEF AfterPunctuation
<1> HIDE DEF first, to, far
<1>9. Follows([Emit(x, "punct", first, far) EXCEPT !.quote_next = FALSE],
              [Emit(y, "punct", first, to) EXCEPT !.quote_next = FALSE], base, by)
  BY <1>4, <1>5, <1>6, TokenFollows
<1> QED BY <1>7, <1>8, <1>9

LEMMA LiteralFollows ==
  ASSUME NEW t, NEW u, NEW by, NEW base, NEW x, NEW y, Together(t, u, by, base, x, y),
         NEW s, NEW r \in Scan, Further(s, r, by), NEW diagnosis
  PROVE  Follows(AfterLiteral(x, s, diagnosis), AfterLiteral(y, r, diagnosis), base, by)
<1> DEFINE to == r.to
           far == s.to
           p == [Emit(x, "literal", "", far) EXCEPT !.quote_next = FALSE]
           q == [Emit(y, "literal", "", to) EXCEPT !.quote_next = FALSE]
           d == Append(p.diagnostics, Diagnostic(diagnosis, x.offset, far))
           e == Append(q.diagnostics, Diagnostic(diagnosis, y.offset, to))
<1>1. to \in Nat /\ far = by + to /\ s.status = r.status
      /\ r.status \in {"closed", "unterminated", "bad_escape"}
  BY DEF Scan, Further
<1>2. "" \in Spellings
  BY DEF Spellings
<1>3. Follows(p, q, base, by)
      /\ Follows([p EXCEPT !.diagnostics = d], [q EXCEPT !.diagnostics = e], base, by)
  <2> HIDE DEF d, e, to, far
  <2> QED BY <1>1, <1>2, TokenFollows
<1>4. CASE r.status = "closed"
  BY <1>1, <1>3, <1>4 DEF AfterLiteral
<1>5. CASE r.status = "unterminated"
  <2>1. AfterLiteral(x, s, diagnosis) = [p EXCEPT !.diagnostics = d]
    BY <1>1, <1>5 DEF AfterLiteral
  <2>2. AfterLiteral(y, r, diagnosis) = [q EXCEPT !.diagnostics = e]
    BY <1>1, <1>5 DEF AfterLiteral
  <2> QED BY <1>3, <2>1, <2>2
<1>6. CASE r.status = "bad_escape"
  <2>1. AfterLiteral(x, s, diagnosis) = [x EXCEPT !.error = "InvalidEscape", !.offset = far]
    BY <1>1, <1>6 DEF AfterLiteral
  <2>2. AfterLiteral(y, r, diagnosis) = [y EXCEPT !.error = "InvalidEscape", !.offset = to]
    BY <1>1, <1>6 DEF AfterLiteral
  <2> HIDE DEF far, to
  <2>3. Follows([x EXCEPT !.error = "InvalidEscape", !.offset = far],
                [y EXCEPT !.error = "InvalidEscape", !.offset = to], base, by)
    BY <1>1, FatalFollows
  <2> QED BY <2>1, <2>2, <2>3
<1> QED BY <1>1, <1>4, <1>5, <1>6

LEMMA StringsFollow ==
  ASSUME NEW t, NEW u, NEW by, NEW base, NEW x, NEW y, Together(t, u, by, base, x, y)
  PROVE  /\ Branch(u, y) = "string" => Follows(AfterString(t, x), AfterString(u, y), base, by)
         /\ Branch(u, y) = "raw_string" =>
              Follows(AfterRawString(t, x), AfterRawString(u, y), base, by)
<1>1. /\ u \in Text /\ by \in Nat /\ y.offset \in Nat
      /\ y.offset <= Len(u) /\ y.quote_next \in BOOLEAN /\ Len(u) \in Nat
  BY TogetherFacts
<1>2. Ending(t, u, by) /\ x.offset = by + y.offset
  BY DEF Together, Follows
<1>3. ASSUME Branch(u, y) = "string"
      PROVE  Follows(AfterString(t, x), AfterString(u, y), base, by)
  <2>1. Peek(u, y.offset, 0) = "QT"
    BY <1>1, <1>3, BranchFacts
  <2>2. y.offset < Len(u)
    BY <1>1, <2>1, PeekFacts
  <2>3. StringScan(u, y.offset) \in Scan
    BY <1>1, <2>2, StringScanFacts
  <2>4. Further(StringScan(t, x.offset), StringScan(u, y.offset), by)
    BY <1>1, <1>2, <2>2, StringMoves
  <2> QED BY <2>3, <2>4, LiteralFollows DEF AfterString
<1>4. ASSUME Branch(u, y) = "raw_string"
      PROVE  Follows(AfterRawString(t, x), AfterRawString(u, y), base, by)
  <2>1. SlashRun(u, y.offset) >= 3
    BY <1>1, <1>4, BranchFacts
  <2>2. SlashRun(u, y.offset) \in 0 .. 4 /\ y.offset + SlashRun(u, y.offset) <= Len(u)
    BY <1>1, SlashRunFacts
  <2>3. y.offset + 3 <= Len(u)
    BY <1>1, <2>1, <2>2
  <2>4. RawStringScan(u, y.offset) \in Scan
    BY <1>1, <2>1, RawStringScanFacts
  <2>5. Further(RawStringScan(t, x.offset), RawStringScan(u, y.offset), by)
    BY <1>1, <1>2, <2>3, RawMoves
  <2> QED BY <2>4, <2>5, LiteralFollows DEF AfterRawString
<1> QED BY <1>3, <1>4

LEMMA CommentsFollow ==
  ASSUME NEW t, NEW u, NEW by, NEW base, NEW x, NEW y, Together(t, u, by, base, x, y)
  PROVE  /\ Branch(u, y) = "line_comment" =>
              Follows(AfterLineComment(t, x), AfterLineComment(u, y), base, by)
         /\ Branch(u, y) = "block_comment" =>
              Follows(AfterBlockComment(t, x), AfterBlockComment(u, y), base, by)
<1>1. /\ t \in Text /\ u \in Text /\ by \in Nat /\ x \in Lexers /\ y \in Lexers
      /\ x.offset \in Nat /\ x.stream \in Seq(Nodes) /\ x.groups \in Stack
      /\ y.offset \in Nat /\ y.stream \in Seq(Nodes) /\ y.groups \in Stack
      /\ y.offset <= Len(u) /\ y.quote_next \in BOOLEAN /\ Len(u) \in Nat /\ Len(t) = by + Len(u)
      /\ Spine(x.stream, x.groups, x.offset) /\ Spine(y.stream, y.groups, y.offset)
  BY TogetherFacts
<1>2. Ending(t, u, by) /\ x.offset = by + y.offset
  BY DEF Together, Follows
<1>3. Innermost(x.stream) \in 1 .. Len(x.stream) /\ Innermost(y.stream) \in 1 .. Len(y.stream)
  BY <1>1, InnermostIs
<1>4. ASSUME Branch(u, y) = "line_comment"
      PROVE  Follows(AfterLineComment(t, x), AfterLineComment(u, y), base, by)
  <2> DEFINE far == LineCommentEnd(t, x.offset)
             to == LineCommentEnd(u, y.offset)
             v == PushLineComment(x.stream, t, x.offset, far)
             w == PushLineComment(y.stream, u, y.offset, to)
  <2>1. far = by + to
    BY <1>1, <1>2, EndsMove
  <2>2. to \in Nat
    BY <1>1, LineCommentEndFacts
  <2>3. far \in Nat
    BY <1>1, <2>1, <2>2
  <2> HIDE DEF far, to
  <2>4. v \in Seq(Nodes) /\ SameOutline(x.stream, v)
    BY <1>1, <1>3, <2>3, LineAttached
  <2>5. w \in Seq(Nodes) /\ SameOutline(y.stream, w)
    BY <1>1, <1>3, <2>2, LineAttached
  <2>6. AfterLineComment(t, x) = [x EXCEPT !.offset = far, !.stream = v]
    BY <1>1 DEF AfterLineComment, Lexers, far
  <2>7. AfterLineComment(u, y) = [y EXCEPT !.offset = to, !.stream = w]
    BY <1>1 DEF AfterLineComment, Lexers, to
  <2> HIDE DEF v, w
  <2>8. Follows([x EXCEPT !.offset = far, !.stream = v], [y EXCEPT !.offset = to, !.stream = w],
                base, by)
    BY <2>1, <2>4, <2>5, OutlineFollows
  <2> QED BY <2>6, <2>7, <2>8
<1>5. ASSUME Branch(u, y) = "block_comment"
      PROVE  Follows(AfterBlockComment(t, x), AfterBlockComment(u, y), base, by)
  <2> DEFINE far == BlockCommentEnd(t, x.offset)
             to == BlockCommentEnd(u, y.offset)
             v == PushBlockComment(x.stream, x.offset, far + 1)
             w == PushBlockComment(y.stream, y.offset, to + 1)
  <2>1. Peek(u, y.offset, 0) # "EOF"
    BY <1>1, <1>5, BranchFacts
  <2>2. y.offset < Len(u)
    BY <1>1, <2>1, PeekFacts
  <2>3. far = by + to
    BY <1>1, <1>2, <2>2, EndsMove
  <2>4. to \in Nat
    BY <1>1, <2>2, BlockCommentEndFacts
  <2>5. to + 1 \in Nat /\ far + 1 \in Nat /\ far + 1 = by + (to + 1) /\ (far = Len(t) <=> to = Len(u))
    BY <1>1, <2>3, <2>4
  <2> HIDE DEF far, to
  <2>6. CASE to = Len(u)
    <3>1. AfterBlockComment(t, x) = [x EXCEPT !.offset = far, !.error = "UnterminatedBlockComment"]
      BY <2>5, <2>6 DEF AfterBlockComment, far
    <3>2. AfterBlockComment(u, y) = [y EXCEPT !.offset = to, !.error = "UnterminatedBlockComment"]
      BY <2>6 DEF AfterBlockComment, to
    <3>3. Follows([x EXCEPT !.offset = far, !.error = "UnterminatedBlockComment"],
                  [y EXCEPT !.offset = to, !.error = "UnterminatedBlockComment"], base, by)
      BY <2>3, FatalFollows
    <3> QED BY <3>1, <3>2, <3>3
  <2>7. CASE to # Len(u)
    <3>1. v \in Seq(Nodes) /\ SameOutline(x.stream, v)
      BY <1>1, <1>3, <2>5, BlockAttached
    <3>2. w \in Seq(Nodes) /\ SameOutline(y.stream, w)
      BY <1>1, <1>3, <2>5, BlockAttached
    <3>3. AfterBlockComment(t, x) = [x EXCEPT !.offset = far + 1, !.stream = v]
      BY <1>1, <2>5, <2>7 DEF AfterBlockComment, Lexers, far
    <3>4. AfterBlockComment(u, y) = [y EXCEPT !.offset = to + 1, !.stream = w]
      BY <1>1, <2>7 DEF AfterBlockComment, Lexers, to
    <3> HIDE DEF v, w
    <3>5. Follows([x EXCEPT !.offset = far + 1, !.stream = v],
                  [y EXCEPT !.offset = to + 1, !.stream = w], base, by)
      BY <2>5, <3>1, <3>2, OutlineFollows
    <3> QED BY <3>3, <3>4, <3>5
  <2> QED BY <2>6, <2>7
<1> QED BY <1>4, <1>5

LEMMA LayoutBranchesFollow ==
  ASSUME NEW t, NEW u, NEW by, NEW base, NEW x, NEW y, Together(t, u, by, base, x, y)
  PROVE  /\ Follows(AfterLineBreak(t, x), AfterLineBreak(u, y), base, by)
         /\ Follows(AfterWhitespace(t, x), AfterWhitespace(u, y), base, by)
         /\ Follows(AfterInvalid(t, x), AfterInvalid(u, y), base, by)
<1>1. /\ by \in Nat /\ x \in Lexers /\ y \in Lexers
      /\ x.offset \in Nat /\ y.offset \in Nat /\ y.offset <= Len(u)
  BY TogetherFacts
<1>2. Ending(t, u, by) /\ x.offset = by + y.offset
  BY DEF Together, Follows
<1> DEFINE far == x.offset + 1
           to == y.offset + 1
           last == LayoutEnd(t, x.offset)
           end == LayoutEnd(u, y.offset)
<1>3. far = by + to /\ last = by + end
  BY <1>1, <1>2, EndsMove
<1>4. /\ AfterLineBreak(t, x) = [x EXCEPT !.offset = far]
      /\ AfterLineBreak(u, y) = [y EXCEPT !.offset = to]
      /\ AfterWhitespace(t, x) = [x EXCEPT !.offset = last]
      /\ AfterWhitespace(u, y) = [y EXCEPT !.offset = end]
      /\ AfterInvalid(t, x) = [x EXCEPT !.offset = far, !.error = "InvalidCharacter"]
      /\ AfterInvalid(u, y) = [y EXCEPT !.offset = to, !.error = "InvalidCharacter"]
  BY <1>1 DEF AfterLineBreak, AfterWhitespace, AfterInvalid, Lexers
<1> HIDE DEF far, to, last, end
<1>5. Follows([x EXCEPT !.offset = far], [y EXCEPT !.offset = to], base, by)
  BY <1>3, LayoutFollows
<1>6. Follows([x EXCEPT !.offset = last], [y EXCEPT !.offset = end], base, by)
  BY <1>3, LayoutFollows
<1>7. Follows([x EXCEPT !.offset = far, !.error = "InvalidCharacter"],
              [y EXCEPT !.offset = to, !.error = "InvalidCharacter"], base, by)
  BY <1>3, FatalFollows
<1> QED BY <1>4, <1>5, <1>6, <1>7

LEMMA OpenFollows ==
  ASSUME NEW t, NEW u, NEW by, NEW base, NEW x, NEW y, Together(t, u, by, base, x, y),
         Branch(u, y) = "open"
  PROVE  Follows(AfterOpen(t, x), AfterOpen(u, y), base, by)
<1> DEFINE first == Peek(u, y.offset, 0)
           to == y.offset + 1
           far == x.offset + 1
           v == Emit(x, "group", first, far)
           w == Emit(y, "group", first, to)
           a == [kind |-> first, opening_start |-> x.offset]
           b == [kind |-> first, opening_start |-> y.offset]
<1>1. /\ by \in Nat /\ x \in Lexers /\ y \in Lexers /\ x.groups \in Stack /\ y.groups \in Stack
      /\ x.offset \in Nat /\ y.offset \in Nat /\ y.offset <= Len(u) /\ y.quote_next \in BOOLEAN
  BY TogetherFacts
<1>2. /\ Ending(t, u, by) /\ x.offset = by + y.offset /\ Len(x.groups) = Len(y.groups)
      /\ x.done = y.done /\ x.error = y.error
      /\ \A k \in 1 .. Len(y.groups) : x.groups[k].kind = y.groups[k].kind
  BY DEF Together, Follows
<1>3. first \in Openers /\ first \in Spellings
  <2>1. first \in Openers
    BY <1>1, BranchFacts
  <2> QED BY <2>1 DEF Spellings
<1>4. Peek(t, x.offset, 0) = first
  BY <1>1, <1>2, SymbolsMove
<1>5. to \in Nat /\ far = by + to
  BY <1>1, <1>2
<1>6. CASE Len(y.groups) = MaxGroupDepth
  <2>1. AfterOpen(t, x) = [x EXCEPT !.error = "NestingLimitExceeded"]
    BY <1>2, <1>6 DEF AfterOpen
  <2>2. AfterOpen(u, y) = [y EXCEPT !.error = "NestingLimitExceeded"]
    BY <1>6 DEF AfterOpen
  <2> HIDE DEF far, to
  <2>3. Follows([x EXCEPT !.error = "NestingLimitExceeded"],
                [y EXCEPT !.error = "NestingLimitExceeded"], base, by)
    BY <1>5, FatalFollows
  <2> QED BY <2>1, <2>2, <2>3
<1>7. CASE Len(y.groups) # MaxGroupDepth
  <2> DEFINE p == [v EXCEPT !.quote_next = FALSE, !.groups = Append(@, a)]
             q == [w EXCEPT !.quote_next = FALSE, !.groups = Append(@, b)]
  <2>1. AfterOpen(t, x) = p
    BY <1>2, <1>4, <1>7 DEF AfterOpen
  <2>2. AfterOpen(u, y) = q
    BY <1>7 DEF AfterOpen
  <2> HIDE DEF first, to, far
  <2>3. Continues(v.stream, w.stream, base, by)
    BY <1>3, <1>5, EmitFollows
  <2>4. /\ v = [offset |-> far, groups |-> x.groups, stream |-> v.stream,
                quote_next |-> x.quote_next, diagnostics |-> x.diagnostics,
                done |-> x.done, error |-> x.error]
        /\ w = [offset |-> to, groups |-> y.groups, stream |-> w.stream,
                quote_next |-> y.quote_next, diagnostics |-> y.diagnostics,
                done |-> y.done, error |-> y.error]
    BY <1>1, EmitFields
  <2> HIDE DEF v, w
  <2>5. /\ p.offset = far /\ p.groups = Append(x.groups, a) /\ p.stream = v.stream
        /\ p.quote_next = FALSE /\ p.done = x.done /\ p.error = x.error
        /\ q.offset = to /\ q.groups = Append(y.groups, b) /\ q.stream = w.stream
        /\ q.quote_next = FALSE /\ q.done = y.done /\ q.error = y.error
    BY <2>4
  <2> HIDE DEF p, q
  <2>6. a.kind = first /\ b.kind = first
    OBVIOUS
  <2> HIDE DEF a, b
  <2>7. /\ Len(p.groups) = Len(q.groups)
        /\ \A k \in 1 .. Len(q.groups) : p.groups[k].kind = q.groups[k].kind
    <3> DEFINE n == Len(y.groups)
    <3>1. n \in Nat /\ Len(p.groups) = n + 1 /\ Len(q.groups) = n + 1
      BY <1>1, <1>2, <2>5 DEF Stack
    <3>2. p.groups[n + 1] = a /\ q.groups[n + 1] = b
      BY <1>1, <1>2, <2>5 DEF Stack
    <3>3. \A k \in 1 .. n : p.groups[k] = x.groups[k] /\ q.groups[k] = y.groups[k]
      BY <1>1, <1>2, <2>5 DEF Stack
    <3>4. \A k \in 1 .. n + 1 : k = n + 1 \/ k \in 1 .. n
      BY <3>1
    <3>5. \A k \in 1 .. n : x.groups[k].kind = y.groups[k].kind
      BY <1>2
    <3> HIDE DEF n
    <3>6. \A k \in 1 .. n + 1 : p.groups[k].kind = q.groups[k].kind
      BY <2>6, <3>2, <3>3, <3>4, <3>5
    <3> QED BY <3>1, <3>6
  <2>8. Follows(p, q, base, by)
    BY <1>2, <1>5, <2>3, <2>5, <2>7 DEF Follows
  <2> QED BY <2>1, <2>2, <2>8
<1> QED BY <1>6, <1>7

\* What AfterClose does, the assertion in it being true.
LEMMA CloseIs ==
  ASSUME NEW t \in Text, NEW x, Sound(t, x), Running(x), Branch(t, x) = "close"
  PROVE  LET n == Len(x.groups)
             matches == n > 0 /\ Closing(x.groups[n].kind) = Peek(t, x.offset, 0)
         IN  /\ ~ matches => AfterClose(t, x) =
                  [x EXCEPT !.offset = x.offset + 1, !.error = "UnexpectedClosingDelimiter"]
             /\ matches => AfterClose(t, x) =
                  [x EXCEPT !.offset = x.offset + 1, !.quote_next = FALSE,
                            !.groups = SubSeq(x.groups, 1, n - 1),
                            !.stream = CompleteLastGroup(x.stream, x.groups[n].kind, x.offset + 1)]
<1> DEFINE n == Len(x.groups)
           first == Peek(t, x.offset, 0)
           matches == n > 0 /\ Closing(x.groups[n].kind) = first
           popped == [x EXCEPT !.offset = @ + 1, !.quote_next = FALSE,
                               !.groups = SubSeq(@, 1, n - 1)]
           refused == [x EXCEPT !.offset = @ + 1, !.error = "UnexpectedClosingDelimiter"]
           completed == [popped EXCEPT !.stream =
                           CompleteLastGroup(@, x.groups[n].kind, x.offset + 1)]
           empty == Completable(x.stream, x.groups[n].kind) = {}
<1>1. x \in Lexers /\ x.offset <= Len(t)
  BY SoundRunning
<1>2. /\ x.offset \in Nat /\ x.quote_next \in BOOLEAN /\ x.groups \in Stack
  BY <1>1, LexerFields
<1>3. first \in Closers /\ ~ x.quote_next
  BY <1>2, BranchFacts
<1>4. x.offset < Len(t)
  BY <1>2, <1>3, PeekFacts DEF Closers
<1>5. matches => ~ empty
  BY <1>3, <1>4, CloseSound
<1>6. AfterClose(t, x) = CASE ~ matches -> refused
                           [] matches /\ empty -> [x EXCEPT !.error = "assert"]
                           [] OTHER -> completed
  BY DEF AfterClose
<1>7. refused = [x EXCEPT !.offset = x.offset + 1, !.error = "UnexpectedClosingDelimiter"]
  BY <1>1 DEF Lexers
<1>8. completed =
        [x EXCEPT !.offset = x.offset + 1, !.quote_next = FALSE,
                  !.groups = SubSeq(x.groups, 1, n - 1),
                  !.stream = CompleteLastGroup(x.stream, x.groups[n].kind, x.offset + 1)]
  BY <1>1 DEF Lexers
<1> HIDE DEF matches, refused, completed, empty
<1>9. ~ matches => AfterClose(t, x) = refused
  BY <1>6
<1>10. matches => AfterClose(t, x) = completed
  BY <1>5, <1>6
<1> QED BY <1>7, <1>8, <1>9, <1>10 DEF matches

LEMMA CloseFollows ==
  ASSUME NEW t, NEW u, NEW by, NEW base, NEW x, NEW y, Together(t, u, by, base, x, y),
         Branch(u, y) = "close", Branch(t, x) = "close"
  PROVE  Follows(AfterClose(t, x), AfterClose(u, y), base, by)
<1> DEFINE first == Peek(u, y.offset, 0)
           to == y.offset + 1
           far == x.offset + 1
           n == Len(y.groups)
           v == CompleteLastGroup(x.stream, x.groups[Len(x.groups)].kind, far)
           w == CompleteLastGroup(y.stream, y.groups[Len(y.groups)].kind, to)
           matches == n > 0 /\ Closing(y.groups[n].kind) = first
           p == [x EXCEPT !.offset = far, !.quote_next = FALSE,
                          !.groups = SubSeq(x.groups, 1, n - 1), !.stream = v]
           q == [y EXCEPT !.offset = to, !.quote_next = FALSE,
                          !.groups = SubSeq(y.groups, 1, n - 1), !.stream = w]
<1>1. /\ t \in Text /\ u \in Text /\ base \in Seq(Nodes)
      /\ by \in Nat /\ x \in Lexers /\ y \in Lexers /\ x.groups \in Stack /\ y.groups \in Stack
      /\ x.stream \in Seq(Nodes) /\ y.stream \in Seq(Nodes)
      /\ x.offset \in Nat /\ y.offset \in Nat /\ y.offset <= Len(u) /\ y.quote_next \in BOOLEAN
      /\ Spine(x.stream, x.groups, x.offset) /\ Spine(y.stream, y.groups, y.offset)
  BY TogetherFacts
<1>2. /\ Ending(t, u, by) /\ x.offset = by + y.offset /\ Len(x.groups) = n
      /\ x.done = y.done /\ x.error = y.error
      /\ \A k \in 1 .. n : x.groups[k].kind = y.groups[k].kind
      /\ Continues(x.stream, y.stream, base, by)
  BY DEF Together, Follows
<1>3. Peek(t, x.offset, 0) = first
  BY <1>1, <1>2, SymbolsMove
<1>4. to \in Nat /\ far = by + to
  BY <1>1, <1>2
<1>5. n \in Nat
  BY <1>1 DEF Stack
<1>6. n > 0 => x.groups[n].kind = y.groups[n].kind
  BY <1>2, <1>5
<1>7. /\ ~ matches => AfterClose(t, x) =
           [x EXCEPT !.offset = far, !.error = "UnexpectedClosingDelimiter"]
      /\ matches => AfterClose(t, x) = p
  <2> HIDE DEF v, first
  <2>1. Sound(t, x) /\ Running(x)
    BY DEF Together
  <2> DEFINE m == Len(x.groups)
             a == m > 0 /\ Closing(x.groups[m].kind) = Peek(t, x.offset, 0)
             z == [x EXCEPT !.offset = x.offset + 1, !.quote_next = FALSE,
                            !.groups = SubSeq(x.groups, 1, m - 1),
                            !.stream = CompleteLastGroup(x.stream, x.groups[m].kind, x.offset + 1)]
  <2>2. /\ ~ a => AfterClose(t, x) =
             [x EXCEPT !.offset = x.offset + 1, !.error = "UnexpectedClosingDelimiter"]
        /\ a => AfterClose(t, x) = z
    BY <1>1, <2>1, CloseIs
  <2>3. m = n
    BY <1>2
  <2>4. a <=> matches
    <3> HIDE DEF m, n
    <3> QED BY <1>3, <1>6, <2>3
  <2>5. z = p
    BY <2>3 DEF v
  <2> HIDE DEF a, z, p, matches, m, n
  <2> QED BY <2>2, <2>4, <2>5
<1>8. /\ ~ matches => AfterClose(u, y) =
           [y EXCEPT !.offset = to, !.error = "UnexpectedClosingDelimiter"]
      /\ matches => AfterClose(u, y) = q
  <2>1. Sound(u, y) /\ Running(y)
    BY DEF Together
  <2> QED BY <1>1, <2>1, CloseIs
<1>9. CASE ~ matches
  <2> HIDE DEF far, to, matches, p, q
  <2>1. Follows([x EXCEPT !.offset = far, !.error = "UnexpectedClosingDelimiter"],
                [y EXCEPT !.offset = to, !.error = "UnexpectedClosingDelimiter"], base, by)
    BY <1>4, FatalFollows
  <2> QED BY <1>7, <1>8, <1>9, <2>1
<1>10. CASE matches
  <2>1. n > 0
    BY <1>10
  <2> HIDE DEF matches
  <2>2. Continues(v, w, base, by)
    <3> HIDE DEF to, far
    <3>1. Continues(CompleteLastGroup(x.stream, x.groups[Len(x.groups)].kind, by + to), w, base, by)
      BY <1>1, <1>2, <1>4, <2>1, ContinuesComplete
    <3> QED BY <1>4, <3>1
  <2> HIDE DEF v, w
  <2>3. /\ p.offset = far /\ p.groups = SubSeq(x.groups, 1, n - 1) /\ p.stream = v
        /\ p.quote_next = FALSE /\ p.done = x.done /\ p.error = x.error
        /\ q.offset = to /\ q.groups = SubSeq(y.groups, 1, n - 1) /\ q.stream = w
        /\ q.quote_next = FALSE /\ q.done = y.done /\ q.error = y.error
    BY <1>1 DEF Lexers
  <2> HIDE DEF p, q
  <2>4. /\ Len(p.groups) = Len(q.groups)
        /\ \A k \in 1 .. Len(q.groups) : p.groups[k].kind = q.groups[k].kind
    <3> HIDE DEF n
    <3>1. n - 1 \in Nat /\ n - 1 <= n /\ n = Len(y.groups)
      BY <1>5, <2>1 DEF n
    <3>2. /\ SubSeq(x.groups, 1, n - 1) = [k \in 1 .. n - 1 |-> x.groups[k]]
          /\ SubSeq(y.groups, 1, n - 1) = [k \in 1 .. n - 1 |-> y.groups[k]]
      BY <1>1, <1>2, <3>1 DEF Stack
    <3>3. /\ Len(SubSeq(x.groups, 1, n - 1)) = n - 1
          /\ Len(SubSeq(y.groups, 1, n - 1)) = n - 1
      BY <1>1, <1>2, <3>1 DEF Stack
    <3>4. \A k \in 1 .. n - 1 : k \in 1 .. n
      BY <3>1
    <3>5. \A k \in 1 .. n - 1 : p.groups[k].kind = q.groups[k].kind
      BY <1>2, <2>3, <3>2, <3>4
    <3> QED BY <2>3, <3>3, <3>5
  <2>5. Follows(p, q, base, by)
    BY <1>2, <1>4, <2>2, <2>3, <2>4 DEF Follows
  <2> QED BY <1>7, <1>8, <1>10, <2>5
<1> QED BY <1>9, <1>10

LEMMA EndFollows ==
  ASSUME NEW t, NEW u, NEW by, NEW base, NEW x, NEW y, Together(t, u, by, base, x, y)
  PROVE  Follows(AfterEndOfInput(t, x), AfterEndOfInput(u, y), base, by)
<1> DEFINE d == x.diagnostics \o [i \in 1 .. Len(x.groups) |->
                  Diagnostic("UnterminatedGroup",
                             x.groups[Len(x.groups) + 1 - i].opening_start, Len(t))]
           e == y.diagnostics \o [i \in 1 .. Len(y.groups) |->
                  Diagnostic("UnterminatedGroup",
                             y.groups[Len(y.groups) + 1 - i].opening_start, Len(u))]
           p == [x EXCEPT !.done = TRUE, !.groups = <<>>, !.diagnostics = d]
           q == [y EXCEPT !.done = TRUE, !.groups = <<>>, !.diagnostics = e]
<1>1. x \in Lexers /\ y \in Lexers
  BY TogetherFacts
<1>2. AfterEndOfInput(t, x) = p /\ AfterEndOfInput(u, y) = q
  BY <1>1 DEF AfterEndOfInput, Lexers
<1> HIDE DEF d, e
<1>3. /\ p.offset = x.offset /\ p.groups = <<>> /\ p.stream = x.stream
      /\ p.quote_next = x.quote_next /\ p.done = TRUE /\ p.error = x.error
      /\ q.offset = y.offset /\ q.groups = <<>> /\ q.stream = y.stream
      /\ q.quote_next = y.quote_next /\ q.done = TRUE /\ q.error = y.error
  BY <1>1 DEF Lexers
<1> HIDE DEF p, q
<1>4. Len(p.groups) = Len(q.groups)
      /\ \A k \in 1 .. Len(q.groups) : p.groups[k].kind = q.groups[k].kind
  BY <1>3
<1>5. Follows(x, y, base, by)
  BY DEF Together
<1>6. Follows(p, q, base, by)
  BY <1>3, <1>4, <1>5 DEF Follows
<1> QED BY <1>2, <1>6

Branches == {"end_of_input", "line_break", "whitespace", "identifier", "string",
             "quoted_bracket", "punctuation", "raw_string", "line_comment", "block_comment",
             "open", "close", "invalid"}

\* One branch is taken, and it is the step.
LEMMA StepIs ==
  ASSUME NEW t, NEW x
  PROVE  /\ Branch(t, x) \in Branches
         /\ Branch(t, x) = "end_of_input" => LexStep(t, x) = AfterEndOfInput(t, x)
         /\ Branch(t, x) = "line_break" => LexStep(t, x) = AfterLineBreak(t, x)
         /\ Branch(t, x) = "whitespace" => LexStep(t, x) = AfterWhitespace(t, x)
         /\ Branch(t, x) = "identifier" => LexStep(t, x) = AfterIdentifier(t, x)
         /\ Branch(t, x) = "string" => LexStep(t, x) = AfterString(t, x)
         /\ Branch(t, x) \in {"punctuation", "quoted_bracket"} =>
              LexStep(t, x) = AfterPunctuation(t, x)
         /\ Branch(t, x) = "raw_string" => LexStep(t, x) = AfterRawString(t, x)
         /\ Branch(t, x) = "line_comment" => LexStep(t, x) = AfterLineComment(t, x)
         /\ Branch(t, x) = "block_comment" => LexStep(t, x) = AfterBlockComment(t, x)
         /\ Branch(t, x) = "open" => LexStep(t, x) = AfterOpen(t, x)
         /\ Branch(t, x) = "close" => LexStep(t, x) = AfterClose(t, x)
         /\ Branch(t, x) = "invalid" => LexStep(t, x) = AfterInvalid(t, x)
<1>1. Branch(t, x) \in Branches
  <2> DEFINE long == SlashRun(t, x.offset) >= 3
             short == SlashRun(t, x.offset) < 3
  <2> QED BY DEF Branch, Branches
<1> DEFINE branch == Branch(t, x)
<1>2. LexStep(t, x) =
        CASE branch = "end_of_input"   -> AfterEndOfInput(t, x)
          [] branch = "line_break"     -> AfterLineBreak(t, x)
          [] branch = "whitespace"     -> AfterWhitespace(t, x)
          [] branch = "identifier"     -> AfterIdentifier(t, x)
          [] branch = "string"         -> AfterString(t, x)
          [] branch \in {"punctuation", "quoted_bracket"} -> AfterPunctuation(t, x)
          [] branch = "raw_string"     -> AfterRawString(t, x)
          [] branch = "line_comment"   -> AfterLineComment(t, x)
          [] branch = "block_comment"  -> AfterBlockComment(t, x)
          [] branch = "open"           -> AfterOpen(t, x)
          [] branch = "close"          -> AfterClose(t, x)
          [] branch = "invalid"        -> AfterInvalid(t, x)
  BY DEF LexStep
<1> HIDE DEF branch
<1>3. /\ branch = "end_of_input" => LexStep(t, x) = AfterEndOfInput(t, x)
      /\ branch = "line_break" => LexStep(t, x) = AfterLineBreak(t, x)
      /\ branch = "whitespace" => LexStep(t, x) = AfterWhitespace(t, x)
      /\ branch = "identifier" => LexStep(t, x) = AfterIdentifier(t, x)
      /\ branch = "string" => LexStep(t, x) = AfterString(t, x)
      /\ branch \in {"punctuation", "quoted_bracket"} => LexStep(t, x) = AfterPunctuation(t, x)
      /\ branch = "raw_string" => LexStep(t, x) = AfterRawString(t, x)
      /\ branch = "line_comment" => LexStep(t, x) = AfterLineComment(t, x)
      /\ branch = "block_comment" => LexStep(t, x) = AfterBlockComment(t, x)
      /\ branch = "open" => LexStep(t, x) = AfterOpen(t, x)
      /\ branch = "close" => LexStep(t, x) = AfterClose(t, x)
      /\ branch = "invalid" => LexStep(t, x) = AfterInvalid(t, x)
  BY <1>2
<1> QED BY <1>1, <1>3 DEF branch

LEMMA StepSound ==
  ASSUME NEW t \in Text, NEW x, Sound(t, x), Running(x)
  PROVE  Sound(t, LexStep(t, x))
<1>1. Branch(t, x) \in Branches
  BY StepIs
<1>2. CASE Branch(t, x) = "end_of_input"
  BY <1>2, StepIs, EndSound
<1>3. CASE Branch(t, x) = "line_break"
  BY <1>3, StepIs, LayoutBranchSound
<1>4. CASE Branch(t, x) = "whitespace"
  BY <1>4, StepIs, LayoutBranchSound
<1>5. CASE Branch(t, x) = "identifier"
  BY <1>5, StepIs, IdentifierSound
<1>6. CASE Branch(t, x) = "string"
  BY <1>6, StepIs, StringsSound
<1>7. CASE Branch(t, x) \in {"punctuation", "quoted_bracket"}
  BY <1>7, StepIs, PunctuationSound
<1>8. CASE Branch(t, x) = "raw_string"
  BY <1>8, StepIs, StringsSound
<1>9. CASE Branch(t, x) = "line_comment"
  BY <1>9, StepIs, CommentsSound
<1>10. CASE Branch(t, x) = "block_comment"
  BY <1>10, StepIs, CommentsSound
<1>11. CASE Branch(t, x) = "open"
  BY <1>11, StepIs, DelimitersSound
<1>12. CASE Branch(t, x) = "close"
  BY <1>12, StepIs, DelimitersSound
<1>13. CASE Branch(t, x) = "invalid"
  BY <1>13, StepIs, InvalidSound
<1> QED BY <1>1, <1>2, <1>3, <1>4, <1>5, <1>6, <1>7, <1>8, <1>9, <1>10, <1>11, <1>12, <1>13
        DEF Branches

\* A step and the same one further on.
LEMMA StepFollows ==
  ASSUME NEW t, NEW u, NEW by, NEW base, NEW x, NEW y, Together(t, u, by, base, x, y)
  PROVE  Follows(LexStep(t, x), LexStep(u, y), base, by)
<1>1. /\ y.offset \in Nat /\ y.offset <= Len(u)
      /\ Ending(t, u, by) /\ x.offset = by + y.offset /\ x.quote_next = y.quote_next
  BY TogetherFacts DEF Together, Follows
<1>2. Branch(t, x) = Branch(u, y) /\ Branch(u, y) \in Branches
  BY <1>1, BranchMoves, StepIs
<1>3. CASE Branch(u, y) = "end_of_input"
  BY <1>2, <1>3, StepIs, EndFollows
<1>4. CASE Branch(u, y) = "line_break"
  BY <1>2, <1>4, StepIs, LayoutBranchesFollow
<1>5. CASE Branch(u, y) = "whitespace"
  BY <1>2, <1>5, StepIs, LayoutBranchesFollow
<1>6. CASE Branch(u, y) = "identifier"
  BY <1>2, <1>6, StepIs, IdentifierFollows
<1>7. CASE Branch(u, y) = "string"
  BY <1>2, <1>7, StepIs, StringsFollow
<1>8. CASE Branch(u, y) \in {"punctuation", "quoted_bracket"}
  BY <1>2, <1>8, StepIs, PunctuationFollows
<1>9. CASE Branch(u, y) = "raw_string"
  BY <1>2, <1>9, StepIs, StringsFollow
<1>10. CASE Branch(u, y) = "line_comment"
  BY <1>2, <1>10, StepIs, CommentsFollow
<1>11. CASE Branch(u, y) = "block_comment"
  BY <1>2, <1>11, StepIs, CommentsFollow
<1>12. CASE Branch(u, y) = "open"
  BY <1>2, <1>12, StepIs, OpenFollows
<1>13. CASE Branch(u, y) = "close"
  BY <1>2, <1>13, StepIs, CloseFollows
<1>14. CASE Branch(u, y) = "invalid"
  BY <1>2, <1>14, StepIs, LayoutBranchesFollow
<1> QED BY <1>2, <1>3, <1>4, <1>5, <1>6, <1>7, <1>8, <1>9, <1>10, <1>11, <1>12, <1>13, <1>14
        DEF Branches

\* Where a token ends.
LEMMA EmitOffset ==
  ASSUME NEW x \in Lexers, NEW kind, NEW spelling, NEW to, NEW quote, NEW d
  PROVE  /\ [Emit(x, kind, spelling, to) EXCEPT !.quote_next = quote].offset = to
         /\ [[Emit(x, kind, spelling, to) EXCEPT !.quote_next = quote]
               EXCEPT !.diagnostics = d].offset = to
         /\ [Emit(x, kind, spelling, to) EXCEPT !.quote_next = quote, !.groups = d].offset = to
<1> DEFINE v == Emit(x, kind, spelling, to)
<1>1. v = [offset |-> to, groups |-> x.groups, stream |-> v.stream,
           quote_next |-> x.quote_next, diagnostics |-> x.diagnostics,
           done |-> x.done, error |-> x.error]
  BY EmitFields
<1> HIDE DEF v
<1>2. /\ [v EXCEPT !.quote_next = quote].offset = to
      /\ [[v EXCEPT !.quote_next = quote] EXCEPT !.diagnostics = d].offset = to
      /\ [v EXCEPT !.quote_next = quote, !.groups = d].offset = to
  BY <1>1
<1> QED BY <1>2 DEF v

LEMMA LiteralAdvances ==
  ASSUME NEW x \in Lexers, NEW scan \in Scan, NEW diagnosis
  PROVE  AfterLiteral(x, scan, diagnosis).offset = scan.to
<1> DEFINE next == [Emit(x, "literal", "", scan.to) EXCEPT !.quote_next = FALSE]
           d == Append(next.diagnostics, Diagnostic(diagnosis, x.offset, scan.to))
<1>1. next.offset = scan.to /\ [next EXCEPT !.diagnostics = d].offset = scan.to
  <2> DEFINE to == scan.to
             kind == "literal"
             spelling == ""
             v == Emit(x, kind, spelling, to)
  <2> HIDE DEF d, to, kind, spelling
  <2>1. v = [offset |-> to, groups |-> x.groups, stream |-> v.stream,
             quote_next |-> x.quote_next, diagnostics |-> x.diagnostics,
             done |-> x.done, error |-> x.error]
    BY EmitFields
  <2> HIDE DEF v
  <2>2. next = [v EXCEPT !.quote_next = FALSE]
    BY DEF v, to, kind, spelling
  <2> HIDE DEF next
  <2> QED BY <2>1, <2>2 DEF to
<1>2. AfterLiteral(x, scan, diagnosis) =
        CASE scan.status = "closed"       -> next
          [] scan.status = "unterminated" -> [next EXCEPT !.diagnostics = d]
          [] scan.status = "bad_escape"   ->
               [x EXCEPT !.error = "InvalidEscape", !.offset = scan.to]
  BY DEF AfterLiteral
<1>3. [x EXCEPT !.error = "InvalidEscape", !.offset = scan.to].offset = scan.to
  BY DEF Lexers
<1>4. scan.status \in {"closed", "unterminated", "bad_escape"}
  BY DEF Scan
<1> HIDE DEF next, d
<1> QED BY <1>1, <1>2, <1>3, <1>4

\* Every branch consumes a symbol or ends the loop.
LEMMA StepAdvances ==
  ASSUME NEW t \in Text, NEW x, Sound(t, x), Running(x), Running(LexStep(t, x))
  PROVE  x.offset < LexStep(t, x).offset
<1>1. x \in Lexers /\ x.offset <= Len(t)
  BY SoundRunning
<1>2. x.offset \in Nat /\ x.quote_next \in BOOLEAN /\ Len(t) \in Nat
  BY <1>1, LexerFields DEF Text
<1>3. Branch(t, x) \in Branches
  BY StepIs
<1>4. CASE Branch(t, x) = "end_of_input"
  <2> DEFINE d == x.diagnostics \o [i \in 1 .. Len(x.groups) |->
                    Diagnostic("UnterminatedGroup",
                               x.groups[Len(x.groups) + 1 - i].opening_start, Len(t))]
  <2>1. AfterEndOfInput(t, x) = [x EXCEPT !.done = TRUE, !.groups = <<>>, !.diagnostics = d]
    BY <1>1 DEF AfterEndOfInput, Lexers
  <2> HIDE DEF d
  <2>2. LexStep(t, x) = AfterEndOfInput(t, x)
    BY <1>4, StepIs
  <2>3. LexStep(t, x).done = TRUE
    BY <1>1, <2>1, <2>2 DEF Lexers
  <2> QED BY <2>3 DEF Running
<1>5. Branch(t, x) # "end_of_input" => x.offset < Len(t) /\ Peek(t, x.offset, 0) = t[x.offset + 1]
  <2>1. Branch(t, x) # "end_of_input" => Peek(t, x.offset, 0) # "EOF"
    <3> DEFINE long == SlashRun(t, x.offset) >= 3
               short == SlashRun(t, x.offset) < 3
    <3> QED BY <1>2 DEF Branch, Words, Keywords, QuoteSpecifiers, Openers, Closers, Operators
  <2> QED BY <1>2, <2>1, PeekFacts
<1>6. CASE Branch(t, x) \in {"line_break", "invalid"}
  <2>1. LexStep(t, x) \in {AfterLineBreak(t, x), AfterInvalid(t, x)}
    BY <1>6, StepIs
  <2>2. AfterLineBreak(t, x).offset = x.offset + 1 /\ AfterInvalid(t, x).offset = x.offset + 1
    BY <1>1 DEF AfterLineBreak, AfterInvalid, Lexers
  <2> QED BY <1>2, <2>1, <2>2
<1>7. CASE Branch(t, x) = "whitespace"
  <2> DEFINE to == LayoutEnd(t, x.offset)
  <2>1. Stops({ e \in Nat : t[e + 1] # "SP" }, x.offset, Len(t), to)
    BY <1>1, <1>2, EndsStop
  <2>2. t[x.offset + 1] = "SP" /\ x.offset < Len(t)
    BY <1>2, <1>5, <1>7, BranchFacts
  <2>3. LexStep(t, x).offset = to
    BY <1>1, <1>7, StepIs DEF AfterWhitespace, Lexers
  <2> HIDE DEF to
  <2> QED BY <1>2, <2>1, <2>2, <2>3 DEF Stops
<1>8. CASE Branch(t, x) = "identifier"
  <2> DEFINE to == WordEnd(t, x.offset)
             next == Emit(x, "ident", IdentSpelling(t, x.offset, to), to)
  <2>1. t[x.offset + 1] \in Words /\ x.offset < Len(t)
    BY <1>2, <1>5, <1>8, BranchFacts
  <2>2. x.offset < to
    BY <1>2, <2>1, WordEndFacts
  <2>3. LexStep(t, x) = [next EXCEPT !.quote_next = ~ x.quote_next /\ QuotesNext(next.stream)]
    BY <1>8, StepIs DEF AfterIdentifier
  <2> DEFINE quote == ~ x.quote_next /\ QuotesNext(next.stream)
  <2> HIDE DEF to, quote
  <2>4. LexStep(t, x).offset = to
    BY <1>1, <2>3, EmitOffset DEF quote
  <2> QED BY <2>2, <2>4
<1>9. CASE Branch(t, x) = "string"
  <2> DEFINE scan == StringScan(t, x.offset)
  <2>1. scan \in Scan /\ x.offset < scan.to
    BY <1>2, <1>5, <1>9, StringScanFacts
  <2>2. LexStep(t, x) = AfterLiteral(x, scan, "UnterminatedString")
    BY <1>9, StepIs DEF AfterString
  <2> HIDE DEF scan
  <2> QED BY <1>1, <2>1, <2>2, LiteralAdvances
<1>10. CASE Branch(t, x) = "raw_string"
  <2> DEFINE scan == RawStringScan(t, x.offset)
  <2>1. scan \in Scan /\ x.offset < scan.to
    <3>1. SlashRun(t, x.offset) >= 3
      BY <1>2, <1>10, BranchFacts
    <3> QED BY <1>1, <1>2, <3>1, RawStringScanFacts
  <2>2. LexStep(t, x) = AfterLiteral(x, scan, "UnterminatedRawString")
    BY <1>10, StepIs DEF AfterRawString
  <2> HIDE DEF scan
  <2> QED BY <1>1, <2>1, <2>2, LiteralAdvances
<1>11. CASE Branch(t, x) \in {"punctuation", "quoted_bracket"}
  <2> DEFINE first == Peek(t, x.offset, 0)
             to == PunctuationEnd(t, x.offset)
  <2>1. LexStep(t, x) = [Emit(x, "punct", first, to) EXCEPT !.quote_next = FALSE]
    BY <1>11, StepIs DEF AfterPunctuation
  <2>2. first \notin {"EOF", "SP"}
    <3>1. x.quote_next \in BOOLEAN
      BY <1>2
    <3>2. first \in Openers \cup Closers \cup Operators \cup {"/"}
      BY <1>11, <3>1, BranchFacts
    <3> QED BY <3>2 DEF Operators, Openers, Closers
  <2>3. x.offset < to
    BY <1>1, <1>2, <2>2, PunctuationEndFacts
  <2> HIDE DEF first, to
  <2> QED BY <1>1, <2>1, <2>3, EmitOffset
<1>12. CASE Branch(t, x) = "line_comment"
  <2> DEFINE to == LineCommentEnd(t, x.offset)
  <2>1. Stops({ e \in Nat : t[e + 1] = "NL" }, x.offset, Len(t), to)
    BY <1>1, <1>2, EndsStop
  <2>2. t[x.offset + 1] # "NL" /\ x.offset < Len(t)
    BY <1>2, <1>5, <1>12, BranchFacts
  <2>3. LexStep(t, x).offset = to
    <3> DEFINE v == PushLineComment(x.stream, t, x.offset, to)
    <3> HIDE DEF to
    <3>1. AfterLineComment(t, x) = [x EXCEPT !.offset = to, !.stream = v]
      BY <1>1 DEF AfterLineComment, Lexers, to
    <3>2. LexStep(t, x) = AfterLineComment(t, x)
      BY <1>12, StepIs
    <3> HIDE DEF v
    <3> QED BY <1>1, <3>1, <3>2 DEF Lexers
  <2> HIDE DEF to
  <2> QED BY <1>2, <2>1, <2>2, <2>3 DEF Stops
<1>13. CASE Branch(t, x) = "block_comment"
  <2> DEFINE to == BlockCommentEnd(t, x.offset)
  <2>1. to \in Nat /\ x.offset < to
    BY <1>2, <1>5, <1>13, BlockCommentEndFacts
  <2>2. LexStep(t, x).offset = IF to = Len(t) THEN to ELSE to + 1
    <3> DEFINE v == PushBlockComment(x.stream, x.offset, to + 1)
    <3> HIDE DEF to
    <3>1. AfterBlockComment(t, x) =
            IF to = Len(t) THEN [x EXCEPT !.offset = to, !.error = "UnterminatedBlockComment"]
                           ELSE [x EXCEPT !.offset = to + 1, !.stream = v]
      BY <1>1 DEF AfterBlockComment, Lexers, to
    <3>2. LexStep(t, x) = AfterBlockComment(t, x)
      BY <1>13, StepIs
    <3> HIDE DEF v
    <3> QED BY <1>1, <3>1, <3>2 DEF Lexers
  <2> HIDE DEF to
  <2> QED BY <1>2, <2>1, <2>2
<1>14. CASE Branch(t, x) = "open"
  <2> DEFINE first == Peek(t, x.offset, 0)
             v == Emit(x, "group", first, x.offset + 1)
             groups == Append(v.groups, [kind |-> first, opening_start |-> x.offset])
             to == x.offset + 1
  <2>1. LexStep(t, x) = IF Len(x.groups) = MaxGroupDepth
                        THEN [x EXCEPT !.error = "NestingLimitExceeded"]
                        ELSE [v EXCEPT !.quote_next = FALSE, !.groups = groups]
    <3>1. v.groups = x.groups
      BY <1>1, EmitFields
    <3>2. LexStep(t, x) = AfterOpen(t, x)
      BY <1>14, StepIs
    <3> QED BY <3>1, <3>2 DEF AfterOpen
  <2>2. [x EXCEPT !.error = "NestingLimitExceeded"].error = "NestingLimitExceeded"
    BY <1>1 DEF Lexers
  <2> HIDE DEF first, groups, to
  <2>3. LexStep(t, x) = [Emit(x, "group", first, to) EXCEPT !.quote_next = FALSE, !.groups = groups]
    BY <2>1, <2>2 DEF Running, to
  <2>4. LexStep(t, x).offset = to
    BY <1>1, <2>3, EmitOffset
  <2> QED BY <1>2, <2>4 DEF to
<1>15. CASE Branch(t, x) = "close"
  <2> DEFINE n == Len(x.groups)
             matches == n > 0 /\ Closing(x.groups[n].kind) = Peek(t, x.offset, 0)
             groups == SubSeq(x.groups, 1, n - 1)
             v == CompleteLastGroup(x.stream, x.groups[n].kind, x.offset + 1)
  <2>1. LexStep(t, x) = AfterClose(t, x)
    BY <1>15, StepIs
  <2>2. /\ ~ matches => AfterClose(t, x) =
             [x EXCEPT !.offset = x.offset + 1, !.error = "UnexpectedClosingDelimiter"]
        /\ matches => AfterClose(t, x) =
             [x EXCEPT !.offset = x.offset + 1, !.quote_next = FALSE, !.groups = groups,
                       !.stream = v]
    BY <1>15, CloseIs
  <2> HIDE DEF matches, groups, v
  <2>3. LexStep(t, x).offset = x.offset + 1
    BY <1>1, <2>1, <2>2 DEF Lexers
  <2> QED BY <1>2, <2>3
<1> QED BY <1>3, <1>4, <1>6, <1>7, <1>8, <1>9, <1>10, <1>11, <1>12, <1>13, <1>14, <1>15
        DEF Branches

-----------------------------------------------------------------------------
(* The turns of the loop, as LexRecovering counts them. *)

\* One turn of the loop, which stays where it is once it has returned.
Turn(t, x) == IF Running(x) THEN LexStep(t, x) ELSE x

\* The equation that defines the turns of lex_recovering, and those turns.
RunsLexer(f, t) ==
  f = [k \in 0 .. Len(t) + 1 |->
        IF k = 0 THEN LexerStart
        ELSE LET x == f[k - 1]
             IN  IF Running(x) THEN LexStep(t, x) ELSE x]

LexerRun(t) == CHOOSE f : RunsLexer(f, t)

LEMMA LexerRunIs ==
  ASSUME NEW t \in Text
  PROVE  /\ LexRecovering(t) = LexerRun(t)[Len(t) + 1]
         /\ LexerRun(t)[0] = LexerStart
         /\ \A k \in 0 .. Len(t) : LexerRun(t)[k + 1] = Turn(t, LexerRun(t)[k])
         /\ \A k \in 0 .. Len(t) + 1 : Sound(t, LexerRun(t)[k])
<1> DEFINE n == Len(t)
           D == 0 .. n + 1
           S == { x \in Lexers : Sound(t, x) }
           stop == {0}
           base == [k \in D |-> LexerStart]
           next == [k \in D |-> IF k = 0 THEN 0 ELSE k - 1]
           step == [p \in D \X S |-> Turn(t, p[2])]
           m == [k \in D |-> k]
<1>0. n \in Nat
  BY DEF Text
<1> HIDE DEF n
<1>1. LexerStart \in S
  BY StartSound DEF Sound
<1>2. \A x \in S : Turn(t, x) \in S
  BY StepSound DEF Turn, Sound
<1> HIDE DEF S
<1>3. \A p \in D \X S : Turn(t, p[2]) \in S
  BY <1>2
<1>4. /\ m \in [D -> Nat] /\ stop \in SUBSET D /\ next \in [D -> D]
      /\ \A k \in D \ stop : m[next[k]] < m[k]
  BY <1>0
<1>5. base \in [D -> S] /\ step \in [D \X S -> S]
  BY <1>1, <1>3
<1>6. PICK f \in [D -> S] : \A k \in D :
        f[k] = IF k \in stop THEN base[k] ELSE step[<<k, f[next[k]]>>]
  <2> HIDE DEF D, stop, base, next, step, m
  <2>1. Descends(D, S, m, stop, base, next, step)
    BY <1>4, <1>5 DEF Descends
  <2> QED BY <2>1, RecursionByMeasure
<1>7. ASSUME NEW k \in D
      PROVE  f[k] = IF k = 0 THEN LexerStart ELSE Turn(t, f[k - 1])
  <2>1. CASE k = 0
    BY <1>6, <2>1
  <2>2. CASE k # 0
    <3>1. k - 1 \in D /\ next[k] = k - 1
      BY <1>0, <2>2
    <3>2. <<k, f[k - 1]>> \in D \X S
      BY <3>1
    <3>3. f[k] = step[<<k, f[k - 1]>>]
      BY <1>6, <2>2, <3>1
    <3> HIDE DEF D
    <3> QED BY <2>2, <3>2, <3>3
  <2> QED BY <2>1, <2>2
<1>8. f = [k \in D |-> IF k = 0 THEN LexerStart ELSE Turn(t, f[k - 1])]
  <2> HIDE DEF D
  <2> QED BY <1>7
<1>9. RunsLexer(f, t)
  BY <1>8 DEF RunsLexer, Turn, n
<1> DEFINE run == LexerRun(t)
<1>10. RunsLexer(run, t)
  BY <1>9 DEF LexerRun
<1>11. LexRecovering(t) = run[Len(t) + 1]
  BY DEF LexRecovering, LexerRun, RunsLexer
<1> HIDE DEF run
<1>12. run = [k \in D |-> IF k = 0 THEN LexerStart ELSE Turn(t, run[k - 1])]
  BY <1>10 DEF RunsLexer, Turn, n
<1>13. 0 \in D
  BY <1>0
<1>14. run[0] = LexerStart
  BY <1>12, <1>13
<1>15. \A k \in 0 .. n : run[k + 1] = Turn(t, run[k])
  <2> TAKE k \in 0 .. n
  <2>1. k + 1 \in D /\ k + 1 # 0 /\ (k + 1) - 1 = k
    BY <1>0
  <2> HIDE DEF D
  <2> QED BY <1>12, <2>1
<1>16. D \subseteq { k \in D : run[k] \in S }
  <2> DEFINE good == { k \in D : run[k] \in S }
  <2>1. ASSUME NEW k \in D, \A j \in D : m[j] < m[k] => j \in good
        PROVE  k \in good
    <3>1. CASE k = 0
      BY <1>1, <1>14, <3>1
    <3>2. CASE k # 0
      <4>1. k - 1 \in D /\ m[k - 1] < m[k]
        BY <1>0, <3>2
      <4>2. run[k - 1] \in S
        BY <2>1, <4>1
      <4>3. run[k] = Turn(t, run[k - 1])
        BY <1>12, <3>2
      <4> QED BY <1>2, <4>2, <4>3
    <3> QED BY <3>1, <3>2
  <2> HIDE DEF good, D, m
  <2>2. D \subseteq good
    BY <1>4, <2>1, MeasureInduction
  <2> QED BY <2>2 DEF good
<1>17. \A k \in D : Sound(t, run[k])
  BY <1>16 DEF S
<1> QED BY <1>11, <1>14, <1>15, <1>17 DEF run, n

\* Every turn but the last takes a symbol, so the loop has returned in the end.
LEMMA LexerRunEnds ==
  ASSUME NEW t \in Text
  PROVE  /\ \A k \in 0 .. Len(t) + 1 : Running(LexerRun(t)[k]) => k <= LexerRun(t)[k].offset
         /\ ~ Running(LexerRun(t)[Len(t) + 1])
         /\ \A k \in 0 .. Len(t) + 1 : \A j \in k .. Len(t) + 1 :
              ~ Running(LexerRun(t)[k]) => LexerRun(t)[j] = LexerRun(t)[k]
<1> DEFINE n == Len(t)
           D == 0 .. n + 1
           run == LexerRun(t)
           m == [k \in D |-> k]
<1>0. n \in Nat
  BY DEF Text
<1>1. /\ run[0] = LexerStart
      /\ \A k \in 0 .. n : run[k + 1] = Turn(t, run[k])
      /\ \A k \in D : Sound(t, run[k])
  BY LexerRunIs
<1> HIDE DEF n, run
<1>2. \A k \in D : run[k] \in Lexers /\ run[k].offset \in Nat /\ run[k].offset <= n
  <2> TAKE k \in D
  <2>1. Sound(t, run[k])
    BY <1>1
  <2>2. run[k] \in Lexers /\ run[k].offset <= Len(t)
    BY <2>1 DEF Sound
  <2> HIDE DEF D
  <2> QED BY <2>2, LexerFields DEF n
<1>3. m \in [D -> Nat]
  BY <1>0
<1>4. \A k \in D : k # 0 => k - 1 \in D /\ m[k - 1] < m[k] /\ run[k] = Turn(t, run[k - 1])
  <2> SUFFICES ASSUME NEW k \in D, k # 0
               PROVE  k - 1 \in D /\ m[k - 1] < m[k] /\ run[k] = Turn(t, run[k - 1])
    OBVIOUS
  <2>1. k - 1 \in 0 .. n /\ (k - 1) + 1 = k
    BY <1>0
  <2> QED BY <1>0, <1>1, <2>1
<1>5. \A k \in D : Running(run[k]) => k <= run[k].offset
  <2> DEFINE good == { k \in D : Running(run[k]) => k <= run[k].offset }
  <2>1. ASSUME NEW k \in D, \A j \in D : m[j] < m[k] => j \in good
        PROVE  k \in good
    <3> SUFFICES ASSUME Running(run[k])
                 PROVE  k <= run[k].offset
      OBVIOUS
    <3>1. CASE k = 0
      BY <1>2, <3>1
    <3>2. CASE k # 0
      <4>1. k - 1 \in D /\ m[k - 1] < m[k] /\ run[k] = Turn(t, run[k - 1])
        BY <1>4, <3>2
      <4>2. Running(run[k - 1]) => k - 1 <= run[k - 1].offset
        BY <2>1, <4>1
      <4>3. Running(run[k - 1]) /\ run[k] = LexStep(t, run[k - 1])
        BY <4>1 DEF Turn
      <4>4. Sound(t, run[k - 1])
        BY <1>1, <4>1
      <4>5. run[k - 1].offset < run[k].offset
        BY <4>3, <4>4, StepAdvances
      <4>6. run[k].offset \in Nat /\ run[k - 1].offset \in Nat /\ k \in Nat
        BY <1>0, <1>2, <4>1
      <4> QED BY <4>2, <4>3, <4>5, <4>6
    <3> QED BY <3>1, <3>2
  <2> HIDE DEF good, D, m
  <2>2. D \subseteq good
    BY <1>3, <2>1, MeasureInduction
  <2> QED BY <2>2 DEF good
<1>6. ~ Running(run[n + 1])
  <2>1. n + 1 \in D
    BY <1>0
  <2>2. Running(run[n + 1]) => n + 1 <= run[n + 1].offset
    BY <1>5, <2>1
  <2>3. run[n + 1].offset \in Nat /\ run[n + 1].offset <= n
    BY <1>2, <2>1
  <2> QED BY <1>0, <2>2, <2>3
<1>7. ASSUME NEW k \in D, ~ Running(run[k])
      PROVE  \A j \in k .. n + 1 : run[j] = run[k]
  <2> DEFINE good == { j \in D : k <= j => run[j] = run[k] }
  <2>1. ASSUME NEW j \in D, \A i \in D : m[i] < m[j] => i \in good
        PROVE  j \in good
    <3> SUFFICES ASSUME k <= j
                 PROVE  run[j] = run[k]
      OBVIOUS
    <3>1. CASE j = k
      BY <3>1
    <3>2. CASE j # k
      <4>1. j # 0 /\ k <= j - 1
        BY <1>0, <3>2
      <4>2. j - 1 \in D /\ m[j - 1] < m[j] /\ run[j] = Turn(t, run[j - 1])
        BY <1>4, <4>1
      <4>3. run[j - 1] = run[k]
        BY <2>1, <4>1, <4>2
      <4> QED BY <1>7, <4>2, <4>3 DEF Turn
    <3> QED BY <3>1, <3>2
  <2>2. D \subseteq good
    <3> HIDE DEF good, D, m
    <3> QED BY <1>3, <2>1, MeasureInduction
  <2>3. \A j \in k .. n + 1 : j \in D /\ k <= j
    BY <1>0
  <2> QED BY <2>2, <2>3
<1> QED BY <1>5, <1>6, <1>7 DEF run, n

\* The turns over the ending follow those over the whole text, once the whole
\* text has been read as far as its start.
LEMMA RunsFollow ==
  ASSUME NEW t, NEW u, NEW by, Ending(t, u, by), NEW base \in Seq(Nodes),
         NEW k \in Nat, k <= by,
         Follows(LexerRun(t)[k], LexerStart, base, by)
  PROVE  \A i \in 0 .. Len(u) + 1 : Follows(LexerRun(t)[k + i], LexerRun(u)[i], base, by)
<1> DEFINE n == Len(u)
           D == 0 .. n + 1
           far == LexerRun(t)
           near == LexerRun(u)
           m == [i \in D |-> i]
           good == { i \in D : Follows(far[k + i], near[i], base, by) }
<1>0. t \in Text /\ u \in Text /\ by \in Nat /\ n \in Nat /\ Len(t) = by + n
  BY DEF Ending, Text
<1>1. /\ near[0] = LexerStart
      /\ \A i \in 0 .. n : near[i + 1] = Turn(u, near[i])
      /\ \A i \in D : Sound(u, near[i])
  BY <1>0, LexerRunIs
<1>2. /\ \A j \in 0 .. Len(t) : far[j + 1] = Turn(t, far[j])
      /\ \A j \in 0 .. Len(t) + 1 : Sound(t, far[j])
  BY <1>0, LexerRunIs
<1> HIDE DEF n, far, near
<1>3. m \in [D -> Nat]
  BY <1>0
<1>4. ASSUME NEW i \in D, \A j \in D : m[j] < m[i] => j \in good
      PROVE  i \in good
  <2>1. CASE i = 0
    <3>1. k + i = k
      BY <2>1
    <3>2. Follows(far[k], LexerStart, base, by)
      BY DEF far
    <3> QED BY <1>1, <2>1, <3>1, <3>2
  <2>2. CASE i # 0
    <3> DEFINE h == i - 1
               x == far[k + h]
               y == near[h]
    <3>1. h \in D /\ h \in 0 .. n /\ m[h] < m[i] /\ i = h + 1 /\ h \in Nat
      BY <1>0, <2>2
    <3>2. Follows(x, y, base, by)
      BY <1>4, <3>1
    <3>3. k + h \in 0 .. Len(t) /\ k + h \in 0 .. Len(t) + 1 /\ k + i = (k + h) + 1
      BY <1>0, <3>1
    <3>4. far[k + i] = Turn(t, x) /\ near[i] = Turn(u, y)
      BY <1>1, <1>2, <3>1, <3>3
    <3>5. Sound(t, x) /\ Sound(u, y)
      BY <1>1, <1>2, <3>1, <3>3
    <3> HIDE DEF h, x, y
    <3>6. Running(x) <=> Running(y)
      BY <3>2 DEF Follows, Running
    <3>7. CASE Running(y)
      <4>1. Together(t, u, by, base, x, y)
        BY <3>2, <3>5, <3>6, <3>7 DEF Together
      <4>2. Follows(LexStep(t, x), LexStep(u, y), base, by)
        BY <4>1, StepFollows
      <4> QED BY <3>4, <3>6, <3>7, <4>2 DEF Turn
    <3>8. CASE ~ Running(y)
      BY <3>2, <3>4, <3>6, <3>8 DEF Turn
    <3> QED BY <3>7, <3>8
  <2> QED BY <2>1, <2>2
<1>5. D \subseteq good
  <2> HIDE DEF D, good, m
  <2> QED BY <1>3, <1>4, MeasureInduction
<1> QED BY <1>5 DEF near, far, n

\* Where the turns over both end.
LEMMA EndsFollow ==
  ASSUME NEW t, NEW u, NEW by, Ending(t, u, by), NEW base \in Seq(Nodes),
         NEW k \in Nat, k <= by,
         Follows(LexerRun(t)[k], LexerStart, base, by)
  PROVE  Follows(LexRecovering(t), LexRecovering(u), base, by)
<1> DEFINE n == Len(u)
           far == LexerRun(t)
           near == LexerRun(u)
           last == k + (n + 1)
<1>0. t \in Text /\ u \in Text /\ by \in Nat /\ n \in Nat /\ Len(t) = by + n
  BY DEF Ending, Text
<1>1. n + 1 \in 0 .. n + 1 /\ last \in 0 .. Len(t) + 1 /\ Len(t) + 1 \in last .. Len(t) + 1
  BY <1>0
<1>2. Follows(far[last], near[n + 1], base, by)
  BY <1>1, RunsFollow
<1>3. ~ Running(near[n + 1]) /\ near[n + 1] = LexRecovering(u)
  BY <1>0, LexerRunIs, LexerRunEnds
<1>4. far[Len(t) + 1] = LexRecovering(t)
  BY <1>0, LexerRunIs
<1>5. \A i \in 0 .. Len(t) + 1 : \A j \in i .. Len(t) + 1 : ~ Running(far[i]) => far[j] = far[i]
  BY <1>0, LexerRunEnds
<1> HIDE DEF last, far, near
<1>6. ~ Running(far[last])
  BY <1>2, <1>3 DEF Follows, Running
<1>7. far[Len(t) + 1] = far[last]
  BY <1>1, <1>5, <1>6
<1> QED BY <1>2, <1>3, <1>4, <1>7

\* What is compared of a stream: its tokens, not the root.
Tokens(stream, by) ==
  [i \in 1 .. Len(stream) - 1 |->
     <<stream[i + 1].kind, stream[i + 1].spelling, stream[i + 1].depth,
       stream[i + 1].from + by, stream[i + 1].to + by, stream[i + 1].open>>]

LEMMA TokensContinue ==
  ASSUME NEW s \in Seq(Nodes), NEW r \in Seq(Nodes), NEW base \in Seq(Nodes), NEW by \in Nat,
         Continues(s, r, base, by)
  PROVE  Tokens(s, 0) = Tokens(base, 0) \o Tokens(r, by)
<1> DEFINE m == Len(base)
           n == Len(r)
           a == Tokens(base, 0)
           b == Tokens(r, by)
           token(stream, i, d) ==
             <<stream[i].kind, stream[i].spelling, stream[i].depth,
               stream[i].from + d, stream[i].to + d, stream[i].open>>
<1>0. m \in Nat /\ n \in Nat /\ m > 0 /\ n > 0 /\ Len(s) = m - 1 + n
  BY DEF Continues
<1>1. /\ a = [i \in 1 .. m - 1 |-> token(base, i + 1, 0)]
      /\ b = [i \in 1 .. n - 1 |-> token(r, i + 1, by)]
      /\ Tokens(s, 0) = [i \in 1 .. m + n - 2 |-> token(s, i + 1, 0)]
  <2>1. Len(s) - 1 = m + n - 2
    BY <1>0
  <2> QED BY <2>1 DEF Tokens
<1>2. /\ m - 1 \in Nat /\ n - 1 \in Nat /\ (m - 1) + (n - 1) = m + n - 2
  BY <1>0
<1> HIDE DEF m, n
<1>3. a \o b = [i \in 1 .. m + n - 2 |->
                  IF i <= m - 1 THEN token(base, i + 1, 0) ELSE token(r, i - (m - 1) + 1, by)]
  <2> HIDE DEF a, b, token
  <2>1. DOMAIN a = 1 .. m - 1 /\ DOMAIN b = 1 .. n - 1
    BY <1>1
  <2>2. Len(a) = m - 1 /\ Len(b) = n - 1
    BY <1>2, <2>1
  <2>3. a \o b = [i \in 1 .. (m - 1) + (n - 1) |-> IF i <= m - 1 THEN a[i] ELSE b[i - (m - 1)]]
    BY <1>1, <1>2, <2>2
  <2> QED BY <1>1, <1>2, <2>3
<1>4. ASSUME NEW i \in 1 .. m + n - 2
      PROVE  token(s, i + 1, 0)
               = IF i <= m - 1 THEN token(base, i + 1, 0) ELSE token(r, i - (m - 1) + 1, by)
  <2>1. CASE i <= m - 1
    <3> DEFINE k == i + 1
    <3>1. k \in 2 .. m /\ k \in 1 .. Len(s)
      BY <1>0, <2>1
    <3>2. SameToken(s[k], base[k], 0)
      BY <3>1 DEF Continues, m
    <3>3. s[k] \in Nodes /\ base[k] \in Nodes
      BY <3>1 DEF m
    <3> HIDE DEF k
    <3>4. token(s, k, 0) = token(base, k, 0)
      BY <3>2, <3>3, NodeFields DEF SameToken
    <3> HIDE DEF token
    <3> QED BY <2>1, <3>4 DEF k
  <2>2. CASE ~ (i <= m - 1)
    <3> DEFINE k == i - (m - 1) + 1
    <3>1. k \in 2 .. n /\ m - 1 + k \in 1 .. Len(s) /\ m - 1 + k = i + 1
      BY <1>0, <2>2
    <3>2. SameToken(s[m - 1 + k], r[k], by)
      BY <3>1 DEF Continues, m, n
    <3>3. s[i + 1] \in Nodes /\ r[k] \in Nodes /\ SameToken(s[i + 1], r[k], by)
      BY <3>1, <3>2 DEF n
    <3> HIDE DEF k
    <3>4. token(s, i + 1, 0) = token(r, k, by)
      BY <3>3, NodeFields DEF SameToken
    <3> HIDE DEF token
    <3> QED BY <2>2, <3>4 DEF k
  <2> QED BY <2>1, <2>2
<1> HIDE DEF token, a, b
<1>5. [i \in 1 .. m + n - 2 |-> token(s, i + 1, 0)]
        = [i \in 1 .. m + n - 2 |->
             IF i <= m - 1 THEN token(base, i + 1, 0) ELSE token(r, i - (m - 1) + 1, by)]
  BY <1>4
<1> QED BY <1>1, <1>3, <1>5 DEF a, b

\* With no group open, no token of the tree is.
LEMMA OutermostClosed ==
  ASSUME NEW s \in Seq(Nodes), NEW offset, Spine(s, <<>>, offset)
  PROVE  \A i \in 2 .. Len(s) : ~ s[i].open
<1> SUFFICES ASSUME NEW i \in 2 .. Len(s), s[i].open
             PROVE  FALSE
  OBVIOUS
<1>1. 1 \in OpenNodes(s) /\ i \in OpenNodes(s) /\ 1 < i /\ s[i] \in Nodes
  BY DEF Spine, OpenNodes
<1>2. s[1].depth < s[i].depth /\ s[1].depth = 0 /\ s[i].depth <= 0
  BY <1>1 DEF Spine
<1> QED BY <1>1, <1>2, NodeFields

\* Outside every group and with no quote pending, the lexer is where it would
\* start on the rest of the text.
LEMMA StartsAfresh ==
  ASSUME NEW t, NEW x, Sound(t, x), Running(x), x.groups = <<>>, ~ x.quote_next
  PROVE  Follows(x, LexerStart, x.stream, x.offset)
<1> DEFINE s == x.stream
<1>1. /\ x \in Lexers /\ x.done = FALSE /\ x.error = "none" /\ Spine(s, <<>>, x.offset)
  BY SoundRunning
<1>2. x.offset \in Nat /\ s \in Seq(Nodes) /\ x.quote_next = FALSE
  BY <1>1, LexerFields
<1>3. /\ LexerStart.offset = 0 /\ LexerStart.groups = <<>> /\ LexerStart.stream = EmptyStream
      /\ LexerStart.quote_next = FALSE /\ LexerStart.done = FALSE /\ LexerStart.error = "none"
  BY DEF LexerStart
<1>4. Len(EmptyStream) = 1
  BY DEF EmptyStream
<1> HIDE DEF s
<1>5. Len(s) \in Nat /\ Len(s) > 0
  BY <1>1, <1>2 DEF Spine
<1>6. \A i \in 2 .. Len(s) : SameToken(s[i], s[i], 0) /\ ~ s[i].open
  <2>1. \A i \in 2 .. Len(s) : s[i] \in Nodes
    BY <1>2, <1>5
  <2>2. \A i \in 2 .. Len(s) : ~ s[i].open
    BY <1>1, <1>2, OutermostClosed
  <2>3. \A i \in 2 .. Len(s) : SameToken(s[i], s[i], 0)
    BY <2>1, NodeFields DEF SameToken
  <2> QED BY <2>2, <2>3
<1>7. Continues(s, EmptyStream, s, x.offset)
  BY <1>4, <1>5, <1>6 DEF Continues
<1> DEFINE y == LexerStart
<1>8. /\ y.offset = 0 /\ y.groups = <<>> /\ y.stream = EmptyStream
      /\ y.quote_next = FALSE /\ y.done = FALSE /\ y.error = "none"
  BY <1>3
<1> HIDE DEF y
<1>9. /\ Len(x.groups) = Len(y.groups)
      /\ \A k \in 1 .. Len(y.groups) : x.groups[k].kind = y.groups[k].kind
  BY <1>8
<1>10. x.offset = x.offset + y.offset
  BY <1>2, <1>8
<1>11. Follows(x, y, s, x.offset)
  BY <1>1, <1>2, <1>7, <1>8, <1>9, <1>10 DEF Follows, s
<1> QED BY <1>11 DEF y, s

\* The rest of a text is an ending of it.
LEMMA RestEnds ==
  ASSUME NEW t \in Text, NEW at \in Nat, at <= Len(t)
  PROVE  Ending(t, SubSeq(t, at + 1, Len(t)), at)
<1> DEFINE n == Len(t)
           u == SubSeq(t, at + 1, n)
<1>1. n \in Nat /\ t \in Seq(STRING)
  BY DEF Text
<1>2. u \in Seq(STRING) /\ Len(u) = n - at /\ \A k \in 1 .. n - at : u[k] = t[at + k]
  BY <1>1
<1> HIDE DEF u
<1>3. n = at + Len(u)
  BY <1>1, <1>2
<1> QED BY <1>1, <1>2, <1>3 DEF Ending, Text, u

\* The machine takes the turns of lex_recovering.
InRun(t, x) == \E k \in 0 .. Len(t) + 1 : x = LexerRun(t)[k]

LEMMA NextIsStep ==
  ASSUME Next
  PROVE  Running(lexer) /\ lexer' = LexStep(text, lexer) /\ text' = text
<1>1. CASE EndOfInput
  BY <1>1, StepIs DEF EndOfInput, Takes
<1>2. CASE LineBreak
  BY <1>2, StepIs DEF LineBreak, Takes
<1>3. CASE Whitespace
  BY <1>3, StepIs DEF Whitespace, Takes
<1>4. CASE Identifier
  BY <1>4, StepIs DEF Identifier, Takes
<1>5. CASE StringToken
  BY <1>5, StepIs DEF StringToken, Takes
<1>6. CASE RawString
  BY <1>6, StepIs DEF RawString, Takes
<1>7. CASE QuotedBracket
  BY <1>7, StepIs DEF QuotedBracket, Takes
<1>8. CASE Punctuation
  BY <1>8, StepIs DEF Punctuation, Takes
<1>9. CASE LineComment
  BY <1>9, StepIs DEF LineComment, Takes
<1>10. CASE BlockComment
  BY <1>10, StepIs DEF BlockComment, Takes
<1>11. CASE Open
  BY <1>11, StepIs DEF Open, Takes
<1>12. CASE Close
  BY <1>12, StepIs DEF Close, Takes
<1>13. CASE Invalid
  BY <1>13, StepIs DEF Invalid, Takes
<1> QED BY <1>1, <1>2, <1>3, <1>4, <1>5, <1>6, <1>7, <1>8, <1>9, <1>10, <1>11, <1>12, <1>13
        DEF Next

LEMMA RunInvariant == IInv /\ InRun(text, lexer) /\ [Next]_vars => InRun(text, lexer)'
<1> SUFFICES ASSUME IInv, InRun(text, lexer), [Next]_vars
             PROVE  InRun(text', lexer')
  BY DEF InRun
<1>1. text \in Text /\ Sound(text, lexer) /\ Len(text) \in Nat
  BY TextsAssumption DEF IInv, Text
<1>2. CASE Next
  <2>1. Running(lexer) /\ lexer' = LexStep(text, lexer) /\ text' = text
    BY <1>2, NextIsStep
  <2>2. PICK k \in 0 .. Len(text) + 1 : lexer = LexerRun(text)[k]
    BY DEF InRun
  <2>3. k # Len(text) + 1
    BY <1>1, <2>1, <2>2, LexerRunEnds
  <2>4. k \in 0 .. Len(text) /\ k + 1 \in 0 .. Len(text) + 1
    BY <1>1, <2>3
  <2>5. LexerRun(text)[k + 1] = Turn(text, lexer)
    BY <1>1, <2>2, <2>4, LexerRunIs
  <2>6. lexer' = LexerRun(text)[k + 1]
    BY <2>1, <2>5 DEF Turn
  <2> QED BY <2>1, <2>4, <2>6 DEF InRun
<1>3. CASE UNCHANGED vars
  BY <1>3 DEF vars, InRun
<1> QED BY <1>2, <1>3

LEMMA AlwaysInRun == Spec => [](IInv /\ InRun(text, lexer))
<1>1. Init => IInv /\ InRun(text, lexer)
  <2> SUFFICES ASSUME Init
               PROVE  InRun(text, lexer)
    BY InitInvariant
  <2>1. text \in Text /\ Len(text) \in Nat /\ lexer = LexerStart
    BY TextsAssumption DEF Init, Text
  <2>2. lexer = LexerRun(text)[0] /\ 0 \in 0 .. Len(text) + 1
    BY <2>1, LexerRunIs
  <2> QED BY <2>2 DEF InRun
<1>2. IInv /\ InRun(text, lexer) /\ [Next]_vars => (IInv /\ InRun(text, lexer))'
  BY NextInvariant, RunInvariant
<1> QED BY <1>1, <1>2, PTL DEF Spec

-----------------------------------------------------------------------------
(* What holds throughout. *)

\* The types of the loop's locals, the cursor in the text and the nesting below
\* its limit, for texts of any length and any limit.
THEOREM LexerTyped == Spec => []TypeOK
<1>1. IInv => TypeOK
  BY DEF IInv, Sound, TypeOK
<1> QED BY <1>1, AlwaysSound, PTL

\* The stack of lex_recovering and the tree it builds always say the same of
\* the groups that are open, so that its assertion never fails; every group
\* left open is diagnosed, innermost first; quote_next is the parity of the
\* specifiers the tree ends in; and every symbol in front of the cursor that is
\* not layout has exactly one place in the tree, every other one none.
THEOREM LocalsAgreeWithTree == Spec => []LocalsAgree
<1>1. ASSUME IInv, Kept(text, lexer)
      PROVE  LocalsAgree
  <2>1. lexer \in Lexers /\ lexer.error # "assert"
    BY <1>1 DEF IInv, Sound
  <2>2. /\ lexer.offset \in Nat /\ lexer.groups \in Stack /\ lexer.stream \in Seq(Nodes)
    BY <2>1, LexerFields
  <2>3. StackIsSpine
    <3> SUFFICES ASSUME Running(lexer)
                 PROVE  StackIsSpine
      BY <2>1 DEF StackIsSpine
    <3>1. Spine(lexer.stream, lexer.groups, lexer.offset)
      BY <1>1 DEF IInv, Sound
    <3>2. DOMAIN lexer.groups = 1 .. Len(lexer.groups)
      BY <2>2 DEF Stack
    <3> QED BY <2>1, <2>2, <3>1, <3>2, SpineStack DEF StackIsSpine
  <2>4. UnclosedReported
    BY <1>1 DEF IInv, Sound, Reported, UnclosedReported
  <2>5. QuotingAlternates
    BY <1>1 DEF IInv, Sound, OddRun, Run, QuotingAlternates
  <2>6. CursorAgrees
    <3>1. text \in Text
      BY <1>1, TextsAssumption DEF IInv, Text
    <3> QED BY <1>1, <2>2, <3>1, CursorKept
  <2> QED BY <2>3, <2>4, <2>5, <2>6 DEF LocalsAgree, GroupsAgree
<1> QED BY <1>1, AlwaysKept, PTL

\* When the loop has returned, its locals are what LexRecovering computes: the
\* other modules, which lex a text in one step, lex it as the loop does.
THEOREM LoopIsLexRecovering == Spec => [](~ Running(lexer) => lexer = LexRecovering(text))
<1>1. ASSUME IInv, InRun(text, lexer), ~ Running(lexer)
      PROVE  lexer = LexRecovering(text)
  <2>1. text \in Text /\ Len(text) \in Nat
    BY <1>1, TextsAssumption DEF IInv, Text
  <2>2. PICK k \in 0 .. Len(text) + 1 : lexer = LexerRun(text)[k]
    BY <1>1 DEF InRun
  <2>3. Len(text) + 1 \in k .. Len(text) + 1
    BY <2>1
  <2>4. LexerRun(text)[Len(text) + 1] = LexerRun(text)[k]
    BY <1>1, <2>1, <2>2, <2>3, LexerRunEnds
  <2> QED BY <2>1, <2>2, <2>4, LexerRunIs
<1> QED BY <1>1, AlwaysInRun, PTL

\* A line break outside every group and behind no pending quote separates two
\* texts: the tokens read behind it, their depths and positions, and the error
\* that ends the reading, are those of the text behind it lexed alone.
THEOREM LexesLocally == Spec => []RestartsAtLineBreaks
<1>1. ASSUME IInv, InRun(text, lexer)
      PROVE  RestartsAtLineBreaks
  <2> DEFINE at == lexer.offset
             base == lexer.stream
             u == SubSeq(text, at + 1, Len(text))
             whole == LexRecovering(text)
             rest == LexRecovering(u)
  <2> SUFFICES ASSUME Running(lexer), lexer.groups = <<>>, ~ lexer.quote_next
               PROVE  /\ whole.error = rest.error
                      /\ Tokens(whole.stream, 0) = Tokens(base, 0) \o Tokens(rest.stream, at)
    BY DEF RestartsAtLineBreaks, Tokens
  <2>1. text \in Text /\ Sound(text, lexer) /\ Len(text) \in Nat
    BY <1>1, TextsAssumption DEF IInv, Text
  <2>2. lexer \in Lexers /\ at <= Len(text)
    BY <2>1, SoundRunning
  <2>3. at \in Nat /\ base \in Seq(Nodes)
    BY <2>2, LexerFields
  <2>4. Ending(text, u, at)
    BY <2>1, <2>2, <2>3, RestEnds
  <2>5. Follows(lexer, LexerStart, base, at)
    BY <2>1, StartsAfresh
  <2>6. PICK k \in 0 .. Len(text) + 1 : lexer = LexerRun(text)[k]
    BY <1>1 DEF InRun
  <2>7. k \in Nat /\ k <= at
    BY <2>1, <2>6, LexerRunEnds
  <2>8. Follows(LexerRun(text)[k], LexerStart, base, at)
    BY <2>5, <2>6
  <2> HIDE DEF at, base, u
  <2>9. Follows(whole, rest, base, at)
    BY <2>3, <2>4, <2>7, <2>8, EndsFollow
  <2>10. whole.stream \in Seq(Nodes) /\ rest.stream \in Seq(Nodes)
    <3>1. ASSUME NEW t \in Text
          PROVE  LexRecovering(t).stream \in Seq(Nodes)
      <4>1. Len(t) + 1 \in 0 .. Len(t) + 1
        BY DEF Text
      <4>2. Sound(t, LexRecovering(t))
        BY <4>1, LexerRunIs
      <4> QED BY <4>2, LexerFields DEF Sound
    <3>2. u \in Text
      BY <2>4 DEF Ending
    <3> QED BY <2>1, <3>1, <3>2
  <2> HIDE DEF whole, rest
  <2>11. whole.error = rest.error /\ Continues(whole.stream, rest.stream, base, at)
    BY <2>9 DEF Follows
  <2> QED BY <2>3, <2>10, <2>11, TokensContinue
<1> QED BY <1>1, AlwaysInRun, PTL

-----------------------------------------------------------------------------
(* The stream gives every symbol back once, and lines in their order: what   *)
(* each branch adds to the base of the stream and to the comments that wait. *)

\* Ranges as the pieces of which Once speaks.
AsPieces(ranges) == [k \in DOMAIN ranges |-> [from |-> ranges[k][1], to |-> ranges[k][2]]]

\* The pieces are the ranges, one by one.
LEMMA AsPiecesFacts ==
  ASSUME NEW w \in Ranges
  PROVE  /\ Len(w) \in Nat /\ DOMAIN w = 1 .. Len(w) /\ DOMAIN AsPieces(w) = 1 .. Len(w)
         /\ \A k \in 1 .. Len(w) : /\ w[k][1] \in Int /\ w[k][2] \in Int
                                   /\ AsPieces(w)[k].from = w[k][1]
                                   /\ AsPieces(w)[k].to = w[k][2]
<1>1. Len(w) \in Nat /\ DOMAIN w = 1 .. Len(w) /\ \A k \in 1 .. Len(w) : w[k] \in Int \X Int
  BY DEF Ranges
<1> QED BY <1>1 DEF AsPieces

\* What the concatenation of ranges has where.
LEMMA JoinedRanges ==
  ASSUME NEW a \in Ranges, NEW b \in Ranges
  PROVE  /\ a \o b \in Ranges /\ Len(a \o b) = Len(a) + Len(b)
         /\ Len(a) \in Nat /\ Len(b) \in Nat
         /\ \A k \in 1 .. Len(a) : (a \o b)[k] = a[k]
         /\ \A k \in 1 .. Len(b) : (a \o b)[Len(a) + k] = b[k]
<1> DEFINE S == Int \X Int
<1>1. a \in Seq(S) /\ b \in Seq(S)
  BY DEF Ranges
<1> HIDE DEF S
<1>2. /\ a \o b \in Seq(S) /\ Len(a \o b) = Len(a) + Len(b)
      /\ Len(a) \in Nat /\ Len(b) \in Nat
      /\ \A k \in 1 .. Len(a) : (a \o b)[k] = a[k]
      /\ \A k \in 1 .. Len(b) : (a \o b)[Len(a) + k] = b[k]
  <2>1. Len(a) \in Nat /\ Len(b) \in Nat
    BY <1>1
  <2>2. a \o b \in Seq(S) /\ Len(a \o b) = Len(a) + Len(b)
    BY <1>1, ConcatProperties
  <2>3. \A k \in 1 .. Len(a) + Len(b) :
          (a \o b)[k] = IF k <= Len(a) THEN a[k] ELSE b[k - Len(a)]
    BY <1>1, ConcatProperties
  <2>4. ASSUME NEW k \in 1 .. Len(a)
        PROVE  (a \o b)[k] = a[k]
    <3>1. k \in 1 .. Len(a) + Len(b) /\ k <= Len(a)
      BY <2>1
    <3> QED BY <2>3, <3>1
  <2>5. ASSUME NEW k \in 1 .. Len(b)
        PROVE  (a \o b)[Len(a) + k] = b[k]
    <3>1. /\ Len(a) + k \in 1 .. Len(a) + Len(b)
          /\ ~ (Len(a) + k <= Len(a)) /\ (Len(a) + k) - Len(a) = k
      BY <2>1
    <3> QED BY <2>3, <3>1
  <2> QED BY <2>1, <2>2, <2>4, <2>5
<1> QED BY <1>2 DEF Ranges, S

\* A range that is put between others.
LEMMA OnceInserted ==
  ASSUME NEW t, NEW a \in Ranges, NEW b \in Ranges, NEW from \in Nat, NEW to \in Nat,
         NEW offset \in Nat, offset <= to, Once(t, AsPieces(a \o b), offset),
         Spells(t, [from |-> from, to |-> to], offset, to)
  PROVE  Once(t, AsPieces((a \o << <<from, to>> >>) \o b), to)
<1> DEFINE r == <<from, to>>
           one == <<r>>
           old == a \o b
           new == (a \o one) \o b
           m == Len(a)
           n == Len(b)
           h == [k \in 1 .. m + n |-> IF k <= m THEN k ELSE k + 1]
<1>1. r \in Int \X Int /\ r[1] = from /\ r[2] = to /\ one \in Ranges /\ Len(one) = 1 /\ one[1] = r
  BY DEF Ranges
<1> HIDE DEF one, r
<1>2. m \in Nat /\ n \in Nat
  BY DEF Ranges
<1>3. /\ old \in Ranges /\ Len(old) = m + n
      /\ \A k \in 1 .. m : old[k] = a[k]
      /\ \A k \in 1 .. n : old[m + k] = b[k]
  BY JoinedRanges
<1>4. /\ new \in Ranges /\ Len(new) = m + 1 + n
      /\ \A k \in 1 .. m : new[k] = a[k]
      /\ new[m + 1] = r
      /\ \A k \in 1 .. n : new[m + 1 + k] = b[k]
  <2> DEFINE c == a \o one
  <2>1. /\ c \in Ranges /\ Len(c) = m + Len(one)
        /\ \A k \in 1 .. m : c[k] = a[k]
        /\ \A k \in 1 .. Len(one) : c[m + k] = one[k]
    BY <1>1, JoinedRanges
  <2>2. new = c \o b
    OBVIOUS
  <2> HIDE DEF c, m, n, new
  <2>3. Len(c) = m + 1 /\ c[m + 1] = r
    <3>1. 1 \in 1 .. Len(one)
      BY <1>1
    <3> QED BY <1>1, <1>2, <2>1, <3>1
  <2>4. /\ c \o b \in Ranges /\ Len(c \o b) = Len(c) + n
        /\ \A k \in 1 .. Len(c) : (c \o b)[k] = c[k]
        /\ \A k \in 1 .. n : (c \o b)[Len(c) + k] = b[k]
    BY <2>1, JoinedRanges DEF n
  <2>5. m + 1 \in 1 .. Len(c) /\ \A k \in 1 .. m : k \in 1 .. Len(c)
    BY <1>2, <2>3
  <2> QED BY <2>1, <2>2, <2>3, <2>4, <2>5
<1> HIDE DEF old, new, m, n
<1>5. /\ DOMAIN AsPieces(old) = 1 .. m + n
      /\ \A k \in 1 .. m + n : AsPieces(old)[k] = [from |-> old[k][1], to |-> old[k][2]]
  BY <1>3, AsPiecesFacts DEF AsPieces
<1>6. /\ DOMAIN AsPieces(new) = 1 .. m + 1 + n
      /\ \A k \in 1 .. m + 1 + n : AsPieces(new)[k] = [from |-> new[k][1], to |-> new[k][2]]
  BY <1>4, AsPiecesFacts DEF AsPieces
<1>7. ASSUME NEW k \in 1 .. m + n
      PROVE  h[k] \in 1 .. m + 1 + n /\ h[k] # m + 1 /\ new[h[k]] = old[k]
  <2>1. CASE k <= m
    BY <1>2, <1>3, <1>4, <2>1
  <2>2. CASE ~ (k <= m)
    <3> DEFINE j == k - m
    <3>1. j \in 1 .. n /\ k = m + j /\ k + 1 = m + 1 + j
      BY <1>2, <2>2
    <3> HIDE DEF j
    <3>2. old[k] = b[j] /\ new[k + 1] = b[j]
      BY <1>3, <1>4, <3>1
    <3>3. h[k] = k + 1 /\ k + 1 \in 1 .. m + 1 + n /\ k + 1 # m + 1
      BY <1>2, <2>2
    <3> QED BY <3>2, <3>3
  <2> QED BY <2>1, <2>2
<1>8. \A j, k \in 1 .. m + n : h[j] = h[k] => j = k
  BY <1>2
<1>9. ASSUME NEW k \in 1 .. m + 1 + n, k # m + 1
      PROVE  \E j \in 1 .. m + n : h[j] = k
  <2>1. CASE k <= m
    <3>1. k \in 1 .. m + n /\ h[k] = k
      BY <1>2, <2>1
    <3> QED BY <3>1
  <2>2. CASE ~ (k <= m)
    <3>1. k - 1 \in 1 .. m + n /\ ~ (k - 1 <= m) /\ (k - 1) + 1 = k
      BY <1>2, <1>9, <2>2
    <3>2. h[k - 1] = k
      BY <3>1
    <3> QED BY <3>1, <3>2
  <2> QED BY <2>1, <2>2
<1> HIDE DEF h
<1>10. m + 1 \in 1 .. m + 1 + n
  BY <1>2
<1>11. Moves(AsPieces(old), AsPieces(new), h, m + 1)
  <2>1. \A k \in 1 .. m + n : AsPieces(new)[h[k]] = AsPieces(old)[k]
    BY <1>5, <1>6, <1>7
  <2> QED BY <1>5, <1>6, <1>7, <1>8, <1>9, <1>10, <2>1 DEF Moves
<1>12. AsPieces(new)[m + 1] = [from |-> from, to |-> to]
  BY <1>1, <1>4, <1>6, <1>10
<1>13. Once(t, AsPieces(new), to)
  <2> DEFINE P == AsPieces(new)
             Q == AsPieces(old)
  <2>1. Once(t, Q, offset)
    BY DEF old
  <2>2. Moves(Q, P, h, m + 1) /\ Spells(t, P[m + 1], offset, to)
    BY <1>11, <1>12
  <2> HIDE DEF P, Q
  <2>3. Once(t, P, to)
    BY <2>1, <2>2, OneMore
  <2> QED BY <2>3 DEF P
<1> QED BY <1>13 DEF new, one, r

\* A range that is put behind the others.
LEMMA OnceAdded ==
  ASSUME NEW t, NEW w \in Ranges, NEW from \in Nat, NEW to \in Nat,
         NEW offset \in Nat, offset <= to, Once(t, AsPieces(w), offset),
         Spells(t, [from |-> from, to |-> to], offset, to)
  PROVE  Once(t, AsPieces(w \o << <<from, to>> >>), to)
<1> DEFINE one == << <<from, to>> >>
           none == <<>>
<1>1. one \in Ranges
  BY DEF Ranges
<1>2. none \in Ranges /\ w \o none = w
  BY Joined
<1>3. w \o one \in Ranges
  BY <1>1, Joined
<1>4. (w \o one) \o none = w \o one
  <2> DEFINE v == w \o one
  <2>1. v \in Ranges
    BY <1>3
  <2> HIDE DEF v
  <2>2. v \o none = v
    BY <2>1, Joined
  <2> QED BY <2>2 DEF v
<1> HIDE DEF none
<1>5. Once(t, AsPieces(w \o none), offset)
  BY <1>2
<1>6. Once(t, AsPieces((w \o one) \o none), to)
  BY <1>2, <1>5, OnceInserted
<1> HIDE DEF one
<1>7. Once(t, AsPieces(w \o one), to)
  BY <1>4, <1>6
<1> QED BY <1>7 DEF one

\* The last range grows to the cursor.
LEMMA OnceGrown ==
  ASSUME NEW t, NEW w \in Ranges, NEW v \in Ranges, Len(w) > 0, Len(v) = Len(w),
         \A k \in 1 .. Len(w) - 1 : v[k] = w[k],
         NEW to \in Nat, v[Len(w)] = <<w[Len(w)][1], to>>,
         NEW offset \in Nat, offset <= to, Once(t, AsPieces(w), offset),
         w[Len(w)][2] <= offset,
         \A p \in Solid(t) : w[Len(w)][2] < p /\ p <= to => offset < p
  PROVE  Once(t, AsPieces(v), to)
<1> DEFINE n == Len(w)
           old == AsPieces(w)
           new == AsPieces(v)
<1>1. /\ n \in Nat /\ DOMAIN old = 1 .. n /\ n \in 1 .. n
      /\ \A k \in 1 .. n : old[k] = [from |-> w[k][1], to |-> w[k][2]]
      /\ w[n][1] \in Int /\ w[n][2] \in Int
  <2>1. /\ n \in Nat /\ DOMAIN w = 1 .. n /\ DOMAIN old = 1 .. n
        /\ \A k \in 1 .. n : w[k][1] \in Int /\ w[k][2] \in Int
    BY AsPiecesFacts
  <2>2. \A k \in 1 .. n : old[k] = [from |-> w[k][1], to |-> w[k][2]]
    BY <2>1 DEF AsPieces
  <2>3. n \in 1 .. n
    BY <2>1
  <2> QED BY <2>1, <2>2, <2>3
<1>2. /\ DOMAIN new = 1 .. n
      /\ \A k \in 1 .. n : new[k] = [from |-> v[k][1], to |-> v[k][2]]
  BY AsPiecesFacts DEF AsPieces
<1>3. \A k \in 1 .. n : k # n => new[k] = old[k]
  <2>1. \A k \in 1 .. n : k # n => k \in 1 .. n - 1
    BY <1>1
  <2> QED BY <1>1, <1>2, <2>1
<1>4. /\ new[n].from = old[n].from /\ new[n].to = to /\ old[n].to = w[n][2]
  BY <1>1, <1>2
<1>5. /\ old[n].to <= to /\ old[n].to <= offset
      /\ \A p \in Solid(t) : old[n].to < p /\ p <= to => offset < p
  BY <1>1, <1>4
<1> HIDE DEF old, new, n
<1>6. Once(t, old, offset)
  BY DEF old
<1>7. n \in DOMAIN old /\ DOMAIN new = DOMAIN old /\ \A q \in DOMAIN old \ {n} : new[q] = old[q]
  BY <1>1, <1>2, <1>3
<1>8. Once(t, new, to)
  BY <1>4, <1>5, <1>6, <1>7, OneLonger
<1> QED BY <1>8 DEF new

\* SourceOrder, of ranges.
InOrder(w) == \A j, k \in 1 .. Len(w) : j < k => w[j][2] <= w[k][1]

\* A range behind all the others.
LEMMA InOrderAdded ==
  ASSUME NEW w \in Ranges, InOrder(w), NEW r \in Int \X Int,
         \A k \in 1 .. Len(w) : w[k][2] <= r[1]
  PROVE  /\ InOrder(w \o <<r>>) /\ w \o <<r>> \in Ranges /\ Len(w \o <<r>>) = Len(w) + 1
         /\ \A k \in 1 .. Len(w) : (w \o <<r>>)[k] = w[k]
         /\ (w \o <<r>>)[Len(w) + 1] = r
<1> DEFINE n == Len(w)
           v == w \o <<r>>
           S == Int \X Int
<1>0. w \in Seq(S) /\ n \in Nat
  BY DEF Ranges
<1> HIDE DEF S
<1>1. /\ v \in Seq(S) /\ Len(v) = n + 1 /\ v[n + 1] = r
      /\ \A k \in 1 .. n : v[k] = w[k]
  BY <1>0 DEF S
<1> HIDE DEF v, n
<1>2. InOrder(v)
  <2> SUFFICES ASSUME NEW j \in 1 .. n + 1, NEW k \in 1 .. n + 1, j < k
               PROVE  v[j][2] <= v[k][1]
    BY <1>1 DEF InOrder
  <2>1. j \in 1 .. n
    BY <1>0
  <2>2. CASE k = n + 1
    BY <1>1, <2>1, <2>2 DEF n
  <2>3. CASE k # n + 1
    <3>1. k \in 1 .. n
      BY <1>0, <2>3
    <3> QED BY <1>1, <2>1, <3>1 DEF InOrder, n
  <2> QED BY <2>2, <2>3
<1>3. v \in Ranges
  BY <1>1 DEF Ranges, S
<1> QED BY <1>1, <1>2, <1>3 DEF v, n

-----------------------------------------------------------------------------
(* The stream holds what was read of the text. *)

\* A line comment ends where its line does.
LEMMA LineCommentStops ==
  ASSUME NEW t \in Text, NEW from \in Nat, from <= Len(t)
  PROVE  LET to == LineCommentEnd(t, from)
         IN  /\ to \in Nat /\ from <= to /\ to <= Len(t)
             /\ to = Len(t) \/ t[to + 1] = "NL"
<1> DEFINE S == { e \in Nat : t[e + 1] = "NL" }
<1>0. Len(t) \in Nat
  BY DEF Text
<1>1. \E e \in from .. Len(t) :
        /\ e = Len(t) \/ t[e + 1] = "NL"
        /\ \A d \in from .. e - 1 : ~ (t[d + 1] = "NL")
  <2>1. PICK e \in from .. Len(t) : (e = Len(t) \/ e \in S) /\ \A d \in from .. e - 1 : d \notin S
    BY <1>0, FirstIn
  <2>2. \A d \in from .. e - 1 : t[d + 1] # "NL"
    BY <2>1
  <2> QED BY <2>1, <2>2
<1>2. /\ LineCommentEnd(t, from) \in from .. Len(t)
      /\ LineCommentEnd(t, from) = Len(t) \/ t[LineCommentEnd(t, from) + 1] = "NL"
  BY <1>1 DEF LineCommentEnd, FirstEnd
<1> QED BY <1>0, <1>2

\* A line starts behind the last line break.
LEMMA LineStartFacts ==
  ASSUME NEW t, NEW at \in Nat
  PROVE  /\ LineStart(t, at) \in 0 .. at
         /\ LineStart(t, at) > 0 => t[LineStart(t, at)] = "NL"
         /\ \A i \in 1 .. at : t[i] = "NL" => i <= LineStart(t, at)
<1> DEFINE S == {0} \cup { i \in 1 .. at : t[i] = "NL" }
<1>1. S \subseteq 0 .. at /\ S # {}
  OBVIOUS
<1>2. LargestOf(S) \in S /\ \A j \in S : j <= LargestOf(S)
  <2> HIDE DEF S
  <2> QED BY <1>1, LargestIn
<1>3. LineStart(t, at) = LargestOf(S)
  BY DEF LineStart
<1> DEFINE m == LargestOf(S)
<1>4. m \in S /\ \A j \in S : j <= m
  BY <1>2
<1> HIDE DEF m
<1>5. \A i \in 1 .. at : t[i] = "NL" => i \in S
  OBVIOUS
<1>6. m \in 0 .. at /\ (m > 0 => t[m] = "NL")
  BY <1>4
<1> QED BY <1>3, <1>4, <1>5, <1>6 DEF m

\* All that a stream gives back.
Whole(stream) == Base(stream) \o Pending(stream)

\* A text with line comments only.
LinesOnly(t) == \A p \in DOMAIN t : t[p] # "BO"

\* Where a token or a line comment can end: with a symbol of its own, or with
\* its line.
EndsWell(t, e) == e = Len(t) \/ t[e + 1] = "NL" \/ t[e] # "SP"

\* Nothing but layout between two positions.
Idle(t, a, b) == \A p \in a + 1 .. b : t[p] \in {"NL", "SP"}

\* The last comment that waits is a line comment, and nothing but layout has
\* been read since.
Waits(t, comments, offset) ==
  Len(comments) > 0 =>
    LET last == comments[Len(comments)]
    IN  /\ last.kind = "line" /\ last.to <= offset
        /\ last.to = Len(t) \/ t[last.to + 1] = "NL"
        /\ Idle(t, last.to, offset)

\* What the order of line comments rests on while the loop runs.
Abreast(t, stream, offset) ==
  /\ \A k \in 1 .. Len(Whole(stream)) :
       Whole(stream)[k][2] <= offset /\ EndsWell(t, Whole(stream)[k][2])
  /\ Waits(t, stream[Innermost(stream)].suffix, offset)

\* The stream holds what was read of the text.
Told(t, stream, offset) ==
  /\ Threaded(stream)
  /\ Once(t, AsPieces(Whole(stream)), offset)
  /\ LinesOnly(t) => InOrder(Whole(stream)) /\ Abreast(t, stream, offset)

\* It is ranges, and what Emission gives.
LEMMA WholeTyped ==
  ASSUME NEW stream, Threaded(stream)
  PROVE  /\ Whole(stream) \in Ranges /\ Len(Whole(stream)) \in Nat
         /\ \A k \in 1 .. Len(Whole(stream)) :
              Whole(stream)[k] \in Int \X Int /\ Whole(stream)[k][2] \in Int
         /\ Emission(stream) = Whole(stream)
<1>1. Base(stream) \in Ranges /\ Pending(stream) \in Ranges
  BY BaseTyped
<1>2. Whole(stream) \in Ranges
  BY <1>1, Joined DEF Whole
<1>3. Emission(stream) = Whole(stream)
  BY ThreadedEmission DEF Whole
<1> DEFINE w == Whole(stream)
<1> HIDE DEF w
<1>4. w \in Ranges => Len(w) \in Nat /\ \A k \in 1 .. Len(w) : w[k] \in Int \X Int /\ w[k][2] \in Int
  BY DEF Ranges
<1> QED BY <1>2, <1>3, <1>4 DEF w

\* The cursor passes layout.
LEMMA ToldLayout ==
  ASSUME NEW t \in Text, NEW stream, NEW offset \in Nat, Told(t, stream, offset),
         NEW to \in Nat, offset <= to, to <= Len(t), Idle(t, offset, to)
  PROVE  Told(t, stream, to)
<1>1. Threaded(stream) /\ Once(t, AsPieces(Whole(stream)), offset)
  BY DEF Told
<1>2. \A p \in Solid(t) : ~ (offset < p /\ p <= to)
  <2> SUFFICES ASSUME NEW p \in Solid(t), offset < p, p <= to
               PROVE  FALSE
    OBVIOUS
  <2>1. p \in Nat /\ t[p] \notin {"NL", "SP"}
    BY DEF Solid
  <2>2. p \in offset + 1 .. to
    BY <2>1
  <2> QED BY <2>1, <2>2 DEF Idle
<1>3. Once(t, AsPieces(Whole(stream)), to)
  BY <1>1, <1>2, OnceLayout
<1>4. ASSUME LinesOnly(t)
      PROVE  InOrder(Whole(stream)) /\ Abreast(t, stream, to)
  <2>1. InOrder(Whole(stream)) /\ Abreast(t, stream, offset)
    BY <1>4 DEF Told
  <2>2. \A k \in 1 .. Len(Whole(stream)) :
          Whole(stream)[k][2] <= to /\ EndsWell(t, Whole(stream)[k][2])
    <3>1. \A k \in 1 .. Len(Whole(stream)) : Whole(stream)[k][2] \in Int
      BY <1>1, WholeTyped
    <3> QED BY <2>1, <3>1 DEF Abreast
  <2> DEFINE c == stream[Innermost(stream)].suffix
  <2>3. c \in Seq(Spans)
    BY <1>1, ThreadedFacts, NodeFields
  <2>4. Waits(t, c, offset)
    BY <2>1 DEF Abreast
  <2> HIDE DEF c
  <2>5. Waits(t, c, to)
    <3> SUFFICES ASSUME Len(c) > 0
                 PROVE  LET last == c[Len(c)]
                        IN  /\ last.kind = "line" /\ last.to <= to
                            /\ last.to = Len(t) \/ t[last.to + 1] = "NL"
                            /\ Idle(t, last.to, to)
      BY DEF Waits
    <3> DEFINE last == c[Len(c)]
    <3>1. last.to \in Nat
      <4>1. last \in Spans
        BY <2>3
      <4> HIDE DEF last
      <4> QED BY <4>1 DEF Spans
    <3>2. /\ last.kind = "line" /\ last.to <= offset
          /\ last.to = Len(t) \/ t[last.to + 1] = "NL"
          /\ Idle(t, last.to, offset)
      BY <2>4 DEF Waits
    <3> HIDE DEF last
    <3>3. Idle(t, last.to, to)
      <4> SUFFICES ASSUME NEW p \in last.to + 1 .. to
                   PROVE  t[p] \in {"NL", "SP"}
        BY DEF Idle
      <4>1. p \in last.to + 1 .. offset \/ p \in offset + 1 .. to
        BY <3>1
      <4> QED BY <3>2, <4>1 DEF Idle
    <3> QED BY <3>1, <3>2, <3>3 DEF last
  <2> QED BY <2>1, <2>2, <2>5 DEF Abreast, c
<1> QED BY <1>1, <1>3, <1>4 DEF Told

\* What the cursor passes is given behind all that was given before, and no
\* comment waits then.
LEMMA ToldAdded ==
  ASSUME NEW t \in Text, NEW stream, NEW offset \in Nat, Told(t, stream, offset),
         NEW to \in Nat, offset < to, EndsWell(t, to),
         NEW new, Threaded(new), new[Innermost(new)].suffix = <<>>,
         Whole(new) = Whole(stream) \o << <<offset, to>> >>
  PROVE  Told(t, new, to)
<1> DEFINE w == Whole(stream)
           r == <<offset, to>>
<1>1. Threaded(stream) /\ Once(t, AsPieces(w), offset)
  BY DEF Told
<1>2. /\ w \in Ranges /\ Len(w) \in Nat
      /\ \A k \in 1 .. Len(w) : w[k] \in Int \X Int /\ w[k][2] \in Int
  BY <1>1, WholeTyped
<1>3. Spells(t, [from |-> offset, to |-> to], offset, to)
  BY DEF Spells, Covers
<1>4. Once(t, AsPieces(w \o << <<offset, to>> >>), to)
  <2> HIDE DEF w
  <2> QED BY <1>1, <1>2, <1>3, OnceAdded
<1>5. ASSUME LinesOnly(t)
      PROVE  InOrder(Whole(new)) /\ Abreast(t, new, to)
  <2>1. InOrder(w) /\ Abreast(t, stream, offset)
    BY <1>5 DEF Told
  <2>2. \A k \in 1 .. Len(w) : w[k][2] <= offset /\ EndsWell(t, w[k][2])
    BY <2>1 DEF Abreast
  <2>3. r \in Int \X Int /\ r[1] = offset /\ r[2] = to
    OBVIOUS
  <2> HIDE DEF w, r
  <2> DEFINE v == w \o <<r>>
  <2>4. /\ InOrder(v) /\ Len(v) = Len(w) + 1
        /\ \A k \in 1 .. Len(w) : v[k] = w[k]
        /\ v[Len(w) + 1] = r
    BY <1>2, <2>1, <2>2, <2>3, InOrderAdded
  <2>5. Whole(new) = v
    BY DEF v, w, r
  <2> HIDE DEF v
  <2>6. \A k \in 1 .. Len(v) : v[k][2] <= to /\ EndsWell(t, v[k][2])
    <3> SUFFICES ASSUME NEW k \in 1 .. Len(v)
                 PROVE  v[k][2] <= to /\ EndsWell(t, v[k][2])
      OBVIOUS
    <3>1. CASE k = Len(w) + 1
      BY <2>3, <2>4, <3>1
    <3>2. CASE k # Len(w) + 1
      <4>1. k \in 1 .. Len(w)
        BY <1>2, <2>4, <3>2
      <4>2. v[k] = w[k] /\ w[k][2] \in Int
        BY <1>2, <2>4, <4>1
      <4> QED BY <2>2, <4>1, <4>2
    <3> QED BY <3>1, <3>2
  <2>7. Waits(t, new[Innermost(new)].suffix, to)
    BY DEF Waits
  <2> QED BY <2>4, <2>5, <2>6, <2>7 DEF Abreast
<1> QED BY <1>4, <1>5 DEF Told

\* A comment that trails the last token of the stream, or its opening.
LEMMA TrailedOnce ==
  ASSUME NEW t, NEW stream, NEW offset \in Nat, Threaded(stream),
         Once(t, AsPieces(Whole(stream)), offset),
         NEW kind \in {"line", "block"}, NEW to \in Nat, offset <= to
  PROVE  LET new == PushTrailing(stream, Innermost(stream), Comment(kind, offset, to))
         IN  /\ Threaded(new) /\ Once(t, AsPieces(Whole(new)), to)
             /\ new[Innermost(new)].suffix = stream[Innermost(stream)].suffix
             /\ Base(new) = Base(stream) \o << <<offset, to>> >>
             /\ Pending(new) = Pending(stream)
<1> DEFINE comment == Comment(kind, offset, to)
           new == PushTrailing(stream, Innermost(stream), comment)
           r == <<offset, to>>
           a == Base(stream)
           b == Pending(stream)
<1>1. comment \in Spans /\ RangeOf(comment) = r
  BY DEF Comment, Spans, RangeOf
<1>2. Spells(t, [from |-> offset, to |-> to], offset, to)
  BY DEF Spells, Covers
<1>3. a \in Ranges /\ b \in Ranges
  BY BaseTyped
<1>4. /\ Threaded(new) /\ Innermost(new) = Innermost(stream)
      /\ new[Innermost(new)].suffix = stream[Innermost(stream)].suffix
      /\ Base(new) = a \o <<r>> /\ Pending(new) = b
  <2>1. /\ Threaded(new) /\ Innermost(new) = Innermost(stream)
        /\ new[Innermost(new)].suffix = stream[Innermost(stream)].suffix
        /\ Base(new) = a \o <<RangeOf(comment)>> /\ Pending(new) = b
    <3> HIDE DEF comment
    <3> QED BY <1>1, TrailingPushed
  <2> QED BY <1>1, <2>1
<1>5. Once(t, AsPieces(a \o b), offset)
  BY DEF Whole
<1>6. Whole(new) = (a \o <<r>>) \o b
  BY <1>4 DEF Whole
<1>7. Once(t, AsPieces((a \o << <<offset, to>> >>) \o b), to)
  <2> HIDE DEF a, b
  <2> QED BY <1>2, <1>3, <1>5, OnceInserted
<1>8. Once(t, AsPieces(Whole(new)), to)
  BY <1>6, <1>7
<1> QED BY <1>4, <1>8

\* What a comment that waits behind the others changes.
Queued(t, stream, kind, from, to) ==
  LET comments == Append(stream[Innermost(stream)].suffix, Comment(kind, from, to))
      new == [stream EXCEPT ![Innermost(stream)].suffix = comments]
  IN  /\ Threaded(new) /\ Once(t, AsPieces(Whole(new)), to)
      /\ new[Innermost(new)].suffix = comments
      /\ Whole(new) = Whole(stream) \o << <<from, to>> >>

\* A comment that waits behind the others.
LEMMA WaitingOnce ==
  ASSUME NEW t, NEW stream, NEW offset \in Nat, Threaded(stream),
         Once(t, AsPieces(Whole(stream)), offset),
         NEW kind \in {"line", "block"}, NEW from \in Nat, NEW to \in Nat, offset <= to,
         Spells(t, [from |-> from, to |-> to], offset, to)
  PROVE  Queued(t, stream, kind, from, to)
<1> DEFINE comment == Comment(kind, from, to)
           c == stream[Innermost(stream)].suffix
           comments == Append(c, comment)
           new == [stream EXCEPT ![Innermost(stream)].suffix = comments]
           r == <<from, to>>
           a == Base(stream)
           b == Pending(stream)
           one == <<r>>
<1>1. comment \in Spans /\ RangeOf(comment) = r
  BY DEF Comment, Spans, RangeOf
<1>2. a \in Ranges /\ b \in Ranges /\ c \in Comments
  <2>1. a \in Ranges /\ b \in Ranges
    BY BaseTyped
  <2>2. stream[Innermost(stream)] \in Nodes
    BY ThreadedFacts
  <2> QED BY <2>1, <2>2, FieldsOfNode
<1> HIDE DEF comment
<1>3. comments \in Comments /\ RangesOf(comments) = b \o <<RangeOf(comment)>> /\ <<RangeOf(comment)>> \in Ranges
  <2>1. b = RangesOf(c)
    BY DEF Pending
  <2> HIDE DEF c, b
  <2> QED BY <1>1, <1>2, <2>1, RangeAppended
<1>4. RangesOf(comments) = b \o one /\ one \in Ranges
  BY <1>1, <1>3
<1> HIDE DEF comments
<1>5. /\ Threaded(new) /\ new[Innermost(new)].suffix = comments
      /\ Base(new) = a /\ Pending(new) = RangesOf(comments)
  BY <1>3, SuffixReplaced
<1> HIDE DEF new, one, a, b
<1>6. Whole(new) = a \o (b \o one)
  BY <1>4, <1>5 DEF Whole
<1>7. (a \o b) \o one = a \o (b \o one)
  BY <1>2, <1>4, Associative
<1>8. Whole(stream) = a \o b
  BY DEF Whole, a, b
<1>9. Whole(new) = Whole(stream) \o one
  BY <1>6, <1>7, <1>8
<1>10. Whole(stream) \in Ranges
  BY WholeTyped
<1>11. Once(t, AsPieces(Whole(stream) \o << <<from, to>> >>), to)
  BY <1>10, OnceAdded
<1>12. Once(t, AsPieces(Whole(new)), to)
  BY <1>9, <1>11 DEF one, r
<1> QED BY <1>5, <1>9, <1>12 DEF Queued, new, comments, one, r, comment, c

\* A block comment, in a text that has one.
LEMMA ToldBlock ==
  ASSUME NEW t \in Text, ~ LinesOnly(t), NEW stream, NEW offset \in Nat, Told(t, stream, offset),
         NEW to \in Nat, offset <= to
  PROVE  Told(t, PushBlockComment(stream, offset, to), to)
<1> DEFINE g == Innermost(stream)
           comment == Comment("block", offset, to)
           comments == Append(stream[g].suffix, comment)
           waiting == [stream EXCEPT ![g].suffix = comments]
           trailing == PushTrailing(stream, g, comment)
<1>1. Threaded(stream) /\ Once(t, AsPieces(Whole(stream)), offset)
  BY DEF Told
<1>2. PushBlockComment(stream, offset, to) = waiting \/ PushBlockComment(stream, offset, to) = trailing
  BY DEF PushBlockComment
<1>3. Threaded(trailing) /\ Once(t, AsPieces(Whole(trailing)), to)
  BY <1>1, TrailedOnce
<1>4. Threaded(waiting) /\ Once(t, AsPieces(Whole(waiting)), to)
  <2>1. Spells(t, [from |-> offset, to |-> to], offset, to)
    BY DEF Spells, Covers
  <2>2. Queued(t, stream, "block", offset, to)
    BY <1>1, <2>1, WaitingOnce
  <2> QED BY <2>2 DEF Queued
<1> HIDE DEF waiting, trailing
<1> QED BY <1>2, <1>3, <1>4 DEF Told

\* The cursor is at a line comment, which ends at `to`.
AtLine(t, offset, to) ==
  /\ t \in Text /\ offset \in Nat /\ to \in Nat /\ offset < to /\ to <= Len(t)
  /\ t[offset + 1] = "LC"
  /\ to = Len(t) \/ t[to + 1] = "NL"

\* The end of a line comment is one.
LEMMA AtLineFacts ==
  ASSUME NEW t \in Text, NEW offset \in Nat, offset < Len(t), t[offset + 1] = "LC"
  PROVE  AtLine(t, offset, LineCommentEnd(t, offset))
<1> DEFINE to == LineCommentEnd(t, offset)
<1>1. to \in Nat /\ offset <= to /\ to <= Len(t) /\ (to = Len(t) \/ t[to + 1] = "NL")
  <2>1. offset <= Len(t)
    BY DEF Text
  <2> QED BY <2>1, LineCommentStops
<1> HIDE DEF to
<1>2. to # offset
  BY <1>1
<1>3. offset < to
  BY <1>1, <1>2
<1> QED BY <1>1, <1>3 DEF AtLine, to

\* What has ended well before a comment that has its line to itself has ended
\* before the line.
LEMMA EndedBefore ==
  ASSUME NEW t, NEW offset, NEW to, AtLine(t, offset, to), IsCompleteLine(t, offset),
         NEW e \in Int, e <= offset, EndsWell(t, e)
  PROVE  e <= LineStart(t, offset)
<1> DEFINE start == LineStart(t, offset)
<1>1. start \in 0 .. offset /\ \A i \in start + 1 .. offset : t[i] = "SP"
  BY LineStartFacts DEF AtLine, IsCompleteLine
<1> HIDE DEF start
<1>2. offset \in Nat /\ Len(t) \in Nat /\ offset < Len(t) /\ t[offset + 1] = "LC"
  BY DEF AtLine, Text
<1>3. SUFFICES ASSUME start < e
               PROVE  FALSE
  BY <1>1 DEF start
<1>4. t[e] = "SP"
  BY <1>1, <1>3
<1>5. t[e + 1] = "NL"
  BY <1>2, <1>4 DEF EndsWell
<1>6. CASE e = offset
  BY <1>2, <1>5, <1>6
<1>7. CASE e # offset
  <2>1. e + 1 \in start + 1 .. offset
    BY <1>1, <1>2, <1>3, <1>7
  <2> QED BY <1>1, <1>5, <2>1
<1> QED BY <1>6, <1>7

\* A comment with its line to itself stands for what the cursor passes.
LEMMA LineSpells ==
  ASSUME NEW t, NEW offset, NEW to, AtLine(t, offset, to), IsCompleteLine(t, offset)
  PROVE  LET start == LineStart(t, offset)
         IN  /\ start \in Nat /\ start <= offset
             /\ \A p \in Solid(t) : start < p => offset < p
             /\ Spells(t, [from |-> start, to |-> to], offset, to)
<1> DEFINE start == LineStart(t, offset)
<1>1. start \in 0 .. offset /\ \A i \in start + 1 .. offset : t[i] = "SP"
  BY LineStartFacts DEF AtLine, IsCompleteLine
<1> HIDE DEF start
<1>2. offset \in Nat /\ to \in Nat /\ offset < to
  BY DEF AtLine
<1>3. \A p \in Solid(t) : p \in Nat /\ t[p] # "SP"
  BY DEF Solid
<1>4. \A p \in Solid(t) : start < p => offset < p
  BY <1>1, <1>2, <1>3
<1>5. Spells(t, [from |-> start, to |-> to], offset, to)
  BY <1>1, <1>2, <1>3, <1>4 DEF Spells, Covers
<1> QED BY <1>1, <1>4, <1>5 DEF start

\* A line comment behind something on its line: none waits then, for one that
\* waits ends its line, and only layout has been read since.
LEMMA ToldTrailingLine ==
  ASSUME NEW t, NEW offset, NEW to, AtLine(t, offset, to), ~ IsCompleteLine(t, offset),
         NEW stream, Told(t, stream, offset)
  PROVE  Told(t, PushTrailing(stream, Innermost(stream), Comment("line", offset, to)), to)
<1> DEFINE new == PushTrailing(stream, Innermost(stream), Comment("line", offset, to))
           c == stream[Innermost(stream)].suffix
           a == Base(stream)
           r == << <<offset, to>> >>
<1>1. /\ t \in Text /\ offset \in Nat /\ to \in Nat /\ offset < to /\ offset < Len(t)
      /\ Len(t) \in Nat /\ t[offset + 1] = "LC" /\ EndsWell(t, to)
  BY DEF AtLine, Text, EndsWell
<1>2. Threaded(stream) /\ Once(t, AsPieces(Whole(stream)), offset)
  BY DEF Told
<1>3. /\ Threaded(new) /\ Once(t, AsPieces(Whole(new)), to)
      /\ new[Innermost(new)].suffix = c
      /\ Base(new) = a \o r /\ Pending(new) = Pending(stream)
  <2>1. offset <= to
    BY <1>1
  <2> QED BY <1>1, <1>2, <2>1, TrailedOnce
<1> HIDE DEF new
<1>4. CASE ~ LinesOnly(t)
  BY <1>3, <1>4 DEF Told, new
<1>5. CASE LinesOnly(t)
  <2>1. c \in Seq(Spans)
    BY <1>2, ThreadedFacts, NodeFields
  <2>2. Waits(t, c, offset)
    BY <1>5 DEF Told, Abreast
  <2>3. Pending(stream) = RangesOf(c)
    BY DEF Pending
  <2> HIDE DEF c
  <2>4. Len(c) = 0
    <3> SUFFICES ASSUME Len(c) > 0
                 PROVE  FALSE
      BY <2>1
    <3> DEFINE last == c[Len(c)]
               start == LineStart(t, offset)
    <3>1. last \in Spans
      BY <2>1
    <3>2. /\ last.to <= offset
          /\ last.to = Len(t) \/ t[last.to + 1] = "NL"
          /\ Idle(t, last.to, offset)
      BY <2>2 DEF Waits
    <3> HIDE DEF last
    <3>3. last.to \in Nat
      BY <3>1 DEF Spans
    <3>4. t[last.to + 1] = "NL" /\ last.to # offset
      BY <1>1, <3>2
    <3>5. last.to + 1 \in 1 .. offset
      BY <1>1, <3>2, <3>3, <3>4
    <3>6. start \in 0 .. offset /\ \A i \in 1 .. offset : t[i] = "NL" => i <= start
      BY <1>1, LineStartFacts
    <3>7. last.to + 1 <= start
      BY <3>4, <3>5, <3>6
    <3> HIDE DEF start
    <3>8. ASSUME NEW i \in start + 1 .. offset
          PROVE  t[i] = "SP"
      <4>1. i \in last.to + 1 .. offset /\ i \in 1 .. offset /\ ~ (i <= start)
        BY <1>1, <3>3, <3>6, <3>7
      <4> QED BY <3>2, <3>6, <4>1 DEF Idle
    <3> QED BY <3>8 DEF IsCompleteLine, start
  <2>5. c = <<>>
    BY <2>1, <2>4
  <2>6. Pending(stream) = <<>>
    BY <2>1, <2>3, <2>5, RangesOfFacts DEF Comments
  <2>7. a \in Ranges /\ r \in Ranges
    <3>1. a \in Ranges
      BY <1>2, BaseTyped
    <3>2. r \in Ranges
      BY <1>1 DEF Ranges
    <3> QED BY <3>1, <3>2
  <2>8. Whole(new) = (a \o r) \o <<>> /\ Whole(stream) = a \o <<>>
    BY <1>3, <2>6 DEF Whole
  <2> HIDE DEF a, r
  <2>9. a \o r \in Ranges
    BY <2>7, Joined
  <2> DEFINE ar == a \o r
  <2>10. ar \in Ranges
    BY <2>9
  <2> HIDE DEF ar
  <2>11. ar \o <<>> = ar /\ a \o <<>> = a
    BY <2>7, <2>10, Joined
  <2>12. Whole(new) = Whole(stream) \o r
    BY <2>8, <2>11 DEF ar
  <2>13. new[Innermost(new)].suffix = <<>>
    BY <1>3, <2>5
  <2>14. Told(t, new, to)
    BY <1>1, <1>3, <2>12, <2>13, ToldAdded DEF r
  <2> QED BY <2>14 DEF new
<1> QED BY <1>4, <1>5

\* A line comment with its line to itself that waits behind the others.
LEMMA ToldNewLine ==
  ASSUME NEW t, NEW offset, NEW to, AtLine(t, offset, to), IsCompleteLine(t, offset),
         NEW stream, Told(t, stream, offset)
  PROVE  LET g == Innermost(stream)
             whole == Comment("line", LineStart(t, offset), to)
         IN  Told(t, [stream EXCEPT ![g].suffix = Append(stream[g].suffix, whole)], to)
<1> DEFINE start == LineStart(t, offset)
           whole == Comment("line", start, to)
           c == stream[Innermost(stream)].suffix
           comments == Append(c, whole)
           new == [stream EXCEPT ![Innermost(stream)].suffix = comments]
           w == Whole(stream)
           r == <<start, to>>
<1>1. /\ t \in Text /\ offset \in Nat /\ to \in Nat /\ offset < to
      /\ (to = Len(t) \/ t[to + 1] = "NL") /\ EndsWell(t, to)
  BY DEF AtLine, Text, EndsWell
<1>2. Threaded(stream) /\ Once(t, AsPieces(w), offset)
  BY DEF Told
<1>3. start \in Nat /\ start <= offset /\ Spells(t, [from |-> start, to |-> to], offset, to)
  BY LineSpells
<1>4. /\ Threaded(new) /\ Once(t, AsPieces(Whole(new)), to)
      /\ new[Innermost(new)].suffix = comments
      /\ Whole(new) = w \o <<r>>
  <2>1. offset <= to /\ "line" \in {"line", "block"}
    BY <1>1
  <2>2. Queued(t, stream, "line", start, to)
    <3> HIDE DEF start
    <3> QED BY <1>1, <1>2, <1>3, <2>1, WaitingOnce
  <2> QED BY <2>2 DEF Queued
<1> HIDE DEF new
<1>5. ASSUME LinesOnly(t)
      PROVE  InOrder(Whole(new)) /\ Abreast(t, new, to)
  <2>1. /\ w \in Ranges /\ Len(w) \in Nat
        /\ \A k \in 1 .. Len(w) : w[k][2] \in Int
    BY <1>2, WholeTyped
  <2>2. InOrder(w) /\ \A k \in 1 .. Len(w) : w[k][2] <= offset /\ EndsWell(t, w[k][2])
    BY <1>5 DEF Told, Abreast
  <2> HIDE DEF w
  <2>3. \A k \in 1 .. Len(w) : w[k][2] <= start
    BY <2>1, <2>2, EndedBefore
  <2>4. r \in Int \X Int /\ r[1] = start /\ r[2] = to
    BY <1>1, <1>3
  <2> HIDE DEF r, start
  <2> DEFINE v == w \o <<r>>
  <2>5. /\ InOrder(v) /\ Len(v) = Len(w) + 1
        /\ \A k \in 1 .. Len(w) : v[k] = w[k]
        /\ v[Len(w) + 1] = r
    BY <2>1, <2>2, <2>3, <2>4, InOrderAdded
  <2>6. Whole(new) = v
    BY <1>4
  <2> HIDE DEF v
  <2>7. ASSUME NEW k \in 1 .. Len(v)
        PROVE  v[k][2] <= to /\ EndsWell(t, v[k][2])
    <3>1. CASE k = Len(w) + 1
      BY <1>1, <2>4, <2>5, <3>1
    <3>2. CASE k # Len(w) + 1
      <4>1. k \in 1 .. Len(w)
        BY <2>1, <2>5, <3>2
      <4>2. v[k] = w[k] /\ w[k][2] \in Int
        BY <2>1, <2>5, <4>1
      <4> QED BY <1>1, <2>2, <4>1, <4>2
    <3> QED BY <3>1, <3>2
  <2>8. Waits(t, comments, to)
    <3>1. c \in Seq(Spans) /\ whole \in Spans
      <4>1. c \in Seq(Spans)
        BY <1>2, ThreadedFacts, NodeFields
      <4>2. whole \in Spans
        BY <1>1, <1>3 DEF Comment, Spans
      <4> QED BY <4>1, <4>2
    <3>2. whole.kind = "line" /\ whole.to = to
      BY DEF Comment
    <3> HIDE DEF c, whole
    <3>3. comments[Len(comments)] = whole
      <4> DEFINE S == Spans
      <4>1. c \in Seq(S) /\ whole \in S
        BY <3>1
      <4> HIDE DEF S
      <4> QED BY <4>1
    <3> HIDE DEF comments
    <3>4. Idle(t, to, to)
      BY <1>1 DEF Idle
    <3> QED BY <1>1, <3>2, <3>3, <3>4 DEF Waits
  <2> QED BY <1>4, <2>5, <2>6, <2>7, <2>8 DEF Abreast
<1> QED BY <1>4, <1>5 DEF Told, new

\* A line comment with its line to itself that extends the last that waits.
LEMMA ToldLongerLine ==
  ASSUME NEW t, NEW offset, NEW to, AtLine(t, offset, to), IsCompleteLine(t, offset),
         NEW stream, Told(t, stream, offset),
         Len(stream[Innermost(stream)].suffix) > 0,
         SameBlock(t, stream[Innermost(stream)].suffix[Len(stream[Innermost(stream)].suffix)],
                   Comment("line", LineStart(t, offset), to))
  PROVE  LET g == Innermost(stream)
             n == Len(stream[g].suffix)
         IN  Told(t, [stream EXCEPT ![g].suffix = [stream[g].suffix EXCEPT ![n].to = to]], to)
<1> DEFINE start == LineStart(t, offset)
           c == stream[Innermost(stream)].suffix
           n == Len(c)
           comments == [c EXCEPT ![n].to = to]
           new == [stream EXCEPT ![Innermost(stream)].suffix = comments]
           a == Base(stream)
           b == Pending(stream)
           d == RangesOf(comments)
           m == Len(a)
<1>1. /\ t \in Text /\ offset \in Nat /\ to \in Nat /\ offset < to
      /\ (to = Len(t) \/ t[to + 1] = "NL") /\ EndsWell(t, to)
  BY DEF AtLine, Text, EndsWell
<1>2. Threaded(stream) /\ Once(t, AsPieces(a \o b), offset)
  BY DEF Told, Whole
<1>3. start \in Nat /\ start <= offset /\ \A p \in Solid(t) : start < p => offset < p
  BY LineSpells
<1>4. c \in Seq(Spans) /\ n \in Nat /\ n \in 1 .. n
  <2>1. c \in Seq(Spans)
    BY <1>2, ThreadedFacts, NodeFields
  <2> HIDE DEF c
  <2> QED BY <2>1 DEF c
<1>5. /\ c[n].kind = "line" /\ c[n].to < start /\ t[c[n].to + 1] = "NL"
      /\ \A i \in c[n].to + 2 .. start : t[i] = "SP"
  BY DEF SameBlock, Comment
<1>6. a \in Ranges /\ b \in Ranges /\ b = RangesOf(c)
  BY <1>2, BaseTyped DEF Pending
<1> HIDE DEF start, c, n
<1>7. /\ comments \in Seq(Spans) /\ Len(comments) = n
      /\ comments[n] = [c[n] EXCEPT !.to = to]
      /\ \A k \in 1 .. n - 1 : comments[k] = c[k]
  <2>1. [c[n] EXCEPT !.to = to] \in Spans
    <3>1. c[n] \in Spans
      BY <1>4 DEF n
    <3> QED BY <1>1, <3>1 DEF Spans
  <2>2. comments = [c EXCEPT ![n] = [c[n] EXCEPT !.to = to]]
    OBVIOUS
  <2> DEFINE S == Spans
             e == [c[n] EXCEPT !.to = to]
  <2>3. c \in Seq(S) /\ e \in S
    BY <1>4, <2>1
  <2> HIDE DEF S, e, comments
  <2>4. comments = [c EXCEPT ![n] = e]
    BY <2>2 DEF e
  <2>5. comments \in Seq(S) /\ Len(comments) = n /\ comments[n] = e /\ \A k \in 1 .. n - 1 : comments[k] = c[k]
    BY <1>4, <2>3, <2>4 DEF n
  <2> QED BY <2>5 DEF S, e
<1> HIDE DEF comments
<1>8. c[n].to \in Nat /\ c[n].from \in Nat /\ comments[n].kind = "line" /\ comments[n].to = to
      /\ comments[n].from = c[n].from
  <2>1. c[n] \in Spans
    BY <1>4 DEF n
  <2> QED BY <1>5, <1>7, <2>1 DEF Spans
<1>9. /\ d \in Ranges /\ Len(b) = n /\ Len(d) = n
      /\ \A k \in 1 .. n - 1 : d[k] = b[k]
      /\ b[n] = <<c[n].from, c[n].to>> /\ d[n] = <<c[n].from, to>>
  <2>1. /\ Len(b) = n /\ \A k \in 1 .. n : b[k] = <<c[k].from, c[k].to>>
    BY <1>4, <1>6, RangesOfFacts DEF Comments, n
  <2>2. d \in Ranges /\ Len(d) = n /\ \A k \in 1 .. n : d[k] = <<comments[k].from, comments[k].to>>
    BY <1>7, RangesOfFacts DEF Comments
  <2> HIDE DEF b, d
  <2>3. \A k \in 1 .. n - 1 : d[k] = b[k]
    <3>1. \A k \in 1 .. n - 1 : k \in 1 .. n
      BY <1>4
    <3> QED BY <1>7, <2>1, <2>2, <3>1
  <2>4. b[n] = <<c[n].from, c[n].to>> /\ d[n] = <<comments[n].from, comments[n].to>>
    BY <1>4, <2>1, <2>2
  <2>5. d[n] = <<c[n].from, to>>
    BY <1>8, <2>4
  <2> QED BY <2>1, <2>2, <2>3, <2>4, <2>5
<1>10. /\ Threaded(new) /\ new[Innermost(new)].suffix = comments
       /\ Whole(new) = a \o d
  <2>1. /\ Threaded(new) /\ new[Innermost(new)].suffix = comments
        /\ Base(new) = a /\ Pending(new) = d
    BY <1>2, <1>7, SuffixReplaced DEF Comments
  <2> QED BY <2>1 DEF Whole
<1>11. Whole(stream) = a \o b
  BY DEF Whole
<1> DEFINE w == a \o b
           v == a \o d
<1> HIDE DEF a, b, d, new
<1>12. /\ w \in Ranges /\ v \in Ranges /\ m \in Nat
       /\ Len(w) = m + n /\ Len(v) = m + n
       /\ w[m + n] = <<c[n].from, c[n].to>> /\ v[m + n] = <<c[n].from, to>>
       /\ \A k \in 1 .. m + n - 1 : v[k] = w[k]
  <2>1. /\ w \in Ranges /\ Len(w) = m + n /\ m \in Nat
        /\ \A k \in 1 .. m : w[k] = a[k]
        /\ \A k \in 1 .. n : w[m + k] = b[k]
    <3>1. /\ a \o b \in Ranges /\ Len(a \o b) = Len(a) + Len(b)
          /\ Len(a) \in Nat /\ Len(b) \in Nat
          /\ \A k \in 1 .. Len(a) : (a \o b)[k] = a[k]
          /\ \A k \in 1 .. Len(b) : (a \o b)[Len(a) + k] = b[k]
      BY <1>6, JoinedRanges
    <3> HIDE DEF w
    <3>2. /\ w \in Ranges /\ Len(w) = Len(a) + Len(b)
          /\ \A k \in 1 .. Len(a) : w[k] = a[k]
          /\ \A k \in 1 .. Len(b) : w[Len(a) + k] = b[k]
      BY <3>1 DEF w
    <3> QED BY <1>9, <3>1, <3>2
  <2>2. /\ v \in Ranges /\ Len(v) = m + n
        /\ \A k \in 1 .. m : v[k] = a[k]
        /\ \A k \in 1 .. n : v[m + k] = d[k]
    <3>1. /\ a \o d \in Ranges /\ Len(a \o d) = Len(a) + Len(d)
          /\ Len(a) \in Nat /\ Len(d) \in Nat
          /\ \A k \in 1 .. Len(a) : (a \o d)[k] = a[k]
          /\ \A k \in 1 .. Len(d) : (a \o d)[Len(a) + k] = d[k]
      BY <1>6, <1>9, JoinedRanges
    <3> HIDE DEF v
    <3>2. /\ v \in Ranges /\ Len(v) = Len(a) + Len(d)
          /\ \A k \in 1 .. Len(a) : v[k] = a[k]
          /\ \A k \in 1 .. Len(d) : v[Len(a) + k] = d[k]
      BY <3>1 DEF v
    <3> QED BY <1>9, <3>1, <3>2
  <2> HIDE DEF w, v, m
  <2>3. ASSUME NEW k \in 1 .. m + n - 1
        PROVE  v[k] = w[k]
    <3>1. CASE k <= m
      <4>1. k \in 1 .. m
        BY <2>1, <3>1
      <4> QED BY <2>1, <2>2, <4>1
    <3>2. CASE ~ (k <= m)
      <4> DEFINE j == k - m
      <4>1. j \in 1 .. n - 1 /\ j \in 1 .. n /\ m + j = k
        BY <1>4, <2>1, <3>2
      <4> HIDE DEF j
      <4>2. w[m + j] = b[j] /\ v[m + j] = d[j] /\ d[j] = b[j]
        BY <1>9, <2>1, <2>2, <4>1
      <4> QED BY <4>1, <4>2
    <3> QED BY <3>1, <3>2
  <2>4. w[m + n] = b[n] /\ v[m + n] = d[n]
    BY <1>4, <2>1, <2>2
  <2> QED BY <1>9, <2>1, <2>2, <2>3, <2>4
<1> DEFINE z == m + n
<1>13. /\ z \in Nat /\ z > 0 /\ z \in 1 .. z /\ Len(w) = z /\ Len(v) = z
       /\ \A k \in 1 .. z - 1 : v[k] = w[k]
       /\ w[z][1] = c[n].from /\ w[z][2] = c[n].to /\ v[z] = <<w[z][1], to>>
       /\ v[z][1] = w[z][1] /\ v[z][2] = to
  BY <1>1, <1>4, <1>8, <1>12
<1>14. w \in Ranges /\ v \in Ranges
  BY <1>12
<1> HIDE DEF w, v, z, m
<1>15. \A p \in Solid(t) : w[z][2] < p /\ p <= to => offset < p
  <2> SUFFICES ASSUME NEW p \in Solid(t), c[n].to < p, p <= to
               PROVE  offset < p
    BY <1>13
  <2>1. p \in Nat /\ t[p] # "NL" /\ t[p] # "SP"
    BY DEF Solid
  <2>2. p # c[n].to + 1 /\ p \notin c[n].to + 2 .. start
    BY <1>5, <2>1
  <2>3. start < p
    BY <1>3, <1>8, <2>1, <2>2
  <2> QED BY <1>3, <2>3
<1>16. w[z][2] <= offset
  BY <1>1, <1>3, <1>5, <1>8, <1>13
<1>17. Once(t, AsPieces(v), to)
  <2>1. Len(w) > 0 /\ Len(v) = Len(w) /\ \A k \in 1 .. Len(w) - 1 : v[k] = w[k]
    BY <1>13
  <2>2. v[Len(w)] = <<w[Len(w)][1], to>> /\ w[Len(w)][2] <= offset
    BY <1>13, <1>16
  <2>3. \A p \in Solid(t) : w[Len(w)][2] < p /\ p <= to => offset < p
    BY <1>13, <1>15
  <2>4. Once(t, AsPieces(w), offset) /\ offset <= to
    BY <1>1, <1>2 DEF w
  <2> QED BY <1>1, <1>14, <2>1, <2>2, <2>3, <2>4, OnceGrown
<1>18. ASSUME LinesOnly(t)
       PROVE  InOrder(v) /\ Abreast(t, new, to)
  <2>1. InOrder(w) /\ \A k \in 1 .. z : w[k][2] <= offset /\ EndsWell(t, w[k][2])
    BY <1>11, <1>13, <1>18 DEF Told, Abreast, w
  <2>2. \A k \in 1 .. z : w[k][2] \in Int
    BY <1>13, <1>14, AsPiecesFacts
  <2>3. \A k \in 1 .. z : k # z => k \in 1 .. z - 1 /\ v[k] = w[k]
    BY <1>13
  <2>4. \A k \in 1 .. z : v[k][1] = w[k][1]
    BY <1>13, <2>3
  <2>5. InOrder(v)
    <3> SUFFICES ASSUME NEW j \in 1 .. z, NEW k \in 1 .. z, j < k
                 PROVE  v[j][2] <= v[k][1]
      BY <1>13 DEF InOrder
    <3>1. j # z
      BY <1>13
    <3>2. w[j][2] <= w[k][1]
      BY <1>13, <2>1 DEF InOrder
    <3> QED BY <2>3, <2>4, <3>1, <3>2
  <2>6. ASSUME NEW k \in 1 .. z
        PROVE  v[k][2] <= to /\ EndsWell(t, v[k][2])
    <3>1. CASE k = z
      BY <1>1, <1>13, <3>1
    <3>2. CASE k # z
      <4>1. v[k] = w[k] /\ w[k][2] <= offset /\ EndsWell(t, w[k][2]) /\ w[k][2] \in Int
        BY <2>1, <2>2, <2>3, <3>2
      <4> QED BY <1>1, <4>1
    <3> QED BY <3>1, <3>2
  <2>7. Waits(t, comments, to)
    <3>1. Idle(t, to, to)
      BY <1>1 DEF Idle
    <3> QED BY <1>1, <1>7, <1>8, <3>1 DEF Waits
  <2>8. Whole(new) = v
    BY <1>10 DEF v
  <2> QED BY <1>10, <1>13, <2>5, <2>6, <2>7, <2>8 DEF Abreast
<1>19. Told(t, new, to)
  BY <1>10, <1>17, <1>18 DEF Told, v
<1> QED BY <1>19 DEF new, comments, n, c

\* A line comment, wherever it goes.
LEMMA ToldLine ==
  ASSUME NEW t \in Text, NEW offset \in Nat, offset < Len(t), t[offset + 1] = "LC",
         NEW stream, Told(t, stream, offset)
  PROVE  LET to == LineCommentEnd(t, offset)
         IN  Told(t, PushLineComment(stream, t, offset, to), to)
<1> DEFINE to == LineCommentEnd(t, offset)
           g == Innermost(stream)
           whole == Comment("line", LineStart(t, offset), to)
           c == stream[g].suffix
           n == Len(c)
           new == PushLineComment(stream, t, offset, to)
<1>1. AtLine(t, offset, to)
  BY AtLineFacts
<1>0. whole.to = to
  BY DEF Comment
<1> HIDE DEF to
<1>2. CASE ~ IsCompleteLine(t, offset)
  <2>1. new = PushTrailing(stream, g, Comment("line", offset, to))
    BY <1>2 DEF PushLineComment
  <2> QED BY <1>1, <1>2, <2>1, ToldTrailingLine DEF to
<1>3. CASE IsCompleteLine(t, offset) /\ n > 0 /\ SameBlock(t, c[n], whole)
  <2>1. new = [stream EXCEPT ![g].suffix = [c EXCEPT ![n].to = to]]
    BY <1>0, <1>3 DEF PushLineComment, ExtendBlock
  <2>2. Told(t, [stream EXCEPT ![g].suffix = [c EXCEPT ![n].to = to]], to)
    BY <1>1, <1>3, ToldLongerLine
  <2> QED BY <2>1, <2>2 DEF to
<1>4. CASE IsCompleteLine(t, offset) /\ ~ (n > 0 /\ SameBlock(t, c[n], whole))
  <2>1. new = [stream EXCEPT ![g].suffix = Append(c, whole)]
    BY <1>4 DEF PushLineComment, ExtendBlock
  <2>2. Told(t, [stream EXCEPT ![g].suffix = Append(c, whole)], to)
    BY <1>1, <1>4, ToldNewLine
  <2> QED BY <2>1, <2>2 DEF to
<1> QED BY <1>2, <1>3, <1>4

-----------------------------------------------------------------------------
(* Where tokens end well. *)

\* An identifier ends with a symbol of a word.
LEMMA WordEndsWell ==
  ASSUME NEW t \in Text, NEW from \in Nat, from < Len(t), t[from + 1] \in Words
  PROVE  EndsWell(t, WordEnd(t, from))
<1> DEFINE S == { e \in Nat : t[e + 1] \notin Words }
           to == WordEnd(t, from)
<1>0. Len(t) \in Nat /\ from <= Len(t)
  BY DEF Text
<1> HIDE DEF S
<1>1. \E e \in from .. Len(t) :
        /\ e = Len(t) \/ t[e + 1] \notin Words
        /\ \A d \in from .. e - 1 : ~ (t[d + 1] \notin Words)
  <2>1. PICK e \in from .. Len(t) : (e = Len(t) \/ e \in S) /\ \A d \in from .. e - 1 : d \notin S
    BY <1>0, FirstIn
  <2>2. \A d \in from .. e - 1 : ~ (t[d + 1] \notin Words)
    BY <2>1 DEF S
  <2>3. e = Len(t) \/ t[e + 1] \notin Words
    BY <2>1 DEF S
  <2> QED BY <2>2, <2>3
<1>2. /\ to \in from .. Len(t)
      /\ \A d \in from .. to - 1 : ~ (t[d + 1] \notin Words)
  BY <1>1 DEF WordEnd, FirstEnd
<1>3. from < to
  BY <1>0, <1>2, WordEndFacts
<1> HIDE DEF to
<1>4. to - 1 \in from .. to - 1 /\ (to - 1) + 1 = to
  BY <1>2, <1>3
<1>5. t[to] \in Words
  BY <1>2, <1>4
<1>6. "SP" \notin Words
  BY DEF Words, Keywords, QuoteSpecifiers
<1> QED BY <1>5, <1>6 DEF EndsWell, to

\* A string that is closed ends with a quote, another one with the text.
LEMMA StringEndsWell ==
  ASSUME NEW t \in Text, NEW from \in Nat, from < Len(t),
         StringScan(t, from).status # "bad_escape"
  PROVE  EndsWell(t, StringScan(t, from).to)
<1> DEFINE n == Len(t)
           D == 0 .. n + 1
           m == [i \in D |-> n + 1 - i]
           scan == StringRun(t)
<1>0. n \in Nat
  BY DEF Text
<1> HIDE DEF scan
<1>8. StringScan(t, from) = scan[from + 1]
  BY StringRunIs DEF scan
<1>9. \A i \in D :
             /\ i >= n => scan[i] = [status |-> "unterminated", to |-> n]
             /\ i < n /\ t[i + 1] = "QT" => scan[i] = [status |-> "closed", to |-> i + 1]
             /\ i < n /\ t[i + 1] = "BS" =>
                  scan[i] = IF i + 1 = n THEN [status |-> "unterminated", to |-> n]
                            ELSE IF t[i + 2] \in {"QT", "BS"} THEN scan[i + 2]
                            ELSE [status |-> "bad_escape", to |-> i + 2]
             /\ i < n /\ t[i + 1] \notin {"QT", "BS"} => scan[i] = scan[i + 1]
  BY StringRunIs DEF scan
<1>a. EndsWell(t, n)
  BY DEF EndsWell
<1> HIDE DEF n
<1> DEFINE good == { i \in D : scan[i].status # "bad_escape" => EndsWell(t, scan[i].to) }
<1>10. ASSUME NEW i \in D, \A k \in D : m[k] < m[i] => k \in good
       PROVE  i \in good
  <2>0. i \in Nat
    BY <1>0
  <2>1. CASE i >= n
    <3>1. scan[i] = [status |-> "unterminated", to |-> n]
      BY <1>9, <2>1
    <3> QED BY <1>a, <3>1
  <2>2. CASE i < n /\ t[i + 1] = "QT"
    <3>1. scan[i] = [status |-> "closed", to |-> i + 1]
      BY <1>9, <2>2
    <3>2. EndsWell(t, i + 1)
      BY <2>2 DEF EndsWell
    <3> QED BY <3>1, <3>2
  <2>3. CASE i < n /\ t[i + 1] = "BS" /\ i + 1 = n
    <3>1. scan[i] = [status |-> "unterminated", to |-> n]
      BY <1>9, <2>3
    <3> QED BY <1>a, <3>1
  <2>4. CASE i < n /\ t[i + 1] = "BS" /\ i + 1 # n /\ t[i + 2] \in {"QT", "BS"}
    <3>1. scan[i] = scan[i + 2]
      BY <1>9, <2>4
    <3>2. i + 2 \in D /\ m[i + 2] < m[i]
      BY <1>0, <2>0, <2>4
    <3>3. i + 2 \in good
      BY <1>10, <3>2
    <3> QED BY <3>1, <3>3
  <2>5. CASE i < n /\ t[i + 1] = "BS" /\ i + 1 # n /\ t[i + 2] \notin {"QT", "BS"}
    <3>1. scan[i] = [status |-> "bad_escape", to |-> i + 2]
      BY <1>9, <2>5
    <3> QED BY <3>1
  <2>6. CASE i < n /\ t[i + 1] # "QT" /\ t[i + 1] # "BS"
    <3>1. scan[i] = scan[i + 1]
      BY <1>9, <2>6
    <3>2. i + 1 \in D /\ m[i + 1] < m[i]
      BY <1>0, <2>0, <2>6
    <3>3. i + 1 \in good
      BY <1>10, <3>2
    <3> QED BY <3>1, <3>3
  <2> QED BY <1>0, <2>0, <2>1, <2>2, <2>3, <2>4, <2>5, <2>6
<1>11. D \subseteq good
  <2>1. m \in [D -> Nat]
    BY <1>0
  <2> HIDE DEF D, good, m
  <2> QED BY <1>10, <2>1, MeasureInduction
<1>12. from + 1 \in D
  BY <1>0 DEF n
<1>13. from + 1 \in good
  BY <1>11, <1>12
<1> QED BY <1>8, <1>13

\* A raw string that is closed ends with a slash, another one with the text.
LEMMA RawEndsWell ==
  ASSUME NEW t \in Text, NEW from \in Nat, from <= Len(t), SlashRun(t, from) >= 3
  PROVE  EndsWell(t, RawStringScan(t, from).to)
<1> DEFINE n == Len(t)
           D == 0 .. n
           r(i) == SlashRun(t, i)
           m == [i \in D |-> n - i]
           scan == RawRun(t)
<1>0. n \in Nat
  BY DEF Text
<1>a. \A i \in D : r(i) \in 0 .. 4 /\ i + r(i) <= n
  BY SlashRunFacts
<1>b. EndsWell(t, n)
  BY DEF EndsWell
<1>c. \A i \in D : r(i) = 3 => EndsWell(t, i + 3)
  <2> SUFFICES ASSUME NEW i \in D, r(i) = 3
               PROVE  EndsWell(t, i + 3)
    OBVIOUS
  <2>1. i + 2 \in i .. i + r(i) - 1 /\ (i + 2) + 1 = i + 3
    BY <1>0
  <2>2. i \in Nat /\ i <= Len(t)
    BY <1>0
  <2>3. t[(i + 2) + 1] = "/"
    <3> HIDE DEF n
    <3> QED BY <2>1, <2>2, RunOfSlashes
  <2> QED BY <2>1, <2>3 DEF EndsWell
<1> HIDE DEF scan
<1>8. RawStringScan(t, from) = scan[from + 3]
  BY RawRunIs DEF scan
<1>9. \A i \in D :
             /\ i = n => scan[i] = [status |-> "unterminated", to |-> n]
             /\ i # n /\ r(i) = 3 => scan[i] = [status |-> "closed", to |-> i + 3]
             /\ i # n /\ r(i) \in {2, 4} => scan[i] = scan[i + 2]
             /\ i # n /\ r(i) \notin {2, 3, 4} => scan[i] = scan[i + 1]
  BY RawRunIs DEF scan
<1> HIDE DEF n, r
<1> DEFINE good == { i \in D : EndsWell(t, scan[i].to) }
<1>10. ASSUME NEW i \in D, \A k \in D : m[k] < m[i] => k \in good
       PROVE  i \in good
  <2>0. i \in Nat /\ r(i) \in 0 .. 4 /\ i + r(i) <= n /\ i <= n
    BY <1>0, <1>a
  <2>1. CASE i = n
    <3>1. scan[i] = [status |-> "unterminated", to |-> n]
      BY <1>9, <2>1
    <3> QED BY <1>b, <3>1
  <2>2. CASE i # n /\ r(i) = 3
    <3>1. scan[i] = [status |-> "closed", to |-> i + 3]
      BY <1>9, <2>2
    <3> QED BY <1>c, <2>2, <3>1
  <2>3. CASE i # n /\ r(i) \in {2, 4}
    <3>1. scan[i] = scan[i + 2]
      BY <1>9, <2>3
    <3>2. i + 2 \in D /\ m[i + 2] < m[i]
      BY <1>0, <2>0, <2>3
    <3>3. i + 2 \in good
      BY <1>10, <3>2
    <3> QED BY <3>1, <3>3
  <2>4. CASE i # n /\ r(i) \notin {2, 3, 4}
    <3>1. scan[i] = scan[i + 1]
      BY <1>9, <2>4
    <3>2. i + 1 \in D /\ m[i + 1] < m[i]
      BY <1>0, <2>0, <2>4
    <3>3. i + 1 \in good
      BY <1>10, <3>2
    <3> QED BY <3>1, <3>3
  <2> QED BY <2>1, <2>2, <2>3, <2>4
<1>11. D \subseteq good
  <2>1. m \in [D -> Nat]
    BY <1>0
  <2> HIDE DEF D, good, m
  <2> QED BY <1>10, <2>1, MeasureInduction
<1>12. from + 3 \in D
  BY <1>0, <1>a DEF n, r
<1>13. from + 3 \in good
  BY <1>11, <1>12
<1> QED BY <1>8, <1>13

-----------------------------------------------------------------------------
(* Every branch of the loop keeps it. *)

\* SymbolsKept, of a text and the locals of the loop, with what it rests on.
Gives(t, x) ==
  /\ Threaded(x.stream)
  /\ LinesOnly(t) => InOrder(Whole(x.stream))
  /\ x.error = "none" => Told(t, x.stream, x.offset)

\* Whatever the branch, it is enough to have the stream told.
LEMMA ToldGives ==
  ASSUME NEW t, NEW y, Told(t, y.stream, y.offset)
  PROVE  Gives(t, y)
BY DEF Gives, Told

\* A fatal error leaves the stream as it was.
LEMMA FatalGives ==
  ASSUME NEW t, NEW x, Gives(t, x), NEW y, y.stream = x.stream, y.error # "none"
  PROVE  Gives(t, y)
BY DEF Gives

\* While the loop runs the stream is told.
LEMMA RunningTold ==
  ASSUME NEW t, NEW x, Running(x), Gives(t, x)
  PROVE  Told(t, x.stream, x.offset) /\ Threaded(x.stream)
BY DEF Gives, Running

\* Where no comment waits, a stream gives its base.
LEMMA BareWhole ==
  ASSUME NEW stream, Threaded(stream), stream[Innermost(stream)].suffix = <<>>
  PROVE  Whole(stream) = Base(stream)
<1>1. Base(stream) \in Ranges
  BY BaseTyped
<1>2. Pending(stream) = <<>>
  <2>1. <<>> \in Comments
    BY NoRanges
  <2> DEFINE none == <<>>
  <2>2. none \in Comments /\ none = <<>>
    BY <2>1
  <2> HIDE DEF none
  <2>3. RangesOf(none) = <<>>
    BY <2>2, RangesOfFacts
  <2>4. Pending(stream) = RangesOf(none)
    BY <2>2 DEF Pending
  <2> QED BY <2>3, <2>4
<1> DEFINE a == Base(stream)
<1>3. a \in Ranges
  BY <1>1
<1>4. Whole(stream) = a \o <<>>
  BY <1>2 DEF Whole
<1> HIDE DEF a
<1>5. a \o <<>> = a
  BY <1>3, Joined
<1> QED BY <1>4, <1>5 DEF a

\* The token or opener that Emit pushes is what the cursor passes, behind all
\* that was given before.
LEMMA EmitGives ==
  ASSUME NEW t \in Text, NEW x, Sound(t, x), Running(x), Gives(t, x),
         NEW kind \in {"ident", "punct", "literal", "group"}, NEW spelling \in Spellings,
         NEW to \in Nat, x.offset < to, kind = "group" => to = x.offset + 1, EndsWell(t, to),
         NEW y, y.stream = Emit(x, kind, spelling, to).stream, y.offset = to
  PROVE  Gives(t, y)
<1> DEFINE node == Node(kind, spelling, x.offset, to)
           new == Push(x.stream, node)
           r == << <<x.offset, to>> >>
<1>1. x \in Lexers /\ Told(t, x.stream, x.offset) /\ Threaded(x.stream)
  BY SoundRunning, RunningTold
<1>2. x.offset \in Nat
  BY <1>1, LexerFields
<1>3. /\ node.kind = kind /\ node.from = x.offset /\ node.to = to
      /\ node.open = (kind \in {"root", "group"})
      /\ node.trail = <<>> /\ node.prefix = <<>> /\ node.suffix = <<>>
  BY DEF Node
<1>4. node \in Nodes
  <2>1. <<>> \in Seq(Spans)
    OBVIOUS
  <2> QED BY <1>2, <2>1 DEF Node, Nodes
<1>5. Emit(x, kind, spelling, to).stream = new
  BY <1>1 DEF Emit, Lexers
<1>6. node.kind # "root" /\ (node.open <=> node.kind = "group")
  <2>1. node.kind # "root"
    BY <1>3
  <2>2. node.open <=> node.kind = "group"
    BY <1>3
  <2> QED BY <2>1, <2>2
<1>7. OpenerOf(node) = r
  <2>1. CASE kind = "group"
    <3>1. OpenerOf(node) = << <<node.from, node.from + 1>> >>
      BY <1>3, <2>1 DEF OpenerOf
    <3> QED BY <1>3, <2>1, <3>1
  <2>2. CASE kind # "group"
    <3>1. OpenerOf(node) = << <<node.from, node.to>> >>
      BY <1>3, <1>6, <2>2 DEF OpenerOf
    <3> QED BY <1>3, <3>1
  <2> QED BY <2>1, <2>2
<1> HIDE DEF node
<1>8. /\ Threaded(new) /\ new[Innermost(new)].suffix = <<>>
      /\ Base(new) = (Base(x.stream) \o Pending(x.stream)) \o OpenerOf(node)
  BY <1>1, <1>3, <1>4, <1>6, Pushed
<1> HIDE DEF new
<1>9. Whole(new) = Whole(x.stream) \o << <<x.offset, to>> >>
  <2>1. Whole(new) = Base(new)
    BY <1>8, BareWhole
  <2> QED BY <1>7, <1>8, <2>1 DEF Whole
<1>10. Told(t, new, to)
  BY <1>1, <1>2, <1>8, <1>9, ToldAdded
<1> QED BY <1>5, <1>10, ToldGives

\* Identifiers and punctuation.
LEMMA TokensGive ==
  ASSUME NEW t \in Text, NEW x, Sound(t, x), Running(x), Gives(t, x)
  PROVE  /\ Branch(t, x) = "identifier" => Gives(t, AfterIdentifier(t, x))
         /\ Branch(t, x) \in {"punctuation", "quoted_bracket"} => Gives(t, AfterPunctuation(t, x))
<1>1. x \in Lexers
  BY SoundRunning
<1>2. x.offset \in Nat /\ x.quote_next \in BOOLEAN
  BY <1>1, LexerFields
<1>3. ASSUME Branch(t, x) = "identifier"
      PROVE  Gives(t, AfterIdentifier(t, x))
  <2> DEFINE to == WordEnd(t, x.offset)
             spelling == IdentSpelling(t, x.offset, to)
             next == Emit(x, "ident", spelling, to)
  <2>1. x.offset < Len(t) /\ t[x.offset + 1] \in Words
    <3>1. Peek(t, x.offset, 0) \in Words
      BY <1>2, <1>3, BranchFacts
    <3>2. Peek(t, x.offset, 0) # "EOF"
      BY <3>1 DEF Words, Keywords, QuoteSpecifiers
    <3> QED BY <1>2, <3>1, <3>2, PeekFacts
  <2>2. to \in Nat /\ x.offset < to /\ EndsWell(t, to)
    BY <1>2, <2>1, WordEndFacts, WordEndsWell
  <2>3. spelling \in Spellings
    BY DEF IdentSpelling, Spellings
  <2>4. AfterIdentifier(t, x).stream = next.stream /\ AfterIdentifier(t, x).offset = to
    <3> HIDE DEF to, spelling
    <3>1. next.offset = to /\ {"stream", "offset"} \subseteq DOMAIN next
      BY <1>1 DEF Emit, Lexers
    <3>2. AfterIdentifier(t, x) =
            [next EXCEPT !.quote_next = ~ x.quote_next /\ QuotesNext(next.stream)]
      BY DEF AfterIdentifier, spelling, to
    <3> HIDE DEF next
    <3> QED BY <3>1, <3>2
  <2> HIDE DEF to, spelling
  <2> QED BY <2>2, <2>3, <2>4, EmitGives
<1>4. ASSUME Branch(t, x) \in {"punctuation", "quoted_bracket"}
      PROVE  Gives(t, AfterPunctuation(t, x))
  <2> DEFINE first == Peek(t, x.offset, 0)
             to == PunctuationEnd(t, x.offset)
             next == Emit(x, "punct", first, to)
  <2>1. first \in Operators \cup Openers \cup Closers \cup {"/"}
    BY <1>2, <1>4, BranchFacts
  <2>2. first \notin {"EOF", "SP"} /\ first \in Spellings
    BY <2>1 DEF Operators, Openers, Closers, Spellings
  <2>4. to \in Nat /\ x.offset < to /\ EndsWell(t, to)
    BY <1>2, <2>2, PunctuationEndFacts DEF EndsWell
  <2>5. AfterPunctuation(t, x) = [next EXCEPT !.quote_next = FALSE]
    BY DEF AfterPunctuation
  <2> HIDE DEF first, to
  <2>6. AfterPunctuation(t, x).stream = next.stream /\ AfterPunctuation(t, x).offset = to
    <3>1. next.offset = to /\ {"stream", "offset"} \subseteq DOMAIN next
      BY <1>1 DEF Emit, Lexers
    <3> HIDE DEF next
    <3> QED BY <2>5, <3>1
  <2> QED BY <2>2, <2>4, <2>6, EmitGives
<1> QED BY <1>3, <1>4

\* A literal, unless its escape is bad.
LEMMA LiteralGives ==
  ASSUME NEW t \in Text, NEW x, Sound(t, x), Running(x), Gives(t, x), NEW scan \in Scan,
         x.offset < scan.to, scan.status # "bad_escape" => EndsWell(t, scan.to), NEW diagnosis
  PROVE  Gives(t, AfterLiteral(x, scan, diagnosis))
<1> DEFINE to == scan.to
           next == Emit(x, "literal", "", to)
           y == AfterLiteral(x, scan, diagnosis)
<1>1. x \in Lexers
  BY SoundRunning
<1>2. to \in Nat /\ scan.status \in {"closed", "unterminated", "bad_escape"}
  BY DEF Scan
<1>3. "" \in Spellings
  BY DEF Spellings
<1>4. next.offset = to /\ {"stream", "offset"} \subseteq DOMAIN next
  BY <1>1 DEF Emit, Lexers
<1>5. CASE scan.status \in {"closed", "unterminated"}
  <2>1. y.stream = next.stream /\ y.offset = next.offset
    <3>1. \/ y = [next EXCEPT !.quote_next = FALSE]
          \/ y = [[next EXCEPT !.quote_next = FALSE] EXCEPT !.diagnostics =
                    Append(@, Diagnostic(diagnosis, x.offset, scan.to))]
      BY <1>5 DEF AfterLiteral
    <3> HIDE DEF y, next
    <3> QED BY <1>4, <3>1
  <2> HIDE DEF y
  <2>2. Gives(t, y)
    <3>0. EndsWell(t, to)
      BY <1>5
    <3> HIDE DEF to
    <3>1. x.offset < to
      BY DEF to
    <3> QED BY <1>2, <1>3, <1>4, <2>1, <3>0, <3>1, EmitGives
  <2> QED BY <2>2 DEF y
<1>6. CASE scan.status = "bad_escape"
  <2>1. y = [x EXCEPT !.error = "InvalidEscape", !.offset = to]
    BY <1>6 DEF AfterLiteral
  <2>2. y.error = "InvalidEscape" /\ y.stream = x.stream
    BY <1>1, <2>1 DEF Lexers
  <2> HIDE DEF y
  <2>3. Gives(t, y)
    BY <2>2, FatalGives
  <2> QED BY <2>3 DEF y
<1> QED BY <1>2, <1>5, <1>6

\* Strings and raw strings.
LEMMA StringsGive ==
  ASSUME NEW t \in Text, NEW x, Sound(t, x), Running(x), Gives(t, x)
  PROVE  /\ Branch(t, x) = "string" => Gives(t, AfterString(t, x))
         /\ Branch(t, x) = "raw_string" => Gives(t, AfterRawString(t, x))
<1>1. x \in Lexers
  BY SoundRunning
<1>2. x.offset \in Nat /\ x.quote_next \in BOOLEAN
  BY <1>1, LexerFields
<1>3. ASSUME Branch(t, x) = "string"
      PROVE  Gives(t, AfterString(t, x))
  <2>1. Peek(t, x.offset, 0) # "EOF"
    BY <1>2, <1>3, BranchFacts
  <2>2. x.offset < Len(t)
    BY <1>2, <2>1, PeekFacts
  <2>3. StringScan(t, x.offset) \in Scan /\ x.offset < StringScan(t, x.offset).to
    BY <1>2, <2>2, StringScanFacts
  <2>4. StringScan(t, x.offset).status # "bad_escape" => EndsWell(t, StringScan(t, x.offset).to)
    BY <1>2, <2>2, StringEndsWell
  <2> QED BY <2>3, <2>4, LiteralGives DEF AfterString
<1>4. ASSUME Branch(t, x) = "raw_string"
      PROVE  Gives(t, AfterRawString(t, x))
  <2>1. Peek(t, x.offset, 0) # "EOF" /\ SlashRun(t, x.offset) >= 3
    BY <1>2, <1>4, BranchFacts
  <2>2. x.offset <= Len(t)
    BY <1>2, <2>1, PeekFacts DEF Text
  <2>3. RawStringScan(t, x.offset) \in Scan /\ x.offset < RawStringScan(t, x.offset).to
    BY <1>2, <2>1, <2>2, RawStringScanFacts
  <2>4. EndsWell(t, RawStringScan(t, x.offset).to)
    BY <1>2, <2>1, <2>2, RawEndsWell
  <2> QED BY <2>3, <2>4, LiteralGives DEF AfterRawString
<1> QED BY <1>3, <1>4

\* Comments of both kinds.
LEMMA CommentsGive ==
  ASSUME NEW t \in Text, NEW x, Sound(t, x), Running(x), Gives(t, x)
  PROVE  /\ Branch(t, x) = "line_comment" => Gives(t, AfterLineComment(t, x))
         /\ Branch(t, x) = "block_comment" => Gives(t, AfterBlockComment(t, x))
<1>1. x \in Lexers /\ Told(t, x.stream, x.offset)
  BY SoundRunning, RunningTold
<1>2. x.offset \in Nat /\ x.quote_next \in BOOLEAN /\ x.stream \in Seq(Nodes)
  BY <1>1, LexerFields
<1>3. ASSUME Branch(t, x) = "line_comment"
      PROVE  Gives(t, AfterLineComment(t, x))
  <2> DEFINE to == LineCommentEnd(t, x.offset)
             stream == PushLineComment(x.stream, t, x.offset, to)
             y == AfterLineComment(t, x)
  <2>1. Peek(t, x.offset, 0) = "LC"
    BY <1>2, <1>3, BranchFacts
  <2>2. x.offset < Len(t) /\ t[x.offset + 1] = "LC"
    BY <1>2, <2>1, PeekFacts
  <2>3. Told(t, stream, to)
    BY <1>1, <1>2, <2>2, ToldLine
  <2>4. y.stream = stream /\ y.offset = to
    BY <1>1 DEF AfterLineComment, Lexers
  <2> HIDE DEF to, y
  <2>5. Gives(t, y)
    BY <2>3, <2>4, ToldGives
  <2> QED BY <2>5 DEF y
<1>4. ASSUME Branch(t, x) = "block_comment"
      PROVE  Gives(t, AfterBlockComment(t, x))
  <2> DEFINE close == BlockCommentEnd(t, x.offset)
             to == close + 1
             stream == PushBlockComment(x.stream, x.offset, to)
             y == AfterBlockComment(t, x)
  <2>1. Peek(t, x.offset, 0) = "BO"
    BY <1>2, <1>4, BranchFacts
  <2>2. x.offset < Len(t) /\ t[x.offset + 1] = "BO"
    BY <1>2, <2>1, PeekFacts
  <2>3. ~ LinesOnly(t)
    <3>1. x.offset + 1 \in DOMAIN t
      BY <1>2, <2>2 DEF Text
    <3> QED BY <2>2, <3>1 DEF LinesOnly
  <2>4. close \in Nat /\ x.offset < close
    BY <1>2, <2>2, BlockCommentEndFacts
  <2>5. CASE close = Len(t)
    <3>1. y.error = "UnterminatedBlockComment" /\ y.stream = x.stream
      BY <1>1, <2>5 DEF AfterBlockComment, Lexers
    <3> HIDE DEF y
    <3>2. Gives(t, y)
      BY <3>1, FatalGives
    <3> QED BY <3>2 DEF y
  <2>6. CASE close # Len(t)
    <3>1. y.stream = stream /\ y.offset = to
      BY <1>1, <2>6 DEF AfterBlockComment, Lexers
    <3>2. to \in Nat /\ x.offset <= to
      BY <1>2, <2>4
    <3> HIDE DEF to, y
    <3>3. Told(t, stream, to)
      BY <1>1, <1>2, <2>3, <3>2, ToldBlock
    <3>4. Gives(t, y)
      BY <3>1, <3>3, ToldGives
    <3> QED BY <3>4 DEF y
  <2> QED BY <2>5, <2>6
<1> QED BY <1>3, <1>4

\* Openers and closers.
LEMMA DelimitersGive ==
  ASSUME NEW t \in Text, NEW x, Sound(t, x), Running(x), Gives(t, x)
  PROVE  /\ Branch(t, x) = "open" => Gives(t, AfterOpen(t, x))
         /\ Branch(t, x) = "close" => Gives(t, AfterClose(t, x))
<1>1. /\ x \in Lexers /\ x.error = "none" /\ Told(t, x.stream, x.offset) /\ Threaded(x.stream)
      /\ Spine(x.stream, x.groups, x.offset)
  BY SoundRunning, RunningTold
<1>2. /\ x.offset \in Nat /\ x.quote_next \in BOOLEAN /\ x.groups \in Stack
      /\ x.stream \in Seq(Nodes)
  BY <1>1, LexerFields
<1> DEFINE first == Peek(t, x.offset, 0)
           to == x.offset + 1
<1>3. ASSUME first \in Openers \cup Closers
      PROVE  EndsWell(t, to)
  <2>1. first # "EOF" /\ first # "SP"
    BY <1>3 DEF Openers, Closers
  <2>2. first = t[x.offset + 1]
    BY <1>2, <2>1, PeekFacts
  <2> QED BY <2>1, <2>2 DEF EndsWell
<1>4. ASSUME Branch(t, x) = "open"
      PROVE  Gives(t, AfterOpen(t, x))
  <2> DEFINE next == Emit(x, "group", first, to)
             y == AfterOpen(t, x)
  <2>1. first \in Openers
    BY <1>2, <1>4, BranchFacts
  <2>2. first \in Spellings /\ EndsWell(t, to)
    BY <1>3, <2>1 DEF Spellings
  <2> HIDE DEF first
  <2>3. CASE Len(x.groups) = MaxGroupDepth
    <3>1. y.error = "NestingLimitExceeded" /\ y.stream = x.stream
      BY <1>1, <2>3 DEF AfterOpen, Lexers
    <3> HIDE DEF y
    <3>2. Gives(t, y)
      BY <3>1, FatalGives
    <3> QED BY <3>2 DEF y
  <2>4. CASE Len(x.groups) # MaxGroupDepth
    <3>1. y = [next EXCEPT !.quote_next = FALSE,
                           !.groups = Append(@, [kind |-> first, opening_start |-> x.offset])]
      BY <2>4 DEF AfterOpen, first
    <3>2. next.offset = to /\ {"stream", "offset"} \subseteq DOMAIN next
      BY <1>1 DEF Emit, Lexers
    <3>3. y.stream = next.stream /\ y.offset = to
      <4> HIDE DEF y, next
      <4> QED BY <3>1, <3>2
    <3>4. to \in Nat /\ x.offset < to
      BY <1>2
    <3> HIDE DEF y
    <3>5. Gives(t, y)
      BY <2>2, <3>3, <3>4, EmitGives
    <3> QED BY <3>5 DEF y
  <2> QED BY <2>3, <2>4
<1>5. ASSUME Branch(t, x) = "close"
      PROVE  Gives(t, AfterClose(t, x))
  <2> DEFINE n == Len(x.groups)
             g == Innermost(x.stream)
             kind == x.groups[n].kind
             matches == n > 0 /\ Closing(kind) = first
             stream == CompleteLastGroup(x.stream, kind, to)
             closed == [x.stream EXCEPT ![g].open = FALSE, ![g].to = to]
             y == AfterClose(t, x)
  <2>1. EndsWell(t, to)
    BY <1>2, <1>3, <1>5, BranchFacts
  <2>2. CASE ~ matches
    <3>1. y = [x EXCEPT !.offset = x.offset + 1, !.error = "UnexpectedClosingDelimiter"]
      BY <1>5, <2>2, CloseIs
    <3>2. y.error = "UnexpectedClosingDelimiter" /\ y.stream = x.stream
      BY <1>1, <3>1 DEF Lexers
    <3> HIDE DEF y
    <3>3. Gives(t, y)
      BY <3>2, FatalGives
    <3> QED BY <3>3 DEF y
  <2>3. CASE matches
    <3>1. y = [x EXCEPT !.offset = x.offset + 1, !.quote_next = FALSE,
                        !.groups = SubSeq(x.groups, 1, n - 1), !.stream = stream]
      BY <1>5, <2>3, CloseIs
    <3>2. y.stream = stream /\ y.offset = to
      <4> HIDE DEF y, stream
      <4> QED BY <1>1, <3>1 DEF Lexers
    <3>3. to \in Nat /\ x.offset < to /\ n > 0 /\ n \in Nat
      BY <1>2, <2>3 DEF Stack
    <3>4. g \in 1 .. Len(x.stream) /\ g \in OpenNodes(x.stream) /\ x.stream[g].depth = n
          /\ \A j \in OpenNodes(x.stream) : j <= g
      BY <1>1, <1>2, InnermostIs
    <3>5. g # 1 /\ x.stream[g].kind = "group" /\ g \in OpenGroups(x.stream)
      BY <1>1, <3>3, <3>4 DEF Spine, OpenGroups
    <3>6. kind = x.stream[g].spelling
      <4>1. x.groups[n] = [kind |-> x.stream[g].spelling, opening_start |-> x.stream[g].from]
        <5> HIDE DEF g, n
        <5> QED BY <1>1, <3>4, <3>5 DEF Spine
      <4> QED BY <4>1
    <3>7. LargestOf(Completable(x.stream, kind)) = g
      <4>1. g \in Completable(x.stream, kind)
        BY <3>4, <3>5, <3>6 DEF Completable
      <4>2. /\ Completable(x.stream, kind) \in SUBSET Nat
            /\ \A j \in Completable(x.stream, kind) : j <= g
        BY <1>2, <3>4 DEF Completable, OpenNodes
      <4> QED BY <4>1, <4>2, LargestIs
    <3>8. stream = closed
      BY <3>7 DEF CompleteLastGroup
    <3>9. /\ Threaded(closed) /\ closed[Innermost(closed)].suffix = <<>>
          /\ Base(closed) = (Base(x.stream) \o Pending(x.stream)) \o << <<to - 1, to>> >>
      BY <1>1, <3>3, <3>5, GroupCompleted
    <3> HIDE DEF closed, stream, y
    <3>10. Whole(closed) = Whole(x.stream) \o << <<x.offset, to>> >>
      <4>1. Whole(closed) = Base(closed)
        BY <3>9, BareWhole
      <4>2. to - 1 = x.offset
        BY <1>2
      <4> QED BY <3>9, <4>1, <4>2 DEF Whole
    <3>11. Told(t, closed, to)
      BY <1>1, <1>2, <2>1, <3>3, <3>9, <3>10, ToldAdded
    <3>12. Gives(t, y)
      BY <3>2, <3>8, <3>11, ToldGives
    <3> QED BY <3>12 DEF y
  <2> QED BY <2>2, <2>3
<1> QED BY <1>4, <1>5

\* Line breaks and whitespace.
LEMMA LayoutGives ==
  ASSUME NEW t \in Text, NEW x, Sound(t, x), Running(x), Gives(t, x)
  PROVE  /\ Branch(t, x) = "line_break" => Gives(t, AfterLineBreak(t, x))
         /\ Gives(t, AfterWhitespace(t, x))
<1>1. x \in Lexers /\ x.offset <= Len(t) /\ Told(t, x.stream, x.offset)
  BY SoundRunning, RunningTold
<1>2. x.offset \in Nat /\ x.quote_next \in BOOLEAN
  BY <1>1, LexerFields
<1>3. ASSUME Branch(t, x) = "line_break"
      PROVE  Gives(t, AfterLineBreak(t, x))
  <2> DEFINE y == AfterLineBreak(t, x)
             to == x.offset + 1
  <2>1. Peek(t, x.offset, 0) = "NL"
    BY <1>2, <1>3, BranchFacts
  <2>2. t[to] = "NL" /\ to <= Len(t)
    BY <1>2, <2>1, PeekFacts
  <2>3. y.stream = x.stream /\ y.offset = to
    BY <1>1 DEF AfterLineBreak, Lexers
  <2>4. Idle(t, x.offset, to)
    <3>1. \A p \in x.offset + 1 .. to : p = to
      BY <1>2
    <3> QED BY <2>2, <3>1 DEF Idle
  <2>5. to \in Nat /\ x.offset <= to
    BY <1>2
  <2> HIDE DEF y, to
  <2>6. Told(t, x.stream, to)
    BY <1>1, <1>2, <2>2, <2>4, <2>5, ToldLayout
  <2>7. Gives(t, y)
    BY <2>3, <2>6, ToldGives
  <2> QED BY <2>7 DEF y
<1>4. Gives(t, AfterWhitespace(t, x))
  <2> DEFINE y == AfterWhitespace(t, x)
             to == LayoutEnd(t, x.offset)
  <2>1. /\ to \in Nat /\ x.offset <= to /\ to <= Len(t)
        /\ \A d \in x.offset .. to - 1 : t[d + 1] = "SP"
    BY <1>1, <1>2, LayoutEndFacts
  <2>2. y.stream = x.stream /\ y.offset = to
    BY <1>1 DEF AfterWhitespace, Lexers
  <2> HIDE DEF y, to
  <2>3. Idle(t, x.offset, to)
    <3> SUFFICES ASSUME NEW p \in x.offset + 1 .. to
                 PROVE  t[p] \in {"NL", "SP"}
      BY DEF Idle
    <3>1. p - 1 \in x.offset .. to - 1 /\ (p - 1) + 1 = p
      BY <1>2, <2>1
    <3>2. t[(p - 1) + 1] = "SP"
      BY <2>1, <3>1
    <3> QED BY <3>1, <3>2
  <2>4. Told(t, x.stream, to)
    BY <1>1, <1>2, <2>1, <2>3, ToldLayout
  <2>5. Gives(t, y)
    BY <2>2, <2>4, ToldGives
  <2> QED BY <2>5 DEF y
<1> QED BY <1>3, <1>4

\* What is left: the end of the input, and a byte no token begins with.
LEMMA EndGives ==
  ASSUME NEW t, NEW x, Sound(t, x), Running(x), Gives(t, x)
  PROVE  Gives(t, AfterEndOfInput(t, x)) /\ Gives(t, AfterInvalid(t, x))
<1>1. x \in Lexers /\ Told(t, x.stream, x.offset)
  BY SoundRunning, RunningTold
<1>2. /\ AfterEndOfInput(t, x).stream = x.stream /\ AfterEndOfInput(t, x).offset = x.offset
      /\ AfterInvalid(t, x).error = "InvalidCharacter" /\ AfterInvalid(t, x).stream = x.stream
  BY <1>1 DEF AfterEndOfInput, AfterInvalid, Lexers
<1> DEFINE y == AfterEndOfInput(t, x)
           z == AfterInvalid(t, x)
<1>3. y.stream = x.stream /\ y.offset = x.offset /\ z.error # "none" /\ z.stream = x.stream
  BY <1>2
<1> HIDE DEF y, z
<1>4. Gives(t, y)
  BY <1>1, <1>3, ToldGives
<1>5. Gives(t, z)
  BY <1>3, FatalGives
<1> QED BY <1>4, <1>5 DEF y, z

\* At the start there is the root, and nothing to give.
LEMMA StartGives ==
  ASSUME NEW t
  PROVE  Gives(t, LexerStart)
<1> DEFINE s == EmptyStream
           none == <<>>
<1>1. LexerStart.stream = s /\ LexerStart.offset = 0
  BY DEF LexerStart
<1>2. Threaded(s) /\ s[Innermost(s)].suffix = <<>> /\ Base(s) = <<>>
  BY EmptyThreaded
<1> HIDE DEF s
<1>3. Whole(s) = none
  BY <1>2, BareWhole
<1>4. Len(none) = 0 /\ none \in Ranges
  BY NoRanges, Joined
<1>5. DOMAIN AsPieces(none) = {}
  <2>1. DOMAIN none = {}
    OBVIOUS
  <2> HIDE DEF none
  <2> QED BY <2>1 DEF AsPieces
<1> HIDE DEF none
<1>6. Once(t, AsPieces(none), 0)
  <2>1. \A p \in Solid(t) : ~ (p <= 0)
    BY DEF Solid
  <2> QED BY <1>5, <2>1 DEF Once
<1>7. InOrder(none)
  BY <1>4 DEF InOrder
<1>8. Abreast(t, s, 0)
  <2>1. \A k \in 1 .. Len(none) : FALSE
    BY <1>4
  <2>2. Waits(t, s[Innermost(s)].suffix, 0)
    BY <1>2 DEF Waits
  <2> QED BY <1>3, <2>1, <2>2 DEF Abreast
<1>9. Told(t, s, 0)
  BY <1>2, <1>3, <1>6, <1>7, <1>8 DEF Told
<1> QED BY <1>1, <1>9, ToldGives

\* Every step keeps it.
LEMMA GivesInvariant == IInv /\ Gives(text, lexer) /\ [Next]_vars => Gives(text, lexer)'
<1> SUFFICES ASSUME IInv, Gives(text, lexer), [Next]_vars
             PROVE  Gives(text, lexer)'
  OBVIOUS
<1>1. text \in Text /\ Sound(text, lexer)
  BY TextsAssumption DEF IInv, Text
<1>2. ASSUME NEW branch, Takes(branch), Gives(text, lexer')
      PROVE  Gives(text, lexer)'
  BY <1>2 DEF Takes
<1>3. CASE EndOfInput
  BY <1>1, <1>2, <1>3, EndGives DEF EndOfInput, Takes
<1>4. CASE LineBreak
  BY <1>1, <1>2, <1>4, LayoutGives DEF LineBreak, Takes
<1>5. CASE Whitespace
  BY <1>1, <1>2, <1>5, LayoutGives DEF Whitespace, Takes
<1>6. CASE Identifier
  BY <1>1, <1>2, <1>6, TokensGive DEF Identifier, Takes
<1>7. CASE StringToken
  BY <1>1, <1>2, <1>7, StringsGive DEF StringToken, Takes
<1>8. CASE RawString
  BY <1>1, <1>2, <1>8, StringsGive DEF RawString, Takes
<1>9. CASE QuotedBracket
  BY <1>1, <1>2, <1>9, TokensGive DEF QuotedBracket, Takes
<1>10. CASE Punctuation
  BY <1>1, <1>2, <1>10, TokensGive DEF Punctuation, Takes
<1>11. CASE LineComment
  BY <1>1, <1>2, <1>11, CommentsGive DEF LineComment, Takes
<1>12. CASE BlockComment
  BY <1>1, <1>2, <1>12, CommentsGive DEF BlockComment, Takes
<1>13. CASE Open
  BY <1>1, <1>2, <1>13, DelimitersGive DEF Open, Takes
<1>14. CASE Close
  BY <1>1, <1>2, <1>14, DelimitersGive DEF Close, Takes
<1>15. CASE Invalid
  BY <1>1, <1>2, <1>15, EndGives DEF Invalid, Takes
<1>16. CASE UNCHANGED vars
  BY <1>16 DEF vars
<1> QED BY <1>3, <1>4, <1>5, <1>6, <1>7, <1>8, <1>9, <1>10, <1>11, <1>12, <1>13, <1>14, <1>15,
           <1>16 DEF Next

\* What the invariant says of the stream is what SymbolsKept says of it.
LEMMA GivenKept ==
  ASSUME IInv, Gives(text, lexer)
  PROVE  SymbolsKept
<1> DEFINE s == lexer.stream
           w == Whole(lexer.stream)
<1>1. text \in Text /\ lexer \in Lexers /\ lexer.offset <= Len(text)
  BY TextsAssumption DEF IInv, Sound, Text
<1>2. lexer.offset \in Nat /\ Len(text) \in Nat
  BY <1>1, LexerFields DEF Text
<1>3. Threaded(s) /\ (LinesOnly(text) => InOrder(w))
  BY DEF Gives
<1>4. w \in Ranges /\ Emission(s) = w
  BY <1>3, WholeTyped
<1>5. /\ DOMAIN w = 1 .. Len(w) /\ DOMAIN AsPieces(w) = 1 .. Len(w)
      /\ \A k \in 1 .. Len(w) : /\ AsPieces(w)[k].from = w[k][1]
                                /\ AsPieces(w)[k].to = w[k][2]
  BY <1>4, AsPiecesFacts
<1>6. EverySymbolOnce
  <2> SUFFICES ASSUME lexer.error = "none",
                      NEW p \in 1 .. lexer.offset, text[p] \notin {"NL", "SP"}
               PROVE  \E k \in DOMAIN Emission(s) :
                        /\ Emission(s)[k][1] < p /\ p <= Emission(s)[k][2]
                        /\ \A j \in DOMAIN Emission(s) \ {k} :
                             ~ (Emission(s)[j][1] < p /\ p <= Emission(s)[j][2])
    BY DEF EverySymbolOnce
  <2>1. Once(text, AsPieces(w), lexer.offset)
    BY DEF Gives, Told
  <2>2. p \in Solid(text) /\ p <= lexer.offset
    BY <1>1, <1>2 DEF Solid
  <2> HIDE DEF w
  <2>3. PICK k \in 1 .. Len(w) : /\ Covers(AsPieces(w)[k], p)
                                 /\ \A j \in 1 .. Len(w) : Covers(AsPieces(w)[j], p) => j = k
    BY <1>5, <2>1, <2>2 DEF Once
  <2>4. \A j \in 1 .. Len(w) : Covers(AsPieces(w)[j], p) <=> w[j][1] < p /\ p <= w[j][2]
    BY <1>5 DEF Covers
  <2>5. /\ k \in DOMAIN w /\ w[k][1] < p /\ p <= w[k][2]
        /\ \A j \in DOMAIN w \ {k} : ~ (w[j][1] < p /\ p <= w[j][2])
    BY <1>5, <2>3, <2>4
  <2> QED BY <1>4, <2>5
<1>7. LinesInOrder
  <2> SUFFICES ASSUME LinesOnly(text)
               PROVE  SourceOrder
    BY DEF LinesInOrder, LinesOnly
  <2> QED BY <1>3, <1>4, <1>5 DEF SourceOrder, InOrder
<1>8. SettlingKeepsOrder
  BY <1>3, ThreadedSettles, SettlingKeepsEmission DEF SettlingKeepsOrder
<1> QED BY <1>6, <1>7, <1>8 DEF SymbolsKept

\* SymbolsKept is an invariant of the recovering lexer, whatever the text:
\* what lex_recovering puts into the token stream, and what settle_trivia
\* makes of it, gives every symbol back once and in its place.
THEOREM AllSymbolsKept == Spec => []SymbolsKept
<1>1. Init => IInv /\ Gives(text, lexer)
  <2>1. Init => Gives(text, lexer)
    BY StartGives DEF Init
  <2> QED BY <2>1, InitInvariant
<1>2. IInv /\ Gives(text, lexer) /\ [Next]_vars => (IInv /\ Gives(text, lexer))'
  BY NextInvariant, GivesInvariant
<1>3. IInv /\ Gives(text, lexer) => SymbolsKept
  BY GivenKept
<1> QED BY <1>1, <1>2, <1>3, PTL DEF Spec

=============================================================================
