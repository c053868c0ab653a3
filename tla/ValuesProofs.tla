---------------------------- MODULE ValuesProofs ----------------------------
(***************************************************************************)
(* The number decoders accept exactly the numerals that fit, and never     *)
(* leave their target type, whatever the bytes, the length of the view and *)
(* the size of the type; the verdict on a list of transfer codings is the  *)
(* one that its codings call for, whatever the length of the list.         *)
(***************************************************************************)
EXTENDS Values, DecodeProofs, FiniteSetTheorems

(* The views are sequences of bytes. *)
LEMMA ViewsHold == Spec => [](in \in Seq(Byte))
<1>1. Init => in \in Seq(Byte)
  BY DEF Init
<1>2. in \in Seq(Byte) /\ [ExtendNumber \/ ExtendList]_in => (in \in Seq(Byte))'
  <2> SUFFICES ASSUME in \in Seq(Byte), ExtendNumber \/ ExtendList
               PROVE  in' \in Seq(Byte)
    OBVIOUS
  <2>1. PICK c \in DigitBytes \cup ListBytes : in' = Append(in, c)
    BY DEF ExtendNumber, ExtendList
  <2>2. c \in Byte
    BY ValuesAssumption
  <2> QED
    BY <2>1, <2>2
<1> QED
  BY <1>1, <1>2, PTL DEF Spec

(* Neither the weight nor the sum of content_length::decode and             *)
(* chunk_size::decode wraps, in whatever target type, also on the input     *)
(* that they reject.                                                        *)
THEOREM DecodersNeverWrap == Spec => []DecodeNeverWraps
<1>1. in \in Seq(Byte) => DecodeNeverWraps
  <2> SUFFICES ASSUME in \in Seq(Byte), NEW max \in Maxima
               PROVE  /\ DigitLoop(in, DecimalValue, 10, max) \in Acc(max)
                      /\ DigitLoop(in, HexValue, 16, max) \in Acc(max)
    BY DEF DecodeNeverWraps, Acc
  <2>1. max \in Nat \ {0}
    BY ValuesAssumption
  <2> QED
    BY <2>1, LoopNeverWraps, DecimalValued, HexValued
<1> QED
  BY <1>1, ViewsHold, PTL

(* The digits of the reference are those of the code. *)
LEMMA SameDigits ==
    /\ [c \in Byte |-> DigitValue(c, 10)] = DecimalValue
    /\ [c \in Byte |-> DigitValue(c, 16)] = HexValue
<1>1. \A v \in 0..15 : Digits[v + 1] = IF v < 10 THEN 48 + v ELSE 87 + v
  BY DEF Digits
<1>2. ASSUME NEW c \in Byte
      PROVE  DigitValue(c, 10) = DecimalValue[c] /\ DigitValue(c, 16) = HexValue[c]
  <2> DEFINE l == ToLower(c)
  <2>1. /\ l \in Int
        /\ l \in 48..57 <=> c \in isdigit
        /\ l \in 48..57 => l = c
        /\ l \in 97..102 <=> c \in is_hexdigit \ isdigit
    BY DEF ToLower, Byte, isdigit, is_hexdigit
  <2>2. /\ DecimalValue[c] = IF l \in 48..57 THEN l - 48 ELSE -1
        /\ HexValue[c] = IF l \in 48..57 THEN l - 48
                         ELSE IF l \in 97..102 THEN l - 87 ELSE -1
    BY <2>1 DEF DecimalValue, HexValue
  <2> HIDE DEF l
  <2>3. ASSUME NEW base \in {10, 16}, NEW n \in 0..(base - 1), Digits[n + 1] = l
        PROVE  DigitValue(c, base) = n
    <3> DEFINE v == CHOOSE v \in 0..(base - 1) : Digits[v + 1] = l
    <3>1. v \in 0..(base - 1) /\ Digits[v + 1] = l
      BY <2>3
    <3>2. DigitValue(c, base) = v
      BY <2>3 DEF DigitValue, l
    <3> HIDE DEF v
    <3>3. v = n
      BY <1>1, <2>3, <3>1
    <3> QED
      BY <3>2, <3>3
  <2>4. ASSUME NEW base \in {10, 16}, \A n \in 0..(base - 1) : Digits[n + 1] # l
        PROVE  DigitValue(c, base) = -1
    BY <2>4 DEF DigitValue, l
  <2>5. CASE l \in 48..57
    <3>1. l - 48 \in 0..(10 - 1) /\ l - 48 \in 0..(16 - 1) /\ Digits[l - 48 + 1] = l
      BY <1>1, <2>5
    <3> QED
      BY <2>2, <2>3, <2>5, <3>1
  <2>6. CASE l \in 97..102
    <3>1. l - 87 \in 0..(16 - 1) /\ Digits[l - 87 + 1] = l
      BY <1>1, <2>6
    <3>2. \A n \in 0..(10 - 1) : Digits[n + 1] # l
      BY <1>1, <2>6
    <3> QED
      BY <2>2, <2>3, <2>4, <2>6, <3>1, <3>2
  <2>7. CASE l \notin 48..57 /\ l \notin 97..102
    <3>1. \A n \in 0..(16 - 1) : Digits[n + 1] # l
      BY <1>1, <2>1, <2>7
    <3>2. \A n \in 0..(10 - 1) : Digits[n + 1] # l
      BY <3>1
    <3> QED
      BY <2>2, <2>4, <2>7, <3>1, <3>2
  <2> QED
    BY <2>5, <2>6, <2>7
<1>3. DecimalValue = [c \in Byte |-> DecimalValue[c]] /\ HexValue = [c \in Byte |-> HexValue[c]]
  BY DEF DecimalValue, HexValue
<1> QED
  BY <1>2, <1>3

(* content_length::decode accepts exactly the decimal numerals that fit in  *)
(* the target type, chunk_size::decode exactly the hexadecimal ones, and    *)
(* each gives the number that the numeral denotes, for numerals of every    *)
(* length and target types of every size.                                   *)
THEOREM DecodersAreExact == Spec => []NumbersDecode
<1>1. in \in Seq(Byte) => NumbersDecode
  <2> SUFFICES ASSUME in \in Seq(Byte), NEW max \in Maxima
               PROVE  /\ Decodes(content_length_decode(in, 1, max), 10, max)
                      /\ Decodes(chunk_size_decode(in, 1, max), 16, max)
    BY DEF NumbersDecode
  <2>1. max \in Nat \ {0}
    BY ValuesAssumption
  <2>2. ASSUME NEW base \in Nat \ {0}, NEW ValueOf, Valued(ValueOf, base),
               [c \in Byte |-> DigitValue(c, base)] = ValueOf
        PROVE  Decodes(decode(in, 1, ValueOf, base, max), base, max)
    <3> DEFINE d == decode(in, 1, ValueOf, base, max)
    <3>1. Denotes(base) = Number(in, ValueOf, base)
      BY <2>2 DEF Denotes
    <3>2. IsNumeral(base) <=> in # <<>> /\ IsNumeralOf(in, ValueOf)
      <4>1. ASSUME NEW k \in 1..Len(in) PROVE ValueOf[in[k]] = DigitValue(in[k], base)
        <5>1. in[k] \in Byte
          OBVIOUS
        <5> QED
          BY <2>2, <5>1
      <4> QED
        BY <4>1 DEF IsNumeral, IsNumeralOf
    <3> HIDE DEF d
    <3>3. /\ d.result = "ok" <=> IsNumeral(base) /\ Denotes(base) <= max
          /\ d.result = "ok" => d.out = Denotes(base)
          /\ d.result = "invalid" => ~IsNumeral(base)
      BY <2>1, <2>2, <3>1, <3>2, DecodeResult DEF d
    <3> QED
      BY <3>3 DEF Decodes, d
  <2> QED
    BY <2>2, SameDigits, DecimalValued, HexValued DEF content_length_decode, chunk_size_decode
<1> QED
  BY <1>1, ViewsHold, PTL

-----------------------------------------------------------------------------
(* The codings of a list. *)

(* Where a turn of the list walk may start. *)
Starts(c) == c = 0 \/ in[c] = COMMA

LEMMA CodingIsPair ==
    ASSUME NEW x \in Codings
    PROVE  /\ x = <<x[1], x[2]>> /\ x[1] \in 0..Len(in) /\ x[2] \in 0..Len(in) /\ x[1] < x[2]
           /\ IsCoding(x[1], x[2])
BY DEF Codings

(* A coding behind offset c ends before the next comma or starts behind it. *)
LEMMA CodingIsOnOneSide ==
    ASSUME in \in Seq(Byte), NEW c \in 0..Len(in), NEW s \in 0..Len(in), NEW e \in 0..Len(in),
           s < e, IsCoding(s, e), s >= c
    PROVE  e <= NextComma(in, c) \/ s >= NextComma(in, c) + 1
<1>1. PICK n \in c..Len(in) : /\ n = NextComma(in, c)
                              /\ n = Len(in) \/ in[n + 1] = COMMA
  BY NextCommaIs
<1>2. Len(in) \in Nat
  OBVIOUS
<1>3. CASE n # Len(in)
  <2>1. n + 1 \notin (s + 1)..e
    BY <1>1, <1>3 DEF IsCoding
  <2> QED
    BY <1>1, <1>2, <2>1
<1>4. CASE n = Len(in)
  BY <1>1, <1>2, <1>4
<1> QED
  BY <1>3, <1>4

(* Between c and the next comma n there is at most one coding: what is left *)
(* of the bytes between them when white space is cut off at both ends.      *)
Cut(c, n, s, e) == /\ s >= c /\ s < e /\ e <= n
                   /\ in[s + 1] \notin is_ows /\ in[e] \notin is_ows
                   /\ \A k \in (c + 1)..s : in[k] \in is_ows
                   /\ \A k \in (e + 1)..n : in[k] \in is_ows

LEMMA CutIsCoding ==
    ASSUME in \in Seq(Byte), NEW c \in 0..Len(in), Starts(c), NEW n, n = NextComma(in, c),
           NEW s \in 0..Len(in), NEW e \in 0..Len(in), s >= c, s < e, e <= n
    PROVE  IsCoding(s, e) <=> Cut(c, n, s, e)
<1>1. /\ n \in c..Len(in)
      /\ n = Len(in) \/ in[n + 1] = COMMA
      /\ \A k \in (c + 1)..n : in[k] # COMMA
  BY NextCommaIs
<1>2. Len(in) \in Nat
  OBVIOUS
<1>3. ASSUME IsCoding(s, e) PROVE Cut(c, n, s, e)
  <2>1. ASSUME NEW k \in (c + 1)..s PROVE in[k] \in is_ows
    <3>1. k \in 1..s /\ \A j \in k..s : j \in (c + 1)..n
      BY <1>1, <1>2
    <3> QED
      BY <1>1, <1>3, <3>1 DEF IsCoding
  <2>2. ASSUME NEW k \in (e + 1)..n PROVE in[k] \in is_ows
    <3>1. k \in (e + 1)..Len(in) /\ \A j \in (e + 1)..k : j \in (c + 1)..n
      BY <1>1, <1>2
    <3> QED
      BY <1>1, <1>3, <3>1 DEF IsCoding
  <2> QED
    BY <1>3, <2>1, <2>2 DEF Cut, IsCoding
<1>4. ASSUME Cut(c, n, s, e) PROVE IsCoding(s, e)
  <2>1. ASSUME NEW k \in (s + 1)..e PROVE in[k] # COMMA
    BY <1>1, <1>2
  <2>2. ASSUME NEW k \in 1..s, \A j \in k..s : in[j] # COMMA PROVE in[k] \in is_ows
    <3>1. k > c
      <4> SUFFICES ASSUME k <= c PROVE FALSE
        BY <1>2
      <4>1. c \in k..s /\ c # 0
        BY <1>2
      <4> QED
        BY <2>2, <4>1 DEF Starts
    <3> QED
      BY <1>2, <1>4, <3>1 DEF Cut
  <2>3. ASSUME NEW k \in (e + 1)..Len(in), \A j \in (e + 1)..k : in[j] # COMMA
        PROVE  in[k] \in is_ows
    <3>1. k <= n
      <4> SUFFICES ASSUME k > n PROVE FALSE
        BY <1>1, <1>2
      <4>1. n + 1 \in (e + 1)..k /\ n # Len(in)
        BY <1>1, <1>2
      <4> QED
        BY <1>1, <2>3, <4>1
    <3> QED
      BY <1>2, <1>4, <3>1 DEF Cut
  <2> QED
    BY <1>4, <2>1, <2>2, <2>3 DEF Cut, IsCoding
<1> QED
  BY <1>3, <1>4

(* Two cuts of the same bytes are the same. *)
LEMMA CutIsUnique ==
    ASSUME NEW c \in Nat, NEW n \in Nat, NEW s \in Nat, NEW e \in Nat, NEW t \in Nat,
           NEW f \in Nat, Cut(c, n, s, e), Cut(c, n, t, f)
    PROVE  s = t /\ e = f
<1>1. ~(s < t)
  <2> SUFFICES ASSUME s < t PROVE FALSE
    OBVIOUS
  <2>1. s + 1 \in (c + 1)..t
    BY DEF Cut
  <2> QED
    BY <2>1 DEF Cut
<1>2. ~(t < s)
  <2> SUFFICES ASSUME t < s PROVE FALSE
    OBVIOUS
  <2>1. t + 1 \in (c + 1)..s
    BY DEF Cut
  <2> QED
    BY <2>1 DEF Cut
<1>3. ~(e < f)
  <2> SUFFICES ASSUME e < f PROVE FALSE
    OBVIOUS
  <2>1. f \in (e + 1)..n
    BY DEF Cut
  <2> QED
    BY <2>1 DEF Cut
<1>4. ~(f < e)
  <2> SUFFICES ASSUME f < e PROVE FALSE
    OBVIOUS
  <2>1. e \in (f + 1)..n
    BY DEF Cut
  <2> QED
    BY <2>1 DEF Cut
<1> QED
  BY <1>1, <1>2, <1>3, <1>4

(* What a turn of the walk offers is the cut, if there is one. *)
LEMMA OfferedIsCut ==
    ASSUME in \in Seq(Byte), NEW c \in 0..Len(in), NEW n, n = NextComma(in, c)
    PROVE  \/ Offered(in, c) = <<>> /\ \A s, e \in 0..Len(in) : ~Cut(c, n, s, e)
           \/ \E s, e \in 0..Len(in) : Cut(c, n, s, e) /\ Offered(in, c) = <<View(in, s, e)>>
<1> DEFINE u == View(in, c, n)
<1>1. n \in c..Len(in) /\ Len(in) \in Nat /\ c \in Nat
  BY NextCommaIs
<1>2. /\ u \in Seq(Byte) /\ Len(u) = n - c
      /\ \A k \in 1..(n - c) : u[k] = in[c + k]
  BY <1>1, ViewIsView DEF View
<1>3. Offered(in, c) = IF Trim(u) = <<>> THEN <<>> ELSE <<Trim(u)>>
  BY DEF Offered
<1> HIDE DEF u
<1>4. CASE Trim(u) = <<>> /\ \A k \in 1..Len(u) : u[k] \in is_ows
  <2>1. ASSUME NEW s \in 0..Len(in), NEW e \in 0..Len(in), Cut(c, n, s, e) PROVE FALSE
    <3>1. e - c \in 1..(n - c) /\ c + (e - c) = e
      BY <1>1, <2>1 DEF Cut
    <3> QED
      BY <1>2, <1>4, <2>1, <3>1 DEF Cut
  <2> QED
    BY <1>3, <1>4, <2>1
<1>5. CASE \E b, l \in 1..Len(u) :
             /\ b <= l /\ Trim(u) = SubSeq(u, b, l)
             /\ u[b] \notin is_ows /\ u[l] \notin is_ows
             /\ \A k \in 1..(b - 1) : u[k] \in is_ows
             /\ \A k \in (l + 1)..Len(u) : u[k] \in is_ows
  <2>1. PICK b \in 1..Len(u), l \in 1..Len(u) :
             /\ b <= l /\ Trim(u) = SubSeq(u, b, l)
             /\ u[b] \notin is_ows /\ u[l] \notin is_ows
             /\ \A k \in 1..(b - 1) : u[k] \in is_ows
             /\ \A k \in (l + 1)..Len(u) : u[k] \in is_ows
    BY <1>5
  <2>2. PICK s \in 0..Len(in), e \in 0..Len(in) : s = c + b - 1 /\ e = c + l
    <3>1. c + b - 1 \in 0..Len(in) /\ c + l \in 0..Len(in)
      BY <1>1, <1>2, <2>1
    <3> QED
      BY <3>1
  <2>3. s >= c /\ s < e /\ e <= n /\ s + 1 = c + b
    BY <1>1, <1>2, <2>1, <2>2
  <2>4. in[s + 1] \notin is_ows /\ in[e] \notin is_ows
    BY <1>2, <2>1, <2>2, <2>3
  <2>5. ASSUME NEW k \in (c + 1)..s PROVE in[k] \in is_ows
    <3>1. k - c \in 1..(b - 1) /\ k - c \in 1..(n - c) /\ c + (k - c) = k
      BY <1>1, <2>1, <2>2, <2>3
    <3> QED
      BY <1>2, <2>1, <3>1
  <2>6. ASSUME NEW k \in (e + 1)..n PROVE in[k] \in is_ows
    <3>1. k - c \in (l + 1)..Len(u) /\ k - c \in 1..(n - c) /\ c + (k - c) = k
      BY <1>1, <1>2, <2>1, <2>2, <2>3
    <3> QED
      BY <1>2, <2>1, <3>1
  <2>7. Cut(c, n, s, e)
    BY <2>3, <2>4, <2>5, <2>6 DEF Cut
  <2>8. Trim(u) = View(in, s, e) /\ View(in, s, e) # <<>>
    <3>1. /\ SubSeq(u, b, l) \in Seq(Byte) /\ Len(SubSeq(u, b, l)) = l - b + 1
          /\ \A k \in 1..(l - b + 1) : SubSeq(u, b, l)[k] = u[b + k - 1]
      BY <1>2, <2>1
    <3>2. /\ View(in, s, e) \in Seq(Byte) /\ Len(View(in, s, e)) = e - s
          /\ \A k \in 1..(e - s) : View(in, s, e)[k] = in[s + k]
      BY <1>1, <2>2, <2>3, ViewIsView DEF View
    <3>3. e - s = l - b + 1 /\ e - s > 0 /\ e - s \in Nat
      BY <1>1, <2>1, <2>2, <2>3
    <3>4. ASSUME NEW k \in 1..(e - s) PROVE SubSeq(u, b, l)[k] = View(in, s, e)[k]
      <4>1. b + k - 1 \in 1..(n - c) /\ c + (b + k - 1) = s + k
        BY <1>1, <1>2, <2>1, <2>2, <2>3, <3>3
      <4> QED
        BY <1>2, <3>1, <3>2, <3>3, <4>1
    <3>5. SubSeq(u, b, l) = View(in, s, e)
      BY <3>1, <3>2, <3>3, <3>4
    <3> QED
      BY <2>1, <3>2, <3>3, <3>5
  <2> QED
    BY <1>3, <2>7, <2>8
<1> QED
  BY <1>2, <1>4, <1>5, TrimIs

(* From offset c to the next comma there is the coding that the turn offers, *)
(* or none, and every other coding starts behind the comma.                  *)
LEMMA PieceIs ==
    ASSUME in \in Seq(Byte), NEW c \in 0..Len(in), Starts(c), NEW n, n = NextComma(in, c)
    PROVE  \/ /\ Offered(in, c) = <<>>
              /\ \A y \in Codings : y[1] >= c => y[1] >= n + 1
           \/ \E x \in Codings :
                /\ Offered(in, c) = <<View(in, x[1], x[2])>>
                /\ x[1] >= c /\ x[1] < n + 1
                /\ \A y \in Codings : y[1] >= c => y = x \/ y[1] >= n + 1
<1>1. n \in c..Len(in) /\ Len(in) \in Nat /\ c \in Nat
  BY NextCommaIs
<1>2. ASSUME NEW y \in Codings, y[1] >= c, ~(y[1] >= n + 1)
      PROVE  Cut(c, n, y[1], y[2])
  <2>1. /\ y[1] \in 0..Len(in) /\ y[2] \in 0..Len(in) /\ y[1] < y[2] /\ IsCoding(y[1], y[2])
    BY CodingIsPair
  <2>2. y[2] <= n
    BY <1>2, <2>1, CodingIsOnOneSide
  <2> QED
    BY <1>2, <2>1, <2>2, CutIsCoding
<1>3. CASE Offered(in, c) = <<>> /\ \A s, e \in 0..Len(in) : ~Cut(c, n, s, e)
  BY <1>2, <1>3, CodingIsPair
<1>4. CASE \E s, e \in 0..Len(in) : Cut(c, n, s, e) /\ Offered(in, c) = <<View(in, s, e)>>
  <2>1. PICK s \in 0..Len(in), e \in 0..Len(in) :
             Cut(c, n, s, e) /\ Offered(in, c) = <<View(in, s, e)>>
    BY <1>4
  <2>2. s >= c /\ s < e /\ e <= n
    BY <2>1 DEF Cut
  <2>3. IsCoding(s, e)
    BY <2>1, <2>2, CutIsCoding
  <2>4. PICK x \in Codings : x = <<s, e>>
    BY <2>2, <2>3 DEF Codings
  <2>5. x[1] = s /\ x[2] = e
    BY <2>4
  <2>6. ASSUME NEW y \in Codings, y[1] >= c, ~(y[1] >= n + 1) PROVE y = x
    <3>1. Cut(c, n, y[1], y[2])
      BY <1>2, <2>6
    <3>2. y = <<y[1], y[2]>> /\ y[1] \in 0..Len(in) /\ y[2] \in 0..Len(in)
      BY CodingIsPair
    <3>3. PICK t \in Nat, f \in Nat : t = y[1] /\ f = y[2]
      BY <1>1, <3>2
    <3>4. Cut(c, n, s, e) /\ Cut(c, n, t, f)
      BY <2>1, <3>1, <3>3
    <3>5. s \in Nat /\ e \in Nat /\ n \in Nat /\ c \in Nat
      BY <1>1
    <3>6. s = t /\ e = f
      BY <3>4, <3>5, CutIsUnique
    <3> QED
      BY <2>4, <3>2, <3>3, <3>6
  <2>7. x[1] < n + 1 /\ x[1] >= c
    BY <1>1, <2>2, <2>5
  <2> QED
    BY <2>1, <2>5, <2>6, <2>7
<1> QED
  BY <1>3, <1>4, OfferedIsCut

(* p lists the codings that start at offset c or behind it, from left to   *)
(* right, and views shows their bytes.                                     *)
Delimits(p, c, views) ==
    /\ p \in Seq(Codings) /\ Len(p) = Len(views)
    /\ \A j \in 1..Len(p) : p[j][1] >= c /\ views[j] = View(in, p[j][1], p[j][2])
    /\ \A i, j \in 1..Len(p) : i < j => p[i][1] < p[j][1]
    /\ \A y \in Codings : y[1] >= c => \E j \in 1..Len(p) : p[j] = y

LEMMA InFront ==
    ASSUME NEW S, NEW x \in S, NEW q \in Seq(S)
    PROVE  /\ <<x>> \o q \in Seq(S) /\ Len(<<x>> \o q) = Len(q) + 1
           /\ (<<x>> \o q)[1] = x
           /\ \A j \in 2..(Len(q) + 1) : (<<x>> \o q)[j] = q[j - 1]
OBVIOUS

LEMMA DelimitsOneMore ==
    ASSUME in \in Seq(Byte), NEW c \in Nat, NEW m \in Nat, c <= m, NEW q,
           NEW views \in Seq(Seq(Byte)), Delimits(q, m, views),
           NEW x \in Codings, x[1] >= c, x[1] < m,
           \A y \in Codings : y[1] >= c => y = x \/ y[1] >= m
    PROVE  Delimits(<<x>> \o q, c, <<View(in, x[1], x[2])>> \o views)
<1> DEFINE p == <<x>> \o q
           v == View(in, x[1], x[2])
           all == <<v>> \o views
<1>1. /\ q \in Seq(Codings) /\ Len(q) = Len(views) /\ Len(q) \in Nat
      /\ \A j \in 1..Len(q) : q[j][1] >= m /\ views[j] = View(in, q[j][1], q[j][2])
      /\ \A i, j \in 1..Len(q) : i < j => q[i][1] < q[j][1]
      /\ \A y \in Codings : y[1] >= m => \E j \in 1..Len(q) : q[j] = y
  BY DEF Delimits
<1>2. ASSUME NEW y \in Codings
      PROVE  y[1] \in Nat /\ y[2] \in y[1]..Len(in)
  BY CodingIsPair
<1>3. v \in Seq(Byte)
  BY <1>2, ViewIsView
<1>4. /\ p \in Seq(Codings) /\ Len(p) = Len(q) + 1 /\ p[1] = x
      /\ \A j \in 2..(Len(q) + 1) : p[j] = q[j - 1]
  BY <1>1, InFront
<1> HIDE DEF v
<1>5. /\ Len(all) = Len(q) + 1 /\ all[1] = v
      /\ \A j \in 2..(Len(q) + 1) : all[j] = views[j - 1]
  <2>1. /\ Len(all) = Len(views) + 1 /\ all[1] = v
        /\ \A j \in 2..(Len(views) + 1) : all[j] = views[j - 1]
    BY <1>3, InFront
  <2> QED
    BY <1>1, <2>1
<1> HIDE DEF p, all
<1>6. \A j \in 1..Len(p) : j = 1 \/ (j \in 2..(Len(q) + 1) /\ j - 1 \in 1..Len(q))
  BY <1>1, <1>4
<1>7. \A j \in 1..Len(q) : q[j] \in Codings
  BY <1>1
<1>8. ASSUME NEW j \in 1..Len(p)
      PROVE  p[j][1] >= c /\ all[j] = View(in, p[j][1], p[j][2])
  <2>1. CASE j = 1
    BY <1>4, <1>5, <2>1 DEF v
  <2>2. CASE j \in 2..(Len(q) + 1) /\ j - 1 \in 1..Len(q)
    <3>1. p[j] = q[j - 1] /\ all[j] = views[j - 1]
      BY <1>4, <1>5, <2>2
    <3>2. q[j - 1][1] >= m /\ q[j - 1][1] \in Nat
      BY <1>1, <1>2, <1>7, <2>2
    <3>3. q[j - 1][1] >= c
      BY <3>2
    <3> QED
      BY <1>1, <2>2, <3>1, <3>3
  <2> QED
    BY <1>6, <2>1, <2>2
<1>9. ASSUME NEW i \in 1..Len(p), NEW j \in 1..Len(p), i < j
      PROVE  p[i][1] < p[j][1]
  <2>1. j \in 2..(Len(q) + 1) /\ j - 1 \in 1..Len(q) /\ p[j] = q[j - 1]
    BY <1>4, <1>6, <1>9
  <2>2. CASE i = 1
    <3>1. q[j - 1][1] >= m /\ q[j - 1][1] \in Nat /\ x[1] \in Nat
      BY <1>1, <1>2, <1>7, <2>1
    <3>2. p[i] = x
      BY <1>4, <2>2
    <3> QED
      BY <2>1, <3>1, <3>2
  <2>3. CASE i \in 2..(Len(q) + 1) /\ i - 1 \in 1..Len(q)
    <3>1. p[i] = q[i - 1] /\ i - 1 < j - 1
      BY <1>4, <1>9, <2>3
    <3> QED
      BY <1>1, <2>1, <2>3, <3>1
  <2> QED
    BY <1>6, <2>2, <2>3
<1>10. ASSUME NEW y \in Codings, y[1] >= c
       PROVE  \E j \in 1..Len(p) : p[j] = y
  <2>1. CASE y = x
    <3>1. 1 \in 1..Len(p)
      BY <1>1, <1>4
    <3> QED
      BY <1>4, <2>1, <3>1
  <2>2. CASE y[1] >= m
    <3>1. PICK j \in 1..Len(q) : q[j] = y
      BY <1>1, <2>2
    <3>2. j + 1 \in 2..(Len(q) + 1) /\ j + 1 \in 1..Len(p) /\ (j + 1) - 1 = j
      BY <1>1, <1>4
    <3> QED
      BY <1>4, <3>1, <3>2
  <2> QED
    BY <1>10, <2>1, <2>2
<1> QED
  BY <1>4, <1>5, <1>8, <1>9, <1>10 DEF Delimits, p, all, v

(* What the walk offers from offset c on shows the codings from there on, if *)
(* this is so from every later offset.                                       *)
LEMMA WalkDelimits ==
    ASSUME in \in Seq(Byte), NEW w, Walks(in, w), NEW c \in 0..Len(in), Starts(c),
           \A d \in (c + 1)..Len(in) : Starts(d) => \E p : Delimits(p, d, w[d])
    PROVE  \E p : Delimits(p, c, w[c])
<1> DEFINE n == NextComma(in, c)
           m == n + 1
           rest == IF m >= Len(in) THEN <<>> ELSE w[m]
<1>1. /\ n \in c..Len(in) /\ Len(in) \in Nat /\ c \in Nat
      /\ n = Len(in) \/ in[n + 1] = COMMA
  BY NextCommaIs
<1>2. rest \in Seq(Seq(Byte)) /\ w[c] = Offered(in, c) \o rest
  <2>1. /\ Offered(in, c) \in Seq(Seq(Byte)) /\ w \in [0..Len(in) -> Seq(Seq(Byte))]
        /\ w[c] = IF m >= Len(in) THEN Offered(in, c) ELSE Offered(in, c) \o w[m]
    BY OfferedIs DEF Walks
  <2> HIDE DEF n
  <2>2. CASE m >= Len(in)
    <3>1. rest = <<>>
      BY <2>2
    <3>2. Offered(in, c) \o <<>> = Offered(in, c)
      BY <2>1
    <3> QED
      BY <2>1, <2>2, <3>1, <3>2
  <2>3. CASE ~(m >= Len(in))
    <3>1. m \in 0..Len(in)
      BY <1>1, <2>3
    <3> QED
      BY <2>1, <2>3, <3>1
  <2> QED
    BY <2>2, <2>3
<1> HIDE DEF n
<1>3. PICK q : Delimits(q, m, rest)
  <2>1. CASE m >= Len(in)
    <3>1. ASSUME NEW y \in Codings PROVE ~(y[1] >= m)
      BY <1>1, <2>1, CodingIsPair
    <3>2. rest = <<>>
      BY <2>1
    <3>3. <<>> \in Seq(Codings) /\ Len(<<>>) = 0 /\ 1..0 = {}
      OBVIOUS
    <3>4. Delimits(<<>>, m, <<>>)
      BY <3>1, <3>3 DEF Delimits
    <3> QED
      BY <3>2, <3>4
  <2>2. CASE ~(m >= Len(in))
    <3>1. m \in (c + 1)..Len(in) /\ in[m] = COMMA
      BY <1>1, <2>2
    <3>2. Starts(m)
      BY <3>1 DEF Starts
    <3> QED
      BY <2>2, <3>1, <3>2
  <2> QED
    BY <2>1, <2>2
<1> HIDE DEF rest
<1>4. m \in Nat /\ c <= m /\ m = NextComma(in, c) + 1
  BY <1>1 DEF n
<1> HIDE DEF m
<1>5. CASE /\ Offered(in, c) = <<>>
           /\ \A y \in Codings : y[1] >= c => y[1] >= m
  <2>1. w[c] = rest
    BY <1>2, <1>5
  <2>2. q \in Seq(Codings) /\ \A j \in 1..Len(q) : q[j] \in Codings /\ q[j][1] >= m
    BY <1>3 DEF Delimits
  <2>3. \A j \in 1..Len(q) : q[j][1] \in Nat
    BY <2>2, CodingIsPair
  <2>4. \A j \in 1..Len(q) : q[j][1] >= c
    BY <1>4, <2>2, <2>3
  <2> QED
    BY <1>3, <1>5, <2>1, <2>4 DEF Delimits
<1>6. CASE \E x \in Codings :
             /\ Offered(in, c) = <<View(in, x[1], x[2])>>
             /\ x[1] >= c /\ x[1] < m
             /\ \A y \in Codings : y[1] >= c => y = x \/ y[1] >= m
  <2>1. PICK x \in Codings :
             /\ Offered(in, c) = <<View(in, x[1], x[2])>>
             /\ x[1] >= c /\ x[1] < m
             /\ \A y \in Codings : y[1] >= c => y = x \/ y[1] >= m
    BY <1>6
  <2>2. Delimits(<<x>> \o q, c, <<View(in, x[1], x[2])>> \o rest)
    BY <1>1, <1>2, <1>3, <1>4, <2>1, DelimitsOneMore
  <2>3. w[c] = <<View(in, x[1], x[2])>> \o rest
    BY <1>2, <2>1
  <2> QED
    BY <2>2, <2>3
<1> QED
  BY <1>4, <1>5, <1>6, PieceIs

(* header_value_any_of offers the codings of the list, each one once and in *)
(* their order.                                                             *)
LEMMA ElementsAreCodings ==
    ASSUME in \in Seq(Byte)
    PROVE  \E p : Delimits(p, 0, ListElements(in))
<1> DEFINE N == Len(in)
<1>1. PICK w : Walks(in, w) /\ ListElements(in) = w[0]
  BY ListWalks
<1> DEFINE Shown(c) == Starts(c) => \E p : Delimits(p, c, w[c])
           S == {k \in 0..N : \A c \in (N - k)..N : Shown(c)}
<1>2. N \in Nat
  OBVIOUS
<1>3. ASSUME NEW c \in 0..N, \A d \in (c + 1)..N : Shown(d) PROVE Shown(c)
  BY <1>1, <1>3, WalkDelimits
<1> HIDE DEF Shown, N
<1>4. 0 \in S
  <2>1. Shown(N)
    BY <1>2, <1>3
  <2> QED
    BY <1>2, <2>1
<1>5. ASSUME NEW k \in 1..N, k - 1 \in S PROVE k \in S
  <2>1. \A d \in (N - (k - 1))..N : Shown(d)
    BY <1>5
  <2>2. N - k \in 0..N /\ (N - k) + 1 = N - (k - 1)
    BY <1>2
  <2>3. Shown(N - k)
    BY <1>3, <2>1, <2>2
  <2>4. \A c \in (N - k)..N : c = N - k \/ c \in (N - (k - 1))..N
    BY <1>2
  <2>5. \A c \in (N - k)..N : Shown(c)
    BY <2>1, <2>3, <2>4
  <2> QED
    BY <1>2, <2>5
<1> HIDE DEF S
<1>6. \A k \in 0..N : k \in S
  BY <1>2, <1>4, <1>5, InductTo
<1>7. N \in 0..N /\ 0 \in (N - N)..N
  BY <1>2
<1>8. Shown(0)
  BY <1>6, <1>7 DEF S
<1> QED
  BY <1>1, <1>8 DEF Shown, Starts

(* The verdict on a Transfer-Encoding value, of whatever length, is the one *)
(* that the codings of the list call for.                                   *)
THEOREM CodingsAreJudged == Spec => []ChunkedIsLastAndOnce
<1>1. ASSUME in \in Seq(Byte) PROVE ChunkedIsLastAndOnce
  <2> DEFINE views == ListElements(in)
             at == ChunkedAt(views)
  <2>1. /\ views \in Seq(Seq(Byte))
        /\ decode_transfer_encoding(in) =
              IF at = {} THEN "CHUNKED_NOT_FOUND"
              ELSE IF at = {Len(views)} THEN "CHUNKED_AT_END"
              ELSE "CHUNKED_INVALID"
    BY <1>1, CodingsDecode
  <2>2. PICK p : Delimits(p, 0, views)
    BY <1>1, ElementsAreCodings
  <2>3. at = {k \in 1..Len(views) : iequals(views[k], Chunked)}
    BY DEF ChunkedAt
  <2> HIDE DEF views, at
  <2> DEFINE N == Len(p)
  <2>4. /\ N \in Nat /\ N = Len(views)
        /\ \A j \in 1..N : p[j] \in Codings /\ views[j] = View(in, p[j][1], p[j][2])
        /\ \A i, j \in 1..N : i < j => p[i][1] < p[j][1]
    BY <2>2 DEF Delimits
  <2>5. \A y \in Codings : y[1] \in Nat /\ y[1] >= 0
    BY <1>1, CodingIsPair
  <2>6. \A y \in Codings : \E j \in 1..N : p[j] = y
    BY <2>2, <2>5 DEF Delimits
  <2> HIDE DEF N
  <2>7. \A j \in 1..N : j \in at <=> p[j] \in ChunkedCodings
    BY <2>3, <2>4 DEF ChunkedCodings
  <2>8. ChunkedCodings \subseteq Codings /\ at \subseteq 1..N
    BY <2>3, <2>4 DEF ChunkedCodings
  <2>9. at = {} <=> ChunkedCodings = {}
    BY <2>6, <2>7, <2>8
  <2>10. IsFiniteSet(ChunkedCodings)
    <3>1. IsFiniteSet(0..Len(in))
      BY <1>1, FS_Interval
    <3>2. IsFiniteSet((0..Len(in)) \X (0..Len(in)))
      BY <3>1, FS_Product
    <3>3. ChunkedCodings \in SUBSET ((0..Len(in)) \X (0..Len(in)))
      BY DEF ChunkedCodings, Codings
    <3> QED
      BY <3>2, <3>3, FS_Subset
  <2>11. ASSUME NEW i \in 1..N, NEW j \in 1..N
         PROVE  /\ p[i] = p[j] => i = j
                /\ p[i][1] <= p[j][1] <=> i <= j
    <3>1. p[i][1] \in Nat /\ p[j][1] \in Nat
      BY <2>4, <2>5
    <3>2. i < j \/ i = j \/ j < i
      OBVIOUS
    <3> QED
      BY <2>4, <3>1, <3>2
  <2> DEFINE last == /\ Cardinality(ChunkedCodings) = 1
                     /\ \A c \in ChunkedCodings : \A d \in Codings : d[1] <= c[1]
  <2>12. ASSUME at = {N} PROVE last
    <3>1. N \in 1..N
      BY <2>8, <2>12
    <3>2. ChunkedCodings = {p[N]}
      BY <2>6, <2>7, <2>8, <2>12, <3>1
    <3>3. Cardinality(ChunkedCodings) = 1
      BY <3>2, FS_Singleton
    <3>4. ASSUME NEW d \in Codings PROVE d[1] <= p[N][1]
      <4>1. PICK j \in 1..N : p[j] = d
        BY <2>6
      <4>2. j <= N
        BY <2>4
      <4> QED
        BY <2>11, <3>1, <4>1, <4>2
    <3> QED
      BY <3>2, <3>3, <3>4
  <2>13. ASSUME last PROVE at = {N}
    <3>1. PICK x : ChunkedCodings = {x}
      BY <2>10, <2>13, FS_Singleton
    <3>2. PICK j \in 1..N : p[j] = x
      BY <2>6, <2>8, <3>1
    <3>3. at = {j}
      BY <2>7, <2>8, <2>11, <3>1, <3>2
    <3>4. N \in 1..N
      BY <2>4
    <3>5. p[N][1] <= p[j][1]
      BY <2>4, <2>13, <3>1, <3>2, <3>4
    <3>6. N <= j
      BY <2>11, <3>4, <3>5
    <3>7. j = N
      BY <2>4, <3>6
    <3> QED
      BY <3>3, <3>7
  <2>14. at = {Len(views)} <=> last
    BY <2>4, <2>12, <2>13
  <2>15. ASSUME ChunkedCodings = {} PROVE ~last
    BY <2>15, FS_EmptySet
  <2> HIDE DEF last
  <2>16. decode_transfer_encoding(in) =
            CASE ChunkedCodings = {} -> "CHUNKED_NOT_FOUND"
              [] last                -> "CHUNKED_AT_END"
              [] OTHER               -> "CHUNKED_INVALID"
    BY <2>1, <2>9, <2>14, <2>15
  <2> QED
    BY <2>16 DEF ChunkedIsLastAndOnce, last
<1> QED
  BY <1>1, ViewsHold, PTL
=============================================================================
