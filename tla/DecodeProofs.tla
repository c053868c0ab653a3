---------------------------- MODULE DecodeProofs ----------------------------
(***************************************************************************)
(* The number decoders, for views of every length and target types of      *)
(* every size, and the decoder of transfer codings, for lists of every     *)
(* length.  A recursive function is used through two facts that are        *)
(* proved first: numbers up to N can be reached by induction (InductTo),   *)
(* and a recursive definition on them has a solution (RecursionTo).        *)
(* Induction is stated with a set, not with a predicate.                   *)
(***************************************************************************)
EXTENDS Decode, TransferEncoding, Numeral, WellFoundedInduction, TLAPS

LEMMA Induct ==
    \A S : 0 \in S /\ (\A n \in Nat : n \in S => n + 1 \in S) => Nat \subseteq S
<1> SUFFICES ASSUME NEW S, 0 \in S, \A n \in Nat : n \in S => n + 1 \in S,
                    NEW b \in Nat, b \notin S
             PROVE  FALSE
  OBVIOUS
<1> DEFINE T == Nat \ S
           R == {r \in Nat \X Nat : r[1] < r[2]}
<1>1. IsWellFoundedOn(OpToRel(<, Nat), Nat)
  BY NatLessThanWellFounded
<1>2. OpToRel(<, Nat) = R
  BY DEF OpToRel
<1>3. T # {} /\ T \subseteq Nat /\ IsWellFoundedOn(R, Nat)
  BY <1>1, <1>2
<1> HIDE DEF R
<1>4. PICK x \in T : \A y \in T : ~(<<y, x>> \in R)
  BY <1>3, WFMin
<1>5. x # 0 /\ x - 1 \in Nat
  BY <1>4
<1>6. x - 1 \in T
  BY <1>4, <1>5
<1>7. <<x - 1, x>> \in R
  BY <1>4, <1>5 DEF R
<1> QED
  BY <1>4, <1>6, <1>7

LEMMA InductTo ==
    ASSUME NEW N \in Nat, NEW S, 0 \in S, \A k \in 1..N : k - 1 \in S => k \in S
    PROVE  \A k \in 0..N : k \in S
<1> DEFINE T == {n \in Nat : n <= N => n \in S}
<1>1. 0 \in T
  OBVIOUS
<1>2. ASSUME NEW n \in Nat, n \in T PROVE n + 1 \in T
  <2>1. CASE n + 1 <= N
    <3>1. n \in S /\ n + 1 \in 1..N /\ (n + 1) - 1 = n
      BY <1>2, <2>1
    <3>2. n + 1 \in S
      BY <3>1
    <3> QED
      BY <3>2
  <2> QED
    BY <2>1
<1> HIDE DEF T
<1>3. Nat \subseteq T
  BY <1>1, <1>2, Induct
<1> QED
  BY <1>3 DEF T

(* A function may be defined by recursion on the numbers up to N. *)
Solves(r, N, D, c, G) == /\ r \in [0..N -> D]
                         /\ r[0] = c
                         /\ \A k \in 1..N : r[k] = G[k][r[k - 1]]

LEMMA RecursionTo ==
    ASSUME NEW N \in Nat, NEW D, NEW c \in D, NEW G, G \in [1..N -> [D -> D]]
    PROVE  \E r : Solves(r, N, D, c, G)
<1> DEFINE Sol(n, r) == r[0] = c /\ \A k \in 1..n : r[k] = G[k][r[k - 1]]
           S == {n \in 0..N : \E r \in [0..n -> D] : Sol(n, r)}
<1>1. 0 \in S
  <2> DEFINE r == [k \in 0..0 |-> c]
  <2>1. r \in [0..0 -> D] /\ r[0] = c /\ 1..0 = {}
    OBVIOUS
  <2> HIDE DEF r
  <2>2. \E q \in [0..0 -> D] : Sol(0, q)
    BY <2>1
  <2> QED
    BY <2>2
<1>2. ASSUME NEW n \in 1..N, n - 1 \in S PROVE n \in S
  <2>1. PICK r \in [0..(n - 1) -> D] : Sol(n - 1, r)
    BY <1>2
  <2> DEFINE q == [k \in 0..n |-> IF k = n THEN G[n][r[n - 1]] ELSE r[k]]
  <2>2. q \in [0..n -> D]
    OBVIOUS
  <2>3. \A k \in 0..(n - 1) : q[k] = r[k]
    OBVIOUS
  <2>4. q[n] = G[n][r[n - 1]]
    OBVIOUS
  <2> HIDE DEF q
  <2>5. Sol(n, q)
    BY <2>1, <2>3, <2>4
  <2>6. n \in 0..N
    OBVIOUS
  <2> HIDE DEF Sol
  <2> QED
    BY <2>2, <2>5, <2>6
<1> HIDE DEF S
<1>3. \A n \in 0..N : n \in S
  BY <1>1, <1>2, InductTo
<1>4. N \in S
  BY <1>3
<1> QED
  BY <1>4 DEF S, Solves

(* A set of numbers up to N has a least and a greatest element. *)
LEMMA MinOf ==
    ASSUME NEW N \in Nat, NEW S \in SUBSET (0..N), S # {}
    PROVE  Min(S) \in S /\ \A k \in S : Min(S) <= k
<1> DEFINE T == {n \in 0..N : \A k \in S : n <= k}
<1>1. \E m \in S : \A k \in S : m <= k
  <2>1. 0 \in T
    OBVIOUS
  <2>2. CASE \A n \in 1..N : n - 1 \in T => n \in T
    <3> HIDE DEF T
    <3>1. \A n \in 0..N : n \in T
      BY <2>1, <2>2, InductTo
    <3>2. N \in T
      BY <3>1
    <3>3. PICK m \in S : TRUE
      OBVIOUS
    <3>4. \A k \in S : m <= k
      BY <3>2 DEF T
    <3> QED
      BY <3>4
  <2>3. CASE \E n \in 1..N : n - 1 \in T /\ n \notin T
    <3>1. PICK n \in 1..N : n - 1 \in T /\ n \notin T
      BY <2>3
    <3>2. PICK k \in S : ~(n <= k)
      BY <3>1
    <3>3. k = n - 1
      BY <3>1, <3>2
    <3> QED
      BY <3>1, <3>3
  <2> QED
    BY <2>2, <2>3
<1> QED
  BY <1>1 DEF Min

LEMMA MaxOf ==
    ASSUME NEW N \in Nat, NEW S \in SUBSET (0..N), S # {}
    PROVE  Max(S) \in S /\ \A k \in S : k <= Max(S)
<1> DEFINE T == {N - k : k \in S}
<1>1. T \in SUBSET (0..N) /\ T # {}
  <2>1. \A k \in S : k \in 0..N /\ N - k \in 0..N
    OBVIOUS
  <2> QED
    BY <2>1
<1>2. Min(T) \in T /\ \A k \in T : Min(T) <= k
  <2> HIDE DEF T
  <2> QED
    BY <1>1, MinOf
<1>3. PICK m \in S : N - m = Min(T)
  BY <1>2
<1>4. \A k \in S : N - k \in T
  OBVIOUS
<1>5. \A k \in S : k <= m
  <2> HIDE DEF T
  <2> QED
    BY <1>2, <1>3, <1>4
<1>6. \E x \in S : \A y \in S : x >= y
  BY <1>5
<1> QED
  BY <1>6 DEF Max

-----------------------------------------------------------------------------
(* Arithmetic. *)

LEMMA DivBound ==
    ASSUME NEW a \in Nat, NEW m \in Nat, NEW b \in Nat \ {0}
    PROVE  /\ a <= m \div b => a * b <= m
           /\ a > m \div b => a * b > m
<1> DEFINE q == m \div b
           r == m % b
<1>1. q \in Nat /\ r \in 0..(b - 1) /\ m = b * q + r
  OBVIOUS
<1> HIDE DEF q, r
<1>2. ASSUME a <= q PROVE a * b <= m
  <2>1. a * b <= q * b
    BY <1>1, <1>2
  <2> QED
    BY <1>1, <2>1
<1>3. ASSUME a > q PROVE a * b > m
  <2>1. a >= q + 1
    BY <1>1, <1>3
  <2>2. a * b >= (q + 1) * b
    BY <1>1, <2>1
  <2>3. (q + 1) * b = b * q + b
    BY <1>1
  <2> QED
    BY <1>1, <2>2, <2>3
<1> QED
  BY <1>2, <1>3 DEF q

LEMMA AtLeast ==
    ASSUME NEW x \in Nat, NEW w \in Nat
    PROVE  x * w \in Nat /\ (x >= 1 => x * w >= w)
OBVIOUS

(* One more digit in front, of weight w. *)
LEMMA DigitInFront ==
    ASSUME NEW x \in Int, NEW b \in Int, NEW v \in Int, NEW w \in Int, NEW o \in Int
    PROVE  (x * b + v) * w + o = x * (w * b) + (o + v * w)
OBVIOUS
-----------------------------------------------------------------------------
(* Numerals. *)

(* The values that a decoder may give to a byte; only '0' has the value 0. *)
Valued(ValueOf, base) ==
    /\ ValueOf \in [Byte -> -1..(base - 1)]
    /\ \A c \in Byte : ValueOf[c] = 0 <=> c = 48

LEMMA DecimalValued == Valued(DecimalValue, 10)
BY DEF Valued, DecimalValue, Byte, isdigit

LEMMA HexValued == Valued(HexValue, 16)
BY DEF Valued, HexValue, Byte, isdigit, is_hexdigit, ToLower

(* The numbers that the prefixes of a numeral denote. *)
PrefixNumbers(in, ValueOf, base, num) ==
    /\ num \in [0..Len(in) -> Int]
    /\ num[0] = 0
    /\ \A k \in 1..Len(in) : num[k] = num[k - 1] * base + ValueOf[in[k]]

LEMMA NumberPrefixes ==
    ASSUME NEW in \in Seq(Byte), NEW base \in Nat, NEW ValueOf \in [Byte -> Int]
    PROVE  \E num : PrefixNumbers(in, ValueOf, base, num)
                    /\ Number(in, ValueOf, base) = num[Len(in)]
<1> DEFINE N == Len(in)
           G == [k \in 1..N |-> [n \in Int |-> n * base + ValueOf[in[k]]]]
           IsUpTo(f) == f = [k \in 0..N |-> IF k = 0 THEN 0
                                            ELSE f[k - 1] * base + ValueOf[in[k]]]
           upTo == CHOOSE f : IsUpTo(f)
<1>1. N \in Nat /\ \A k \in 1..N : in[k] \in Byte
  OBVIOUS
<1>2. Number(in, ValueOf, base) = upTo[N]
  BY DEF Number
<1> HIDE DEF N
<1>3. G \in [1..N -> [Int -> Int]]
  BY <1>1
<1>4. \A k \in 1..N : \A n \in Int : G[k][n] = n * base + ValueOf[in[k]]
  OBVIOUS
<1> HIDE DEF G
<1>5. PICK r \in [0..N -> Int] : r[0] = 0 /\ \A k \in 1..N : r[k] = G[k][r[k - 1]]
  <2>1. N \in Nat /\ 0 \in Int
    BY <1>1
  <2>2. \E r : Solves(r, N, Int, 0, G)
    BY <1>3, <2>1, RecursionTo
  <2> QED
    BY <2>2 DEF Solves
<1>6. ASSUME NEW k \in 1..N PROVE r[k] = r[k - 1] * base + ValueOf[in[k]]
  <2>1. k - 1 \in 0..N
    BY <1>1
  <2>2. r[k - 1] \in Int
    BY <2>1
  <2> QED
    BY <1>4, <1>5, <2>2
<1>7. IsUpTo(r)
  BY <1>1, <1>5, <1>6
<1>8. IsUpTo(upTo)
  BY <1>7
<1> HIDE DEF upTo
<1>9. /\ upTo[0] = 0
      /\ \A k \in 1..N : upTo[k] = upTo[k - 1] * base + ValueOf[in[k]]
      /\ upTo = [k \in 0..N |-> upTo[k]]
  <2> DEFINE E(k) == IF k = 0 THEN 0 ELSE upTo[k - 1] * base + ValueOf[in[k]]
  <2>1. upTo = [k \in 0..N |-> E(k)]
    BY <1>8
  <2> HIDE DEF E
  <2>2. \A k \in 0..N : upTo[k] = E(k)
    BY <2>1
  <2>3. upTo = [k \in 0..N |-> upTo[k]]
    BY <2>1
  <2>4. upTo[0] = 0
    BY <1>1, <2>2 DEF E
  <2>5. ASSUME NEW k \in 1..N PROVE upTo[k] = upTo[k - 1] * base + ValueOf[in[k]]
    <3>1. k \in 0..N /\ k # 0
      BY <1>1
    <3>2. upTo[k] = E(k)
      BY <2>2, <3>1
    <3> QED
      BY <3>1, <3>2 DEF E
  <2> QED
    BY <2>3, <2>4, <2>5
<1>10. upTo \in [0..N -> Int]
  <2> DEFINE S == {k \in 0..N : upTo[k] \in Int}
  <2>1. 0 \in S
    BY <1>1, <1>9
  <2>2. ASSUME NEW k \in 1..N, k - 1 \in S PROVE k \in S
    <3>1. k \in 0..N /\ upTo[k - 1] \in Int /\ ValueOf[in[k]] \in Int
      BY <1>1, <2>2
    <3>2. PICK p \in Int : p = upTo[k - 1] * base
      BY <3>1
    <3>3. upTo[k] = p + ValueOf[in[k]]
      BY <1>9, <3>2
    <3> QED
      BY <3>1, <3>2, <3>3
  <2> HIDE DEF S
  <2>3. \A k \in 0..N : k \in S
    BY <1>1, <2>1, <2>2, InductTo
  <2> QED
    BY <1>9, <2>3 DEF S
<1> QED
  BY <1>2, <1>9, <1>10 DEF PrefixNumbers, N

(* Where the leading zeros of a view end: offset z. *)
Leads(in, z) == /\ z \in 0..Len(in)
                /\ \A k \in 1..z : in[k] = 48
                /\ z < Len(in) => in[z + 1] # 48

LEMMA SkipZerosLeads ==
    ASSUME NEW in \in Seq(Byte)
    PROVE  \E z : Leads(in, z)
                  /\ Len(SkipZeros(in)) = Len(in) - z
                  /\ \A k \in 1..(Len(in) - z) : SkipZeros(in)[k] = in[z + k]
<1> DEFINE nonzero == {k \in 1..Len(in) : in[k] # 48}
<1>1. Len(in) \in Nat
  OBVIOUS
<1>2. CASE nonzero = {}
  <2>1. SkipZeros(in) = <<>>
    BY <1>2 DEF SkipZeros
  <2>2. Leads(in, Len(in))
    BY <1>1, <1>2 DEF Leads
  <2> QED
    BY <1>1, <2>1, <2>2
<1>3. CASE nonzero # {}
  <2> DEFINE m == Min(nonzero)
  <2>1. m \in nonzero /\ \A k \in nonzero : m <= k
    <3>1. nonzero \in SUBSET (0..Len(in))
      BY <1>1
    <3> HIDE DEF nonzero
    <3> QED
      BY <1>1, <1>3, <3>1, MinOf
  <2> HIDE DEF m
  <2>3. SkipZeros(in) = SubSeq(in, m, Len(in))
    BY <1>3 DEF SkipZeros, m
  <2>4. Leads(in, m - 1)
    BY <1>1, <2>1 DEF Leads
  <2>5. /\ Len(SkipZeros(in)) = Len(in) - (m - 1)
        /\ \A k \in 1..(Len(in) - (m - 1)) : SkipZeros(in)[k] = in[(m - 1) + k]
    BY <1>1, <2>1, <2>3
  <2> QED
    BY <2>4, <2>5
<1> QED
  BY <1>2, <1>3

-----------------------------------------------------------------------------
(* The digit loop. *)

Acc(max) == [result : {"ok", "overflow", "invalid"}, out : 0..max, digit : 1..max,
             first : BOOLEAN]

Start == [result |-> "ok", out |-> 0, digit |-> 1, first |-> TRUE]

Weight(acc, base) == IF acc.first THEN 1 ELSE acc.digit * base

(* The guards of an iteration keep its arithmetic inside the target type. *)
LEMMA StepStays ==
    ASSUME NEW max \in Nat \ {0}, NEW base \in Nat \ {0}, NEW acc \in Acc(max),
           NEW value \in Nat \cup {-1}
    PROVE  DigitStep(acc, value, base, max) \in Acc(max)
<1>1. /\ acc.out \in 0..max /\ acc.digit \in 1..max /\ acc.first \in BOOLEAN
      /\ acc.result \in {"ok", "overflow", "invalid"}
  BY DEF Acc
<1>2. CASE acc.result # "ok"
  <2>1. DigitStep(acc, value, base, max) = acc
    BY <1>2 DEF DigitStep
  <2> QED
    BY <2>1
<1>3. CASE acc.result = "ok" /\ WeightOverflows(acc, base, max)
  BY <1>1, <1>3 DEF DigitStep, Acc
<1>4. CASE acc.result = "ok" /\ ~WeightOverflows(acc, base, max) /\ value = -1
  BY <1>1, <1>4 DEF DigitStep, Acc
<1>5. CASE acc.result = "ok" /\ ~WeightOverflows(acc, base, max) /\ value # -1
  <2> DEFINE w == Weight(acc, base)
  <2>1. w \in 1..max
    <3>1. CASE ~acc.first
      <4>1. max \div base \in Nat /\ acc.digit <= max \div base
        BY <1>1, <1>5, <3>1 DEF WeightOverflows
      <4>2. acc.digit * base <= max
        BY <1>1, <4>1, DivBound
      <4>3. acc.digit * base \in Nat /\ acc.digit * base >= base
        BY <1>1, AtLeast
      <4> QED
        BY <3>1, <4>2, <4>3 DEF Weight
    <3> QED
      BY <1>1, <3>1 DEF Weight
  <2>2. DigitStep(acc, value, base, max) =
          IF max \div w < value \/ max - value * w < acc.out
          THEN [acc EXCEPT !.result = "overflow"]
          ELSE [result |-> "ok", out |-> acc.out + value * w, digit |-> w, first |-> FALSE]
    BY <1>5 DEF DigitStep, Weight
  <2> HIDE DEF w
  <2>3. [acc EXCEPT !.result = "overflow"] \in Acc(max)
    BY <1>1 DEF Acc
  <2>4. ASSUME ~(max \div w < value), ~(max - value * w < acc.out)
        PROVE  acc.out + value * w \in 0..max
    <3>1. PICK p \in Nat : p = value * w
      BY <1>5, <2>1, AtLeast
    <3> QED
      BY <1>1, <2>4, <3>1
  <2> QED
    BY <2>1, <2>2, <2>3, <2>4 DEF Acc
<1> QED
  BY <1>1, <1>2, <1>3, <1>4, <1>5

(* What the iterations leave, from the last digit to the leading zeros that *)
(* end at offset z.                                                         *)
Iterations(in, ValueOf, base, max, z, acc) ==
    /\ acc \in [0..(Len(in) - z) -> Acc(max)]
    /\ acc[0] = Start
    /\ \A k \in 1..(Len(in) - z) :
          acc[k] = DigitStep(acc[k - 1], ValueOf[in[Len(in) + 1 - k]], base, max)

LEMMA LoopIterations ==
    ASSUME NEW in \in Seq(Byte), NEW max \in Nat \ {0}, NEW base \in Nat \ {0},
           NEW ValueOf, Valued(ValueOf, base)
    PROVE  \E z, acc : /\ Leads(in, z)
                       /\ Iterations(in, ValueOf, base, max, z, acc)
                       /\ DigitLoop(in, ValueOf, base, max) = acc[Len(in) - z]
<1>1. PICK z : /\ Leads(in, z)
               /\ Len(SkipZeros(in)) = Len(in) - z
               /\ \A k \in 1..(Len(in) - z) : SkipZeros(in)[k] = in[z + k]
  BY SkipZerosLeads
<1> DEFINE N == Len(in) - z
           D == Acc(max)
           Value(k) == ValueOf[in[Len(in) + 1 - k]]
           G == [k \in 1..N |-> [acc \in D |-> DigitStep(acc, Value(k), base, max)]]
           E(f, k) == IF k = 0 THEN Start ELSE DigitStep(f[k - 1], Value(k), base, max)
           IsLoop(f) == f = [k \in 0..N |-> E(f, k)]
           loop == CHOOSE f : IsLoop(f)
<1>2. N \in Nat /\ Len(in) \in Nat /\ z \in Nat
  BY <1>1 DEF Leads
<1>3. ASSUME NEW k \in 1..N
      PROVE  /\ SkipZeros(in)[N + 1 - k] = in[Len(in) + 1 - k]
             /\ Value(k) \in Nat \cup {-1}
  <2>1. N + 1 - k \in 1..N /\ z + (N + 1 - k) = Len(in) + 1 - k
        /\ Len(in) + 1 - k \in 1..Len(in)
    BY <1>2
  <2>2. in[Len(in) + 1 - k] \in Byte
    BY <2>1
  <2> QED
    BY <1>1, <2>1, <2>2 DEF Valued
<1>4. DigitLoop(in, ValueOf, base, max) = loop[N]
  <2> DEFINE digits == SkipZeros(in)
             F(f, k) == IF k = 0 THEN Start
                        ELSE DigitStep(f[k - 1], ValueOf[digits[N + 1 - k]], base, max)
  <2>1. DigitLoop(in, ValueOf, base, max) = (CHOOSE f : f = [k \in 0..N |-> F(f, k)])[N]
    BY <1>1 DEF DigitLoop, Start
  <2>2. \A f : \A k \in 0..N : F(f, k) = E(f, k)
    BY <1>2, <1>3
  <2> HIDE DEF F, E
  <2>3. \A f : [k \in 0..N |-> F(f, k)] = [k \in 0..N |-> E(f, k)]
    BY <2>2
  <2>4. (CHOOSE f : f = [k \in 0..N |-> F(f, k)]) = loop
    BY <2>3
  <2> QED
    BY <2>1, <2>4
<1> HIDE DEF N, Value
<1>5. /\ G \in [1..N -> [D -> D]]
      /\ \A k \in 1..N : \A acc \in D : G[k][acc] = DigitStep(acc, Value(k), base, max)
  <2>1. \A k \in 1..N : \A acc \in D : DigitStep(acc, Value(k), base, max) \in D
    BY <1>3, StepStays
  <2> HIDE DEF D
  <2> QED
    BY <2>1
<1> HIDE DEF G
<1>6. Start \in D
  BY DEF Start, Acc
<1> HIDE DEF D
<1>7. PICK r : Solves(r, N, D, Start, G)
  BY <1>2, <1>5, <1>6, RecursionTo
<1>8. r \in [0..N -> D] /\ r[0] = Start
  BY <1>7 DEF Solves
<1>9. ASSUME NEW k \in 0..N PROVE r[k] = E(r, k)
  <2>1. CASE k = 0
    BY <1>8, <2>1
  <2>2. CASE k # 0
    <3>1. k \in 1..N /\ k - 1 \in 0..N
      BY <1>2, <2>2
    <3>2. r[k] = G[k][r[k - 1]] /\ r[k - 1] \in D
      BY <1>7, <1>8, <3>1 DEF Solves
    <3> QED
      BY <1>5, <2>2, <3>1, <3>2
  <2> QED
    BY <2>1, <2>2
<1> HIDE DEF E
<1>10. IsLoop(r)
  BY <1>8, <1>9
<1>11. IsLoop(loop)
  BY <1>10
<1> HIDE DEF loop
<1>12. (\A k \in 0..N : loop[k] = E(loop, k)) /\ loop = [k \in 0..N |-> loop[k]]
  BY <1>11
<1>13. loop[0] = Start
  BY <1>2, <1>12 DEF E
<1>14. ASSUME NEW k \in 1..N PROVE loop[k] = DigitStep(loop[k - 1], Value(k), base, max)
  <2>1. k \in 0..N /\ k # 0
    BY <1>2
  <2> QED
    BY <1>12, <2>1 DEF E
<1>15. \A k \in 0..N : loop[k] \in D
  <2> DEFINE S == {k \in 0..N : loop[k] \in D}
  <2>1. 0 \in S
    BY <1>2, <1>6, <1>13
  <2>2. ASSUME NEW k \in 1..N, k - 1 \in S PROVE k \in S
    <3>1. k \in 0..N
      BY <1>2
    <3>2. loop[k - 1] \in Acc(max) /\ Value(k) \in Nat \cup {-1}
      BY <1>3, <2>2 DEF D
    <3>3. DigitStep(loop[k - 1], Value(k), base, max) \in Acc(max)
      BY <3>2, StepStays
    <3> QED
      BY <1>14, <3>1, <3>3 DEF D
  <2> HIDE DEF S
  <2>3. \A k \in 0..N : k \in S
    BY <1>2, <2>1, <2>2, InductTo
  <2> QED
    BY <2>3 DEF S
<1>16. Iterations(in, ValueOf, base, max, z, loop)
  BY <1>12, <1>13, <1>14, <1>15 DEF Iterations, N, D, Value
<1> QED
  BY <1>1, <1>4, <1>16 DEF N

(* No arithmetic of the loop leaves the target type. *)
LEMMA LoopNeverWraps ==
    ASSUME NEW in \in Seq(Byte), NEW max \in Nat \ {0}, NEW base \in Nat \ {0},
           NEW ValueOf, Valued(ValueOf, base)
    PROVE  DigitLoop(in, ValueOf, base, max) \in Acc(max)
<1>1. PICK z, acc : /\ Leads(in, z)
                    /\ Iterations(in, ValueOf, base, max, z, acc)
                    /\ DigitLoop(in, ValueOf, base, max) = acc[Len(in) - z]
  BY LoopIterations
<1>2. Len(in) - z \in 0..(Len(in) - z)
  BY <1>1 DEF Leads
<1> QED
  BY <1>1, <1>2 DEF Iterations

-----------------------------------------------------------------------------
(* The loop finds the number, although it reads the digits backwards. *)

IsNumeralOf(in, ValueOf) == \A k \in 1..Len(in) : ValueOf[in[k]] # -1

(* The prefixes of a numeral denote 0 up to the end of its leading zeros and *)
(* more from there on.                                                       *)
LEMMA PrefixesGrow ==
    ASSUME NEW in \in Seq(Byte), NEW base \in Nat \ {0}, NEW ValueOf, Valued(ValueOf, base),
           IsNumeralOf(in, ValueOf), NEW num, PrefixNumbers(in, ValueOf, base, num),
           NEW z, Leads(in, z)
    PROVE  \A k \in 0..Len(in) : /\ num[k] \in Nat
                                 /\ k <= z => num[k] = 0
                                 /\ k > z => num[k] >= 1
<1> DEFINE S == {k \in 0..Len(in) : /\ num[k] \in Nat
                                    /\ k <= z => num[k] = 0
                                    /\ k > z => num[k] >= 1}
<1>1. Len(in) \in Nat /\ z \in 0..Len(in)
  BY DEF Leads
<1>2. 0 \in S
  BY <1>1 DEF PrefixNumbers
<1>3. ASSUME NEW k \in 1..Len(in), k - 1 \in S PROVE k \in S
  <2>1. in[k] \in Byte /\ ValueOf[in[k]] # -1
    BY DEF IsNumeralOf
  <2>2. PICK v \in Nat : v = ValueOf[in[k]] /\ (v = 0 <=> in[k] = 48)
    BY <2>1 DEF Valued
  <2>3. PICK x \in Nat : x = num[k - 1]
    BY <1>3
  <2>4. PICK p \in Nat : p = x * base /\ (x = 0 => p = 0) /\ (x >= 1 => p >= 1)
    BY <2>3, AtLeast
  <2>5. num[k] = p + v
    BY <2>2, <2>3, <2>4 DEF PrefixNumbers
  <2>6. CASE k <= z
    <3>1. in[k] = 48 /\ x = 0
      BY <1>1, <1>3, <2>3, <2>6 DEF Leads
    <3>2. num[k] = 0 /\ ~(k > z) /\ k \in 0..Len(in)
      BY <1>1, <2>2, <2>4, <2>5, <2>6, <3>1
    <3> QED
      BY <3>2
  <2>7. CASE k = z + 1
    <3>1. in[k] # 48
      BY <1>1, <2>7 DEF Leads
    <3> QED
      BY <1>1, <2>2, <2>4, <2>5, <2>7, <3>1
  <2>8. CASE k > z + 1
    <3>1. x >= 1
      BY <1>1, <1>3, <2>3, <2>8
    <3> QED
      BY <1>1, <2>2, <2>4, <2>5, <2>8, <3>1
  <2> QED
    BY <1>1, <2>6, <2>7, <2>8
<1> HIDE DEF S
<1>4. \A k \in 0..Len(in) : k \in S
  BY <1>1, <1>2, <1>3, InductTo
<1> QED
  BY <1>4 DEF S

(* What k iterations have found out of the number that a numeral denotes:   *)
(* the digits read so far are added up, and those in front of them count    *)
(* for at least the weight of the next one.                                 *)
Found(acc, base, max, front, number) ==
    /\ acc.result # "invalid"
    /\ acc.result = "ok" => number = front * Weight(acc, base) + acc.out
    /\ acc.result = "overflow" => number > max

LEMMA StepFinds ==
    ASSUME NEW max \in Nat \ {0}, NEW base \in Nat \ {0}, NEW acc \in Acc(max),
           NEW value \in Nat, NEW front \in Nat, NEW number \in Nat,
           front * base + value >= 1,
           Found(acc, base, max, front * base + value, number)
    PROVE  Found(DigitStep(acc, value, base, max), base, max, front, number)
<1>1. acc.out \in Nat /\ acc.digit \in Nat \ {0} /\ acc.first \in BOOLEAN
  BY DEF Acc
<1>2. CASE acc.result # "ok"
  BY <1>2 DEF DigitStep, Found
<1>3. CASE acc.result = "ok"
  <2>1. PICK w \in Nat \ {0} : w = Weight(acc, base)
    BY <1>1, AtLeast DEF Weight
  <2>2. PICK x \in Nat : x = front * base + value /\ x >= 1
    BY AtLeast
  <2>3. number = x * w + acc.out /\ x * w \in Nat /\ x * w >= w
    BY <1>1, <1>3, <2>1, <2>2, AtLeast DEF Found
  <2>4. CASE WeightOverflows(acc, base, max)
    <3>1. acc.digit > max \div base /\ ~acc.first
      BY <1>1, <2>4 DEF WeightOverflows
    <3>2. w > max
      BY <1>1, <2>1, <3>1, DivBound DEF Weight
    <3> QED
      BY <1>1, <1>3, <2>3, <2>4, <3>2 DEF DigitStep, Found
  <2>5. CASE ~WeightOverflows(acc, base, max)
    <3>1. DigitStep(acc, value, base, max) =
            IF max \div w < value \/ max - value * w < acc.out
            THEN [acc EXCEPT !.result = "overflow"]
            ELSE [result |-> "ok", out |-> acc.out + value * w, digit |-> w,
                  first |-> FALSE]
      BY <1>3, <2>1, <2>5 DEF DigitStep, Weight
    <3>2. PICK p \in Nat : p = value * w /\ (value > max \div w => p > max)
      BY <2>1, AtLeast, DivBound
    <3>3. PICK y \in Nat : y = w * base
      BY <2>1, AtLeast
    <3>4. front * y \in Nat
      BY <3>3, AtLeast
    <3>5. number = front * y + (acc.out + p)
      BY <1>1, <2>1, <2>2, <2>3, <3>2, <3>3, DigitInFront
    <3>6. ASSUME max \div w < value \/ max - p < acc.out PROVE number > max
      BY <1>1, <2>1, <3>2, <3>4, <3>5, <3>6
    <3>7. CASE max \div w < value \/ max - p < acc.out
      <4>1. DigitStep(acc, value, base, max) = [acc EXCEPT !.result = "overflow"]
        BY <3>1, <3>2, <3>7
      <4>2. [acc EXCEPT !.result = "overflow"].result = "overflow"
        BY DEF Acc
      <4> QED
        BY <3>6, <3>7, <4>1, <4>2 DEF Found
    <3>8. CASE ~(max \div w < value \/ max - p < acc.out)
      <4> DEFINE new == [result |-> "ok", out |-> acc.out + p, digit |-> w, first |-> FALSE]
      <4>1. DigitStep(acc, value, base, max) = new
        BY <3>1, <3>2, <3>8
      <4>2. new.result = "ok" /\ new.out = acc.out + p /\ Weight(new, base) = y
        BY <3>3 DEF Weight
      <4> HIDE DEF new
      <4> QED
        BY <3>5, <4>1, <4>2 DEF Found
    <3> QED
      BY <3>7, <3>8
  <2> QED
    BY <2>4, <2>5
<1> QED
  BY <1>2, <1>3

LEMMA LoopDecodes ==
    ASSUME NEW in \in Seq(Byte), NEW max \in Nat \ {0}, NEW base \in Nat \ {0},
           NEW ValueOf, Valued(ValueOf, base)
    PROVE  LET acc == DigitLoop(in, ValueOf, base, max)
               number == Number(in, ValueOf, base)
           IN  /\ acc.result = "ok" => IsNumeralOf(in, ValueOf)
               /\ IsNumeralOf(in, ValueOf) =>
                     /\ number \in Nat
                     /\ acc.result # "invalid"
                     /\ acc.result = "ok" => acc.out = number
                     /\ acc.result = "overflow" => number > max
<1>1. PICK z, acc : /\ Leads(in, z)
                    /\ Iterations(in, ValueOf, base, max, z, acc)
                    /\ DigitLoop(in, ValueOf, base, max) = acc[Len(in) - z]
  BY LoopIterations
<1>2. ValueOf \in [Byte -> Int]
  BY DEF Valued
<1>3. PICK num : PrefixNumbers(in, ValueOf, base, num)
                 /\ Number(in, ValueOf, base) = num[Len(in)]
  BY <1>2, NumberPrefixes
<1> DEFINE L == Len(in)
           N == L - z
<1>4. L \in Nat /\ z \in 0..L /\ N \in Nat
  BY <1>1 DEF Leads
<1>5. ASSUME NEW k \in 1..N
      PROVE  /\ L + 1 - k \in 1..L /\ ValueOf[in[L + 1 - k]] \in Nat \cup {-1}
             /\ acc[k - 1] \in Acc(max)
             /\ acc[k] = DigitStep(acc[k - 1], ValueOf[in[L + 1 - k]], base, max)
  <2>1. L + 1 - k \in 1..L /\ k - 1 \in 0..N
    BY <1>4
  <2>2. in[L + 1 - k] \in Byte
    BY <2>1
  <2>3. ValueOf[in[L + 1 - k]] \in -1..(base - 1)
    BY <2>2 DEF Valued
  <2>4. acc[k - 1] \in Acc(max)
    BY <1>1, <2>1 DEF Iterations
  <2> QED
    BY <1>1, <2>1, <2>3, <2>4 DEF Iterations
<1>6. ASSUME acc[N].result = "ok" PROVE IsNumeralOf(in, ValueOf)
  <2> DEFINE S == {k \in 0..N : acc[k].result = "ok" =>
                                   \A j \in (L + 1 - k)..L : ValueOf[in[j]] # -1}
  <2>1. 0 \in S
    BY <1>4
  <2>2. ASSUME NEW k \in 1..N, k - 1 \in S PROVE k \in S
    <3> DEFINE v == ValueOf[in[L + 1 - k]]
    <3>1. acc[k].result = "ok" => acc[k - 1].result = "ok" /\ v # -1
      <4>1. CASE acc[k - 1].result # "ok"
        BY <1>5, <4>1 DEF DigitStep
      <4>2. CASE acc[k - 1].result = "ok" /\ v = -1
        BY <1>5, <4>2 DEF DigitStep, Acc
      <4> QED
        BY <4>1, <4>2
    <3> HIDE DEF v
    <3>2. ASSUME acc[k].result = "ok", NEW j \in (L + 1 - k)..L PROVE ValueOf[in[j]] # -1
      <4>1. CASE j = L + 1 - k
        BY <3>1, <3>2, <4>1 DEF v
      <4>2. CASE j # L + 1 - k
        <5>1. j \in (L + 1 - (k - 1))..L
          BY <1>4, <4>2
        <5> QED
          BY <2>2, <3>1, <3>2, <5>1
      <4> QED
        BY <4>1, <4>2
    <3> QED
      BY <1>4, <3>2
  <2> HIDE DEF S
  <2>3. \A k \in 0..N : k \in S
    BY <1>4, <2>1, <2>2, InductTo
  <2>4. \A j \in (L + 1 - N)..L : ValueOf[in[j]] # -1
    BY <1>4, <1>6, <2>3 DEF S
  <2>5. \A j \in 1..z : ValueOf[in[j]] # -1
    <3>1. 48 \in Byte /\ ValueOf[48] = 0
      BY DEF Valued, Byte
    <3>2. \A j \in 1..z : in[j] = 48
      BY <1>1 DEF Leads
    <3> QED
      BY <3>1, <3>2
  <2> QED
    BY <1>4, <2>4, <2>5 DEF IsNumeralOf
<1>7. ASSUME IsNumeralOf(in, ValueOf)
      PROVE  num[L] \in Nat /\ Found(acc[N], base, max, 0, num[L])
  <2>1. \A k \in 0..L : /\ num[k] \in Nat
                        /\ k <= z => num[k] = 0
                        /\ k > z => num[k] >= 1
    BY <1>1, <1>3, <1>7, PrefixesGrow
  <2> DEFINE S == {k \in 0..N : Found(acc[k], base, max, num[L - k], num[L])}
  <2>2. 0 \in S
    <3>1. acc[0] = Start
      BY <1>1 DEF Iterations
    <3>2. num[L - 0] = num[L] /\ num[L] \in Nat
      BY <1>4, <2>1
    <3> QED
      BY <1>4, <3>1, <3>2 DEF Found, Start, Weight
  <2>3. ASSUME NEW k \in 1..N, k - 1 \in S PROVE k \in S
    <3>1. /\ L - k \in 0..L /\ L + 1 - k \in 1..L /\ L + 1 - k > z
          /\ L - (k - 1) = L + 1 - k /\ (L + 1 - k) - 1 = L - k
      BY <1>4
    <3>2. PICK v \in Nat : v = ValueOf[in[L + 1 - k]]
      BY <1>5, <1>7, <3>1 DEF IsNumeralOf
    <3>3. num[L + 1 - k] = num[L - k] * base + v
      BY <1>3, <3>1, <3>2 DEF PrefixNumbers
    <3>4. num[L + 1 - k] >= 1 /\ num[L - k] \in Nat /\ num[L] \in Nat
      BY <1>4, <2>1, <3>1
    <3>5. Found(acc[k - 1], base, max, num[L - k] * base + v, num[L])
      BY <2>3, <3>1, <3>3
    <3>6. Found(DigitStep(acc[k - 1], v, base, max), base, max, num[L - k], num[L])
      BY <1>5, <3>3, <3>4, <3>5, StepFinds
    <3> QED
      BY <1>4, <1>5, <3>2, <3>6
  <2> HIDE DEF S
  <2>4. \A k \in 0..N : k \in S
    BY <1>4, <2>2, <2>3, InductTo
  <2>5. num[L - N] = 0 /\ num[L] \in Nat
    BY <1>4, <2>1
  <2> QED
    BY <1>4, <2>4, <2>5 DEF S
<1>8. acc[N] \in Acc(max)
  <2>1. acc \in [0..N -> Acc(max)] /\ N \in 0..N
    BY <1>1, <1>4 DEF Iterations
  <2> HIDE DEF N
  <2> QED
    BY <2>1
<1>9. ASSUME IsNumeralOf(in, ValueOf), acc[N].result = "ok" PROVE acc[N].out = num[L]
  <2>1. Weight(acc[N], base) \in Nat /\ acc[N].out \in Nat
    BY <1>8, AtLeast DEF Weight, Acc
  <2>2. 0 * Weight(acc[N], base) = 0
    BY <2>1
  <2> QED
    BY <1>7, <1>9, <2>1, <2>2 DEF Found
<1> QED
  BY <1>1, <1>3, <1>6, <1>7, <1>9 DEF Found

(* The result of a decoder. *)
LEMMA DecodeResult ==
    ASSUME NEW in \in Seq(Byte), NEW max \in Nat \ {0}, NEW base \in Nat \ {0},
           NEW ValueOf, Valued(ValueOf, base), NEW out
    PROVE  LET d == decode(in, out, ValueOf, base, max)
               number == Number(in, ValueOf, base)
               numeral == in # <<>> /\ IsNumeralOf(in, ValueOf)
           IN  /\ d.result \in {"ok", "overflow", "invalid"}
               /\ d.result = "ok" <=> numeral /\ number <= max
               /\ d.result = "ok" => d.out = number
               /\ d.result = "invalid" => ~numeral
               /\ out \in 0..max => d.out \in 0..max
               /\ numeral => number \in Nat
<1> DEFINE acc == DigitLoop(in, ValueOf, base, max)
           number == Number(in, ValueOf, base)
           d == decode(in, out, ValueOf, base, max)
<1>1. /\ acc.result \in {"ok", "overflow", "invalid"} /\ acc.out \in 0..max
  BY LoopNeverWraps DEF Acc
<1>2. /\ acc.result = "ok" => IsNumeralOf(in, ValueOf)
      /\ IsNumeralOf(in, ValueOf) =>
            /\ number \in Nat
            /\ acc.result # "invalid"
            /\ acc.result = "ok" => acc.out = number
            /\ acc.result = "overflow" => number > max
  BY LoopDecodes
<1>3. /\ in = <<>> => d.result = "invalid" /\ d.out = out
      /\ in # <<>> => d.result = acc.result /\ d.out = acc.out
  BY DEF decode
<1> HIDE DEF acc, number, d
<1>4. CASE in = <<>>
  BY <1>2, <1>3, <1>4 DEF d, number
<1>5. CASE in # <<>>
  BY <1>1, <1>2, <1>3, <1>5 DEF d, number
<1> QED
  BY <1>4, <1>5

-----------------------------------------------------------------------------
(* Views. *)

LEMMA ViewIsView ==
    ASSUME NEW buf \in Seq(Byte), NEW i \in Nat, NEW e \in i..Len(buf)
    PROVE  View(buf, i, e) \in Seq(Byte) /\ Len(View(buf, i, e)) = e - i
BY DEF View

LEMMA ViewAt ==
    ASSUME NEW buf \in Seq(Byte), NEW i \in Nat, NEW e \in i..Len(buf), NEW k \in 1..(e - i)
    PROVE  View(buf, i, e)[k] = buf[i + k]
BY DEF View

LEMMA FieldValueIsView ==
    ASSUME NEW in \in Seq(Byte)
    PROVE  decode_field_value(in) \in Seq(Byte)
<1> DEFINE S == {1} \cup {k \in 1..Len(in) : in[k] \notin is_ows}
<1>1. CASE in = <<>>
  BY <1>1 DEF decode_field_value
<1>2. CASE in # <<>>
  <2>1. Len(in) \in Nat /\ Len(in) >= 1
    BY <1>2
  <2>2. S \in SUBSET (0..Len(in)) /\ S # {} /\ S \subseteq 1..Len(in)
    BY <2>1
  <2>3. decode_field_value(in) = SubSeq(in, 1, Max(S))
    BY <1>2 DEF decode_field_value
  <2> HIDE DEF S
  <2>4. Max(S) \in 1..Len(in)
    BY <2>1, <2>2, MaxOf
  <2> QED
    BY <2>1, <2>3, <2>4
<1> QED
  BY <1>1, <1>2

-----------------------------------------------------------------------------
(* The list walk of header_value_any_of. *)

NextComma(v, c) == Min({k \in c..Len(v) : k = Len(v) \/ v[k + 1] = COMMA})

(* What one turn of the loop, entered at offset c, offers to the predicate. *)
Offered(v, c) == LET value == Trim(View(v, c, NextComma(v, c)))
                 IN  IF value = <<>> THEN <<>> ELSE <<value>>

(* w[c] is what the loop offers from offset c on. *)
Walks(v, w) ==
    /\ w \in [0..Len(v) -> Seq(Seq(Byte))]
    /\ \A c \in 0..Len(v) :
          w[c] = IF NextComma(v, c) + 1 >= Len(v) THEN Offered(v, c)
                 ELSE Offered(v, c) \o w[NextComma(v, c) + 1]

LEMMA NextCommaIs ==
    ASSUME NEW v \in Seq(Byte), NEW c \in 0..Len(v)
    PROVE  /\ NextComma(v, c) \in c..Len(v)
           /\ NextComma(v, c) = Len(v) \/ v[NextComma(v, c) + 1] = COMMA
           /\ \A k \in (c + 1)..NextComma(v, c) : v[k] # COMMA
<1> DEFINE S == {k \in c..Len(v) : k = Len(v) \/ v[k + 1] = COMMA}
<1>1. Len(v) \in Nat
  OBVIOUS
<1>2. S \in SUBSET (0..Len(v)) /\ S # {}
  BY <1>1
<1>3. NextComma(v, c) = Min(S)
  BY DEF NextComma
<1>4. Min(S) \in S /\ \A k \in S : Min(S) <= k
  <2> HIDE DEF S
  <2> QED
    BY <1>1, <1>2, MinOf
<1>5. ASSUME NEW k \in (c + 1)..Min(S) PROVE v[k] # COMMA
  <2>1. k - 1 \in c..Len(v) /\ k - 1 < Min(S)
    BY <1>1, <1>4
  <2>2. k - 1 \notin S
    BY <1>1, <1>4, <2>1
  <2> QED
    BY <1>1, <2>1, <2>2
<1> QED
  BY <1>3, <1>4, <1>5

(* Trim cuts a view at its first and its last byte that is not white space. *)
LEMMA TrimIs ==
    ASSUME NEW v \in Seq(Byte)
    PROVE  \/ Trim(v) = <<>> /\ \A k \in 1..Len(v) : v[k] \in is_ows
           \/ \E b, e \in 1..Len(v) :
                /\ b <= e /\ Trim(v) = SubSeq(v, b, e)
                /\ v[b] \notin is_ows /\ v[e] \notin is_ows
                /\ \A k \in 1..(b - 1) : v[k] \in is_ows
                /\ \A k \in (e + 1)..Len(v) : v[k] \in is_ows
<1> DEFINE ink == {k \in 1..Len(v) : v[k] \notin is_ows}
<1>1. Len(v) \in Nat /\ ink \in SUBSET (0..Len(v))
  OBVIOUS
<1>2. CASE ink = {}
  BY <1>2 DEF Trim
<1>3. CASE ink # {}
  <2>1. /\ Min(ink) \in ink /\ \A k \in ink : Min(ink) <= k
        /\ Max(ink) \in ink /\ \A k \in ink : k <= Max(ink)
    <3> HIDE DEF ink
    <3> QED
      BY <1>1, <1>3, MinOf, MaxOf
  <2>2. Trim(v) = SubSeq(v, Min(ink), Max(ink))
    BY <1>3 DEF Trim
  <2>3. PICK b \in ink, e \in ink : b = Min(ink) /\ e = Max(ink)
    BY <2>1
  <2>4. /\ b \in 1..Len(v) /\ e \in 1..Len(v) /\ b <= e
        /\ Trim(v) = SubSeq(v, b, e)
        /\ v[b] \notin is_ows /\ v[e] \notin is_ows
    BY <2>1, <2>2, <2>3
  <2>5. ASSUME NEW k \in 1..(b - 1) PROVE v[k] \in is_ows
    BY <1>1, <2>1, <2>3
  <2>6. ASSUME NEW k \in (e + 1)..Len(v) PROVE v[k] \in is_ows
    BY <1>1, <2>1, <2>3
  <2> QED
    BY <2>4, <2>5, <2>6
<1> QED
  BY <1>2, <1>3

LEMMA OfferedIs ==
    ASSUME NEW v \in Seq(Byte), NEW c \in 0..Len(v)
    PROVE  Offered(v, c) \in Seq(Seq(Byte)) /\ Len(Offered(v, c)) \in {0, 1}
<1> DEFINE u == View(v, c, NextComma(v, c))
<1>1. Len(v) \in Nat /\ c \in Nat
  OBVIOUS
<1>2. u \in Seq(Byte)
  BY <1>1, NextCommaIs, ViewIsView
<1>3. Offered(v, c) = IF Trim(u) = <<>> THEN <<>> ELSE <<Trim(u)>>
  BY DEF Offered
<1> HIDE DEF u
<1>4. Trim(u) \in Seq(Byte)
  <2>1. Len(u) \in Nat
    BY <1>2
  <2>2. ASSUME NEW b \in 1..Len(u), NEW e \in 1..Len(u), b <= e
        PROVE  SubSeq(u, b, e) \in Seq(Byte)
    BY <1>2, <2>1, <2>2
  <2>3. \/ Trim(u) = <<>>
        \/ \E b, e \in 1..Len(u) : b <= e /\ Trim(u) = SubSeq(u, b, e)
    BY <1>2, TrimIs
  <2>4. <<>> \in Seq(Byte)
    OBVIOUS
  <2>5. CASE \E b, e \in 1..Len(u) : b <= e /\ Trim(u) = SubSeq(u, b, e)
    <3>1. PICK b \in 1..Len(u), e \in 1..Len(u) : b <= e /\ Trim(u) = SubSeq(u, b, e)
      BY <2>5
    <3> QED
      BY <2>2, <3>1
  <2> QED
    BY <2>3, <2>4, <2>5
<1> QED
  BY <1>3, <1>4

LEMMA ListWalks ==
    ASSUME NEW v \in Seq(Byte)
    PROVE  \E w : Walks(v, w) /\ ListElements(v) = w[0]
<1> DEFINE N == Len(v)
           D == Seq(Seq(Byte))
           E(f, c) == IF NextComma(v, c) + 1 >= N THEN Offered(v, c)
                      ELSE Offered(v, c) \o f[NextComma(v, c) + 1]
           walk == CHOOSE f : f = [c \in 0..N |-> E(f, c)]
           T == {n \in 0..N : \E f \in [(N - n)..N -> D] :
                                 \A c \in (N - n)..N : f[c] = E(f, c)}
<1>1. N \in Nat
  OBVIOUS
<1>2. ListElements(v) = walk[0]
  BY DEF ListElements, Offered, NextComma
<1>3. ASSUME NEW c \in 0..N
      PROVE  /\ Offered(v, c) \in D
             /\ NextComma(v, c) \in c..N
  BY NextCommaIs, OfferedIs
<1> HIDE DEF N
<1>4. 0 \in T
  <2> DEFINE f == [c \in (N - 0)..N |-> Offered(v, c)]
  <2>1. /\ f \in [(N - 0)..N -> D]
    BY <1>1, <1>3
  <2>2. ASSUME NEW c \in (N - 0)..N PROVE f[c] = E(f, c)
    <3>1. c = N /\ NextComma(v, c) = N
      BY <1>1, <1>3
    <3> QED
      BY <1>1, <3>1
  <2> HIDE DEF f, D, E
  <2>3. \E g \in [(N - 0)..N -> D] : \A c \in (N - 0)..N : g[c] = E(g, c)
    BY <2>1, <2>2
  <2> QED
    BY <1>1, <2>3
<1>5. ASSUME NEW n \in 1..N, n - 1 \in T PROVE n \in T
  <2>1. PICK f \in [(N - (n - 1))..N -> D] : \A c \in (N - (n - 1))..N : f[c] = E(f, c)
    BY <1>5
  <2> DEFINE g == [c \in (N - n)..N |-> IF c = N - n THEN E(f, c) ELSE f[c]]
  <2>2. \A c \in (N - n)..N : c \in 0..N /\ (c # N - n => c \in (N - (n - 1))..N)
    BY <1>1
  <2>3. ASSUME NEW c \in (N - n)..N PROVE E(g, c) = E(f, c)
    <3>1. CASE NextComma(v, c) + 1 >= N
      BY <3>1
    <3>2. CASE ~(NextComma(v, c) + 1 >= N)
      <4>1. PICK m \in c..N : m = NextComma(v, c)
        BY <1>3, <2>2
      <4>2. m + 1 \in (N - n)..N /\ m + 1 # N - n
        BY <1>1, <3>2, <4>1
      <4>3. g[m + 1] = f[m + 1]
        BY <4>2
      <4> HIDE DEF g
      <4> QED
        BY <4>1, <4>3
    <3> QED
      BY <3>1, <3>2
  <2>4. ASSUME NEW c \in (N - n)..N PROVE g[c] = E(g, c) /\ g[c] \in D
    <3>1. CASE c # N - n
      <4>1. c \in (N - (n - 1))..N
        BY <2>2, <3>1
      <4>2. g[c] = f[c] /\ f[c] \in D
        BY <2>1, <3>1, <4>1
      <4> QED
        BY <2>1, <2>3, <4>1, <4>2
    <3>2. CASE c = N - n
      <4>1. g[c] = E(f, c)
        BY <3>2
      <4>2. E(f, c) \in D
        <5>1. CASE NextComma(v, c) + 1 >= N
          BY <1>3, <2>2, <5>1
        <5>2. CASE ~(NextComma(v, c) + 1 >= N)
          <6>0. PICK m \in c..N : m = NextComma(v, c)
            BY <1>3, <2>2
          <6>1. NextComma(v, c) + 1 \in (N - (n - 1))..N
            BY <1>1, <3>2, <5>2, <6>0
          <6>2. f[NextComma(v, c) + 1] \in D /\ Offered(v, c) \in D
            BY <1>3, <2>2, <6>1
          <6>3. Offered(v, c) \o f[NextComma(v, c) + 1] \in D
            BY <6>2
          <6> QED
            BY <5>2, <6>3
        <5> QED
          BY <5>1, <5>2
      <4> QED
        BY <2>3, <4>1, <4>2
    <3> QED
      BY <3>1, <3>2
  <2>5. g = [c \in (N - n)..N |-> g[c]]
    OBVIOUS
  <2> HIDE DEF g, D, E
  <2>6. g \in [(N - n)..N -> D]
    BY <2>4, <2>5
  <2>7. \E h \in [(N - n)..N -> D] : \A c \in (N - n)..N : h[c] = E(h, c)
    BY <2>4, <2>6
  <2> QED
    BY <1>1, <2>7
<1>6. \A n \in 0..N : n \in T
  <2> HIDE DEF T
  <2> QED
    BY <1>1, <1>4, <1>5, InductTo
<1>7. PICK f \in [0..N -> D] : \A c \in 0..N : f[c] = E(f, c)
  <2> HIDE DEF D, E, T
  <2>1. N \in T /\ N - N = 0
    BY <1>1, <1>6
  <2> QED
    BY <2>1 DEF T
<1>8. f = [c \in 0..N |-> E(f, c)]
  <2> HIDE DEF D, E
  <2> QED
    BY <1>7
<1>9. walk = [c \in 0..N |-> E(walk, c)]
  <2> HIDE DEF E
  <2> QED
    BY <1>8
<1> HIDE DEF walk
<1>10. ASSUME NEW c \in 0..N PROVE walk[c] = f[c]
  <2> DEFINE U == {n \in 0..N : \A d \in (N - n)..N : walk[d] = f[d]}
  <2>0. \A d \in 0..N : walk[d] = E(walk, d)
    <3> HIDE DEF E
    <3> QED
      BY <1>9
  <2>1. 0 \in U
    <3>1. NextComma(v, N) = N /\ N \in 0..N
      BY <1>1, <1>3
    <3>2. walk[N] = E(walk, N) /\ f[N] = E(f, N)
      BY <1>7, <2>0, <3>1
    <3>3. walk[N] = f[N]
      BY <1>1, <3>1, <3>2
    <3> QED
      BY <1>1, <3>3
  <2>2. ASSUME NEW n \in 1..N, n - 1 \in U PROVE n \in U
    <3> DEFINE d == N - n
    <3>1. d \in 0..N /\ \A x \in (N - (n - 1))..N : walk[x] = f[x]
      BY <1>1, <2>2
    <3>2. walk[d] = E(walk, d) /\ f[d] = E(f, d)
      BY <1>7, <2>0, <3>1
    <3>3. E(walk, d) = E(f, d)
      <4>1. CASE NextComma(v, d) + 1 >= N
        BY <4>1
      <4>2. CASE ~(NextComma(v, d) + 1 >= N)
        <5>0. PICK m \in d..N : m = NextComma(v, d)
          BY <1>3, <3>1
        <5>1. NextComma(v, d) + 1 \in (N - (n - 1))..N
          BY <1>1, <4>2, <5>0
        <5> QED
          BY <3>1, <5>1
      <4> QED
        BY <4>1, <4>2
    <3>4. walk[d] = f[d]
      BY <3>2, <3>3
    <3>5. \A x \in (N - n)..N : x = d \/ x \in (N - (n - 1))..N
      BY <1>1
    <3> QED
      BY <1>1, <3>1, <3>4, <3>5
  <2> HIDE DEF U
  <2>3. \A n \in 0..N : n \in U
    BY <1>1, <2>1, <2>2, InductTo
  <2>4. N \in U /\ c \in (N - N)..N
    BY <1>1, <2>3
  <2> QED
    BY <2>4 DEF U
<1>11. walk[0] = f[0]
  BY <1>1, <1>10
<1>12. Walks(v, f)
  BY <1>7 DEF Walks, N
<1> QED
  BY <1>2, <1>11, <1>12
-----------------------------------------------------------------------------
(* decode_transfer_encoding. *)

PredicateState ==
    [count : Nat, res : {"CHUNKED_NOT_FOUND", "CHUNKED_AT_END", "CHUNKED_INVALID"},
     stop : BOOLEAN]

ChunkedAt(codings) == {k \in 1..Len(codings) : iequals(codings[k], Chunked)}

(* What the predicate remembers of the first k codings: that chunked is not *)
(* among them, that it is the last of them and only there, or neither.      *)
Remembers(s, codings, k) ==
    LET at == {j \in 1..k : iequals(codings[j], Chunked)} IN
    \/ s.res = "CHUNKED_NOT_FOUND" /\ s.count = 0 /\ ~s.stop /\ at = {}
    \/ s.res = "CHUNKED_AT_END" /\ s.count = 1 /\ ~s.stop /\ at = {k}
    \/ s.res = "CHUNKED_INVALID" /\ s.stop /\ \E j \in at : j < k

LEMMA PredicateRemembers ==
    ASSUME NEW s \in PredicateState, NEW codings,
           NEW k \in Nat \ {0}, Remembers(s, codings, k - 1)
    PROVE  Remembers(decode_transfer_encoding_p(s, codings[k]), codings, k)
<1> DEFINE was == {j \in 1..(k - 1) : iequals(codings[j], Chunked)}
           at == {j \in 1..k : iequals(codings[j], Chunked)}
           is == iequals(codings[k], Chunked)
           t == decode_transfer_encoding_p(s, codings[k])
<1>1. at = was \cup (IF is THEN {k} ELSE {})
  OBVIOUS
<1>2. was \subseteq 1..(k - 1)
  OBVIOUS
<1>3. \/ s.res = "CHUNKED_NOT_FOUND" /\ s.count = 0 /\ ~s.stop /\ was = {}
      \/ s.res = "CHUNKED_AT_END" /\ s.count = 1 /\ ~s.stop /\ was = {k - 1}
      \/ s.res = "CHUNKED_INVALID" /\ s.stop /\ \E j \in was : j < k - 1
  BY DEF Remembers
<1>4. t = IF s.stop THEN s
          ELSE IF ~is
          THEN IF s.count = 1 THEN [s EXCEPT !.res = "CHUNKED_INVALID", !.stop = TRUE] ELSE s
          ELSE IF s.count + 1 = 2
          THEN [count |-> s.count + 1, res |-> "CHUNKED_INVALID", stop |-> TRUE]
          ELSE [count |-> s.count + 1, res |-> "CHUNKED_AT_END", stop |-> FALSE]
  BY DEF decode_transfer_encoding_p
<1> USE DEF PredicateState
<1> HIDE DEF is, was, at, t
<1>5. \/ t.res = "CHUNKED_NOT_FOUND" /\ t.count = 0 /\ ~t.stop /\ at = {}
      \/ t.res = "CHUNKED_AT_END" /\ t.count = 1 /\ ~t.stop /\ at = {k}
      \/ t.res = "CHUNKED_INVALID" /\ t.stop /\ \E j \in at : j < k
  <2>1. CASE s.res = "CHUNKED_NOT_FOUND" /\ s.count = 0 /\ ~s.stop /\ was = {}
    <3>1. CASE is
      BY <1>1, <1>4, <2>1, <3>1
    <3>2. CASE ~is
      BY <1>1, <1>4, <2>1, <3>2
    <3> QED
      BY <3>1, <3>2
  <2>2. CASE s.res = "CHUNKED_AT_END" /\ s.count = 1 /\ ~s.stop /\ was = {k - 1}
    <3>1. k - 1 \in at /\ k - 1 < k
      BY <1>1, <2>2
    <3>2. CASE is
      BY <1>4, <2>2, <3>1, <3>2
    <3>3. CASE ~is
      BY <1>4, <2>2, <3>1, <3>3
    <3> QED
      BY <3>2, <3>3
  <2>3. CASE s.res = "CHUNKED_INVALID" /\ s.stop /\ \E j \in was : j < k - 1
    <3>1. PICK j \in was : j < k - 1
      BY <2>3
    <3>2. j \in at /\ j < k
      BY <1>1, <1>2, <3>1
    <3> QED
      BY <1>4, <2>3, <3>2
  <2> QED
    BY <1>3, <2>1, <2>2, <2>3
<1> QED
  BY <1>5 DEF Remembers, at, t

(* decode_transfer_encoding tells the three sorts of lists apart. *)
LEMMA CodingsDecode ==
    ASSUME NEW v \in Seq(Byte)
    PROVE  LET codings == ListElements(v) IN
           /\ codings \in Seq(Seq(Byte))
           /\ decode_transfer_encoding(v) =
                 IF ChunkedAt(codings) = {} THEN "CHUNKED_NOT_FOUND"
                 ELSE IF ChunkedAt(codings) = {Len(codings)} THEN "CHUNKED_AT_END"
                 ELSE "CHUNKED_INVALID"
<1> DEFINE codings == ListElements(v)
           N == Len(codings)
           S0 == [count |-> 0, res |-> "CHUNKED_NOT_FOUND", stop |-> FALSE]
           D == PredicateState
           p(s, k) == decode_transfer_encoding_p(s, codings[k])
           G == [k \in 1..N |-> [d \in D |-> p(d, k)]]
           IsState(f) == f = [k \in 0..N |-> IF k = 0 THEN S0 ELSE p(f[k - 1], k)]
           s == CHOOSE f : IsState(f)
<1>1. codings \in Seq(Seq(Byte)) /\ N \in Nat
  <2>1. PICK w : Walks(v, w) /\ codings = w[0]
    BY ListWalks
  <2>2. codings \in Seq(Seq(Byte))
    <3>1. 0 \in 0..Len(v)
      OBVIOUS
    <3> QED
      BY <2>1, <3>1 DEF Walks
  <2> QED
    BY <2>2
<1>2. decode_transfer_encoding(v) = s[N].res
  BY DEF decode_transfer_encoding
<1> HIDE DEF codings, N
<1>3. ASSUME NEW d \in D, NEW k PROVE p(d, k) \in D
  <2>1. d.count + 1 \in Nat
    BY DEF PredicateState
  <2>2. /\ [d EXCEPT !.res = "CHUNKED_INVALID", !.stop = TRUE] \in D
        /\ [count |-> d.count + 1, res |-> "CHUNKED_INVALID", stop |-> TRUE] \in D
        /\ [count |-> d.count + 1, res |-> "CHUNKED_AT_END", stop |-> FALSE] \in D
    BY <2>1 DEF PredicateState
  <2> HIDE DEF D
  <2> QED
    BY <2>2 DEF decode_transfer_encoding_p
<1>4. G \in [1..N -> [D -> D]]
  BY <1>3
<1>5. \A k \in 1..N : \A d \in D : G[k][d] = p(d, k)
  OBVIOUS
<1>6. S0 \in D
  BY DEF PredicateState
<1> HIDE DEF S0, D, G, p
<1>7. PICK r : Solves(r, N, D, S0, G)
  BY <1>1, <1>4, <1>6, RecursionTo
<1>8. /\ r \in [0..N -> D] /\ r[0] = S0
      /\ \A k \in 1..N : r[k] = p(r[k - 1], k)
  <2>1. ASSUME NEW k \in 1..N PROVE r[k] = p(r[k - 1], k)
    <3>1. k - 1 \in 0..N
      BY <1>1
    <3> QED
      BY <1>5, <1>7, <3>1 DEF Solves
  <2> QED
    BY <1>7, <2>1 DEF Solves
<1>9. IsState(r)
  BY <1>1, <1>8
<1>10. IsState(s)
  BY <1>9
<1> HIDE DEF s
<1>11. s[0] = S0 /\ \A k \in 1..N : s[k] = p(s[k - 1], k)
  <2> DEFINE E(k) == IF k = 0 THEN S0 ELSE p(s[k - 1], k)
  <2>1. s = [k \in 0..N |-> E(k)]
    BY <1>10
  <2> HIDE DEF E
  <2>2. \A k \in 0..N : s[k] = E(k)
    BY <2>1
  <2>3. s[0] = S0
    BY <1>1, <2>2 DEF E
  <2>4. ASSUME NEW k \in 1..N PROVE s[k] = p(s[k - 1], k)
    <3>1. k \in 0..N /\ k # 0
      BY <1>1
    <3>2. s[k] = E(k)
      BY <2>2, <3>1
    <3> QED
      BY <3>1, <3>2 DEF E
  <2> QED
    BY <2>3, <2>4
<1>12. \A k \in 0..N : s[k] \in D /\ Remembers(s[k], codings, k)
  <2> DEFINE T == {k \in 0..N : s[k] \in D /\ Remembers(s[k], codings, k)}
  <2>1. 0 \in T
    <3>1. {j \in 1..0 : iequals(codings[j], Chunked)} = {}
      OBVIOUS
    <3>2. Remembers(S0, codings, 0)
      BY <3>1 DEF Remembers, S0
    <3> QED
      BY <1>1, <1>6, <1>11, <3>2
  <2>2. ASSUME NEW k \in 1..N, k - 1 \in T PROVE k \in T
    <3>1. k \in 0..N /\ k \in Nat \ {0} /\ s[k - 1] \in D
          /\ Remembers(s[k - 1], codings, k - 1)
      BY <1>1, <2>2
    <3>2. s[k] = p(s[k - 1], k)
      BY <1>11
    <3>3. s[k] \in D
      BY <1>3, <3>1, <3>2
    <3>4. Remembers(s[k], codings, k)
      BY <3>1, <3>2, PredicateRemembers DEF p, D
    <3> QED
      BY <3>1, <3>3, <3>4
  <2> HIDE DEF T
  <2>3. \A k \in 0..N : k \in T
    BY <1>1, <2>1, <2>2, InductTo
  <2> QED
    BY <2>3 DEF T
<1>13. Remembers(s[N], codings, N)
  BY <1>1, <1>12
<1>14. s[N].res = IF ChunkedAt(codings) = {} THEN "CHUNKED_NOT_FOUND"
                  ELSE IF ChunkedAt(codings) = {N} THEN "CHUNKED_AT_END"
                  ELSE "CHUNKED_INVALID"
  <2> DEFINE at == {j \in 1..N : iequals(codings[j], Chunked)}
  <2>1. ChunkedAt(codings) = at
    BY DEF ChunkedAt, N
  <2>2. \/ s[N].res = "CHUNKED_NOT_FOUND" /\ at = {}
        \/ s[N].res = "CHUNKED_AT_END" /\ at = {N}
        \/ s[N].res = "CHUNKED_INVALID" /\ \E j \in at : j < N
    BY <1>13 DEF Remembers
  <2>3. ASSUME NEW j \in at, j < N PROVE at # {} /\ at # {N}
    <3>1. j # N
      BY <1>1, <2>3
    <3> HIDE DEF at
    <3> QED
      BY <3>1
  <2> HIDE DEF at
  <2>4. {N} # {}
    OBVIOUS
  <2> QED
    BY <2>1, <2>2, <2>3, <2>4
<1> QED
  BY <1>1, <1>2, <1>14 DEF codings, N
=============================================================================
