--------------------------- MODULE MessageProofs ----------------------------
(***************************************************************************)
(* What the token forms of Reader do, for every buffer, and what the cases *)
(* of next() that both readers share do: one lemma per section of the      *)
(* message says that they keep the framing in step with the state.  The    *)
(* proofs about a reader cite them and add what its own variables and its  *)
(* own states require.  Further lemmas about the same cases say what they  *)
(* read of the stream, that they leave a suspended scan as it was, and     *)
(* which edge of the token grammar they take.                              *)
(***************************************************************************)
EXTENDS MessageFields, DecodeProofs

-----------------------------------------------------------------------------
(* The token forms. *)

(* Sequences with the same entries are the same. *)
LEMMA SameEntries ==
    ASSUME NEW S, NEW a \in Seq(S), NEW c \in Seq(S), NEW n \in Nat,
           Len(a) = n, Len(c) = n, \A k \in 1..n : a[k] = c[k]
    PROVE  a = c
OBVIOUS

(* The n entries of a sequence behind place i. *)
LEMMA PartEntries ==
    ASSUME NEW S, NEW a \in Seq(S), NEW i \in Nat, NEW n \in Nat, i + n <= Len(a)
    PROVE  /\ SubSeq(a, i + 1, i + n) \in Seq(S) /\ Len(SubSeq(a, i + 1, i + n)) = n
           /\ \A k \in 1..n : SubSeq(a, i + 1, i + n)[k] = a[i + k]
OBVIOUS

(* The case of next() for the state here, run at offset i of buf, ends in   *)
(* one of three ways: it waits at here, it gives the token code and moves  *)
(* to s, or it fails; and the token or its scanned part lies within buf.   *)
Outcome(buf, i, here, s, code) ==
    /\ token_size_' \in Nat
    /\ i + token_size_' <= Len(buf)
    /\ \/ state' = here /\ code_' = INSUFFICIENT
       \/ state' = s /\ code_' = code
       \/ state' = "ERRORED" /\ code_' = "error_invalid_data"

(* A scan resumed after n bytes stays within the buffer. *)
LEMMA ScanTokenOutcome ==
    ASSUME NEW buf \in Seq(Byte), NEW i \in Nat, NEW n \in Nat, i + n <= Len(buf),
           NEW S, NEW s, NEW code, ScanToken(S, buf, i, n, s, code)
    PROVE  Outcome(buf, i, state, s, code)
<1>1. Len(buf) \in Nat
  OBVIOUS
<1>2. PICK e \in (i + n)..Len(buf) :
         \/ Suspend(state, e - i)
         \/ Emit(s, code, e - i)
         \/ Fail("error_invalid_data", n)
  BY DEF ScanToken
<1>3. e \in Nat /\ e - i \in Nat /\ i + (e - i) <= Len(buf)
  BY <1>1
<1> QED
  BY <1>2, <1>3 DEF Outcome, Suspend, Emit, Fail

(* A literal that the buffer cuts is waited for with its first bytes scanned. *)
LEMMA LiteralTokenOutcome ==
    ASSUME NEW buf \in Seq(Byte), NEW i \in Nat, NEW n \in Nat, i + n <= Len(buf),
           NEW literal \in Seq(Byte), NEW s, LiteralToken(literal, buf, i, n, s)
    PROVE  Outcome(buf, i, state, s, "skip")
<1>1. Len(buf) \in Nat /\ Len(literal) \in Nat
  OBVIOUS
<1> QED
  BY <1>1 DEF LiteralToken, Outcome, Emit, Suspend, Fail

(* A one-byte token needs one byte. *)
LEMMA ByteTokenOutcome ==
    ASSUME NEW buf \in Seq(Byte), NEW i \in Nat, NEW n \in Nat, i + n <= Len(buf),
           i # Len(buf), NEW S, NEW s, NEW code, ByteToken(S, buf, i, n, s, code)
    PROVE  Outcome(buf, i, state, s, code)
<1>1. Len(buf) \in Nat /\ i + 1 <= Len(buf)
  OBVIOUS
<1> QED
  BY <1>1 DEF ByteToken, Outcome, Emit, Fail

(* liberal_crlf reports CRLF only when both bytes are there. *)
LEMMA LiberalCrlfFits ==
    ASSUME NEW buf \in Seq(Byte), NEW i \in Nat, i # Len(buf), i <= Len(buf)
    PROVE  /\ i + 1 <= Len(buf)
           /\ liberal_crlf(buf, i) = "crlf" => i + 2 <= Len(buf)
<1>1. Len(buf) \in Nat
  OBVIOUS
<1> QED
  BY <1>1 DEF liberal_crlf

LEMMA LiberalCrlfOutcome ==
    ASSUME NEW buf \in Seq(Byte), NEW i \in Nat, NEW n \in Nat, i + n <= Len(buf),
           i # Len(buf), NEW s, LiberalCrlf(buf, i, n, s)
    PROVE  Outcome(buf, i, state, s, "skip")
<1>1. Len(buf) \in Nat /\ i <= Len(buf)
  OBVIOUS
<1> QED
  BY <1>1, LiberalCrlfFits DEF LiberalCrlf, Outcome, Emit, Fail, Suspend

LEMMA StrictCrlfOutcome ==
    ASSUME NEW buf \in Seq(Byte), NEW i \in Nat, NEW n \in Nat, i + n <= Len(buf),
           NEW here, NEW s, NEW code, StrictCrlf(buf, i, n, here, s, code)
    PROVE  Outcome(buf, i, here, s, code)
<1>1. Len(buf) \in Nat
  OBVIOUS
<1> QED
  BY <1>1 DEF StrictCrlf, Outcome, Emit, Fail, Suspend

(* A colon leads to the value only if a byte that is not OWS follows. *)
LEMMA ColonOutcome ==
    ASSUME NEW buf \in Seq(Byte), NEW i \in Nat, NEW n \in Nat, i + n <= Len(buf),
           NEW ows, NEW value, Colon(buf, i, n, ows, value)
    PROVE  Outcome(buf, i, ows, ows, "skip") \/ Outcome(buf, i, value, value, "skip")
<1>1. Len(buf) \in Nat
  OBVIOUS
<1>2. CASE Fail("error_invalid_data", n)
  BY <1>2 DEF Outcome, Emit, Fail
<1>3. CASE \E e \in (i + 1)..Len(buf) :
              Emit(IF e = Len(buf) THEN ows ELSE value, "skip", e - i)
  <2>1. PICK e \in (i + 1)..Len(buf) :
              Emit(IF e = Len(buf) THEN ows ELSE value, "skip", e - i)
    BY <1>3
  <2>2. e - i \in Nat /\ i + (e - i) <= Len(buf)
    BY <1>1
  <2> QED
    BY <2>1, <2>2 DEF Outcome, Emit
<1> QED
  BY <1>2, <1>3 DEF Colon

LEMMA RescanTokenOutcome ==
    ASSUME NEW buf \in Seq(Byte), NEW i \in Nat, NEW n \in Nat, i + n <= Len(buf),
           NEW S, NEW here, NEW s, NEW code, RescanToken(S, buf, i, n, here, s, code)
    PROVE  Outcome(buf, i, here, s, code)
<1>1. Len(buf) \in Nat
  OBVIOUS
<1>2. PICK e \in i..Len(buf) : Suspend(here, n) \/ Emit(s, code, e - i)
  BY DEF RescanToken
<1>3. e - i \in Nat /\ i + (e - i) <= Len(buf)
  BY <1>1
<1> QED
  BY <1>2, <1>3 DEF Outcome, Suspend, Emit

(* The body is counted down: state s is reached exactly when nothing is    *)
(* left, and the token is a part of the rest of the buffer.                *)
LEMMA BodyTokenOutcome ==
    ASSUME NEW buf \in Seq(Byte), NEW i \in Nat, i <= Len(buf),
           body_size \in Uint, NEW s, s # state, BodyToken(buf, i, s)
    PROVE  /\ code_' = "body_chunk"
           /\ token_size_' \in Nat
           /\ i + token_size_' <= Len(buf)
           /\ body_size' \in Uint
           /\ \/ state' = state /\ body_size' # 0
              \/ state' = s /\ body_size' = 0
<1>1. Len(buf) \in Nat /\ UintMax \in Nat
  BY UintMaxAssumption
<1> QED
  BY <1>1 DEF BodyToken, Emit, Uint

-----------------------------------------------------------------------------
(* What the token forms find in the buffer.  A scan that is resumed does    *)
(* not look at the n bytes of earlier calls: the facts about them are       *)
(* hypotheses here and an invariant of the reader.                         *)

(* The bytes of a token that its class delimits: all in S, and the byte    *)
(* behind them is known and is not.                                        *)
MaxRun(S, buf, i, size) == /\ i + size < Len(buf)
                           /\ \A k \in 1..size : buf[i + k] \in S
                           /\ buf[i + size + 1] \notin S

(* All bytes from offset i on are in S. *)
RestIn(S, buf, i) == \A k \in 1..(Len(buf) - i) : buf[i + k] \in S

(* The byte at offset j is there and is not OWS. *)
InkAt(buf, j) == j < Len(buf) /\ buf[j + 1] \notin is_ows

(* Outcome, with what is known when the case waits and when it gives code. *)
Ends(here, waiting, s, code, given) ==
    \/ state' = here /\ code_' = INSUFFICIENT /\ waiting
    \/ state' = s /\ code_' = code /\ given
    \/ state' = "ERRORED" /\ code_' = "error_invalid_data"

(* A resumed scan gives what one scan of all the bytes would give. *)
LEMMA ScanTokenEnds ==
    ASSUME NEW buf \in Seq(Byte), NEW i \in Nat, NEW n \in Nat, i + n <= Len(buf),
           NEW S, \A k \in 1..n : buf[i + k] \in S,
           NEW s, NEW code, ScanToken(S, buf, i, n, s, code)
    PROVE  Ends(state, token_size_' = Len(buf) - i /\ RestIn(S, buf, i),
                s, code, token_size_' > 0 /\ MaxRun(S, buf, i, token_size_'))
<1>1. Len(buf) \in Nat
  OBVIOUS
<1>2. PICK e \in (i + n)..Len(buf) :
         /\ Run(S, buf, i + n, e)
         /\ \/ e = Len(buf) /\ Suspend(state, e - i)
            \/ e < Len(buf) /\ e > i /\ Emit(s, code, e - i)
            \/ Fail("error_invalid_data", n)
  BY DEF ScanToken
<1>3. \A k \in 1..(e - i) : buf[i + k] \in S
  <2> SUFFICES ASSUME NEW k \in 1..(e - i) PROVE buf[i + k] \in S
    OBVIOUS
  <2>1. CASE k <= n
    BY <2>1
  <2>2. CASE k > n
    BY <1>1, <1>2, <2>2 DEF Run
  <2> QED
    BY <1>1, <2>1, <2>2
<1>4. e < Len(buf) => MaxRun(S, buf, i, e - i)
  BY <1>1, <1>2, <1>3 DEF Run, MaxRun
<1> QED
  BY <1>1, <1>2, <1>3, <1>4 DEF Ends, RestIn, Suspend, Emit, Fail

(* A literal that is waited for agrees with the bytes at hand. *)
LEMMA LiteralTokenEnds ==
    ASSUME NEW buf \in Seq(Byte), NEW i \in Nat, NEW n \in Nat, i + n <= Len(buf),
           NEW literal \in Seq(Byte), n <= Len(literal),
           \A k \in 1..n : buf[i + k] = literal[k],
           NEW s, LiteralToken(literal, buf, i, n, s)
    PROVE  Ends(state, /\ token_size_' = Len(buf) - i /\ token_size_' < Len(literal)
                       /\ \A k \in 1..token_size_' : buf[i + k] = literal[k],
                s, "skip", token_size_' = Len(literal))
<1>1. Len(buf) \in Nat /\ Len(literal) \in Nat
  OBVIOUS
<1> DEFINE avail == Len(buf) - i
           size == IF avail < Len(literal) THEN avail ELSE Len(literal)
           match == \A k \in (n + 1)..size : buf[i + k] = literal[k]
<1>2. \/ match /\ size = Len(literal) /\ Emit(s, "skip", size)
      \/ match /\ size < Len(literal) /\ Suspend(state, size)
      \/ Fail("error_invalid_data", n)
  BY DEF LiteralToken
<1>3. match => \A k \in 1..size : buf[i + k] = literal[k]
  BY <1>1
<1>4. size < Len(literal) => size = Len(buf) - i
  BY <1>1
<1> HIDE DEF size, match
<1> QED
  BY <1>2, <1>3, <1>4 DEF Ends, Emit, Suspend, Fail

(* A one-byte token never waits. *)
LEMMA ByteTokenEnds ==
    ASSUME NEW buf, NEW i, NEW n, NEW S, NEW s, NEW code, ByteToken(S, buf, i, n, s, code)
    PROVE  Ends(state, FALSE, s, code, token_size_' = 1 /\ buf[i + 1] \in S)
BY DEF ByteToken, Ends, Emit, Fail

(* Only a CR at the end of the buffer is waited for. *)
LEMMA LiberalCrlfEnds ==
    ASSUME NEW buf \in Seq(Byte), NEW i \in Nat, NEW n, i # Len(buf), i <= Len(buf),
           NEW s, LiberalCrlf(buf, i, n, s)
    PROVE  Ends(state, token_size_' = n /\ Len(buf) = i + 1 /\ buf[i + 1] = CR,
                s, "skip", token_size_' \in {1, 2})
<1>1. liberal_crlf(buf, i) = "insufficient_data" => Len(buf) = i + 1 /\ buf[i + 1] = CR
  BY DEF liberal_crlf
<1> QED
  BY <1>1 DEF LiberalCrlf, Ends, Emit, Fail, Suspend

LEMMA StrictCrlfEnds ==
    ASSUME NEW buf, NEW i, NEW n, NEW here, NEW s, NEW code,
           StrictCrlf(buf, i, n, here, s, code)
    PROVE  Ends(here, token_size_' = n /\ Len(buf) - i < 2, s, code, token_size_' = 2)
BY DEF StrictCrlf, Ends, Emit, Fail, Suspend

(* The value is expected next only when its first byte has been seen. *)
LEMMA ColonEnds ==
    ASSUME NEW buf \in Seq(Byte), NEW i \in Nat, NEW n,
           NEW ows, NEW value, Colon(buf, i, n, ows, value)
    PROVE  \/ Ends(ows, FALSE, ows, "skip", token_size_' > 0)
           \/ Ends(value, FALSE, value, "skip",
                   token_size_' > 0 /\ InkAt(buf, i + token_size_'))
<1>1. Len(buf) \in Nat
  OBVIOUS
<1>2. CASE Fail("error_invalid_data", n)
  BY <1>2 DEF Ends, Emit, Fail
<1>3. CASE /\ buf[i + 1] = COLON
           /\ \E e \in (i + 1)..Len(buf) :
                /\ Run(is_ows, buf, i + 1, e)
                /\ Emit(IF e = Len(buf) THEN ows ELSE value, "skip", e - i)
  <2>1. PICK e \in (i + 1)..Len(buf) :
              /\ Run(is_ows, buf, i + 1, e)
              /\ Emit(IF e = Len(buf) THEN ows ELSE value, "skip", e - i)
    BY <1>3
  <2>2. e < Len(buf) => InkAt(buf, i + (e - i))
    BY <1>1, <2>1 DEF Run, InkAt
  <2>3. e - i > 0
    BY <1>1
  <2> QED
    BY <1>1, <2>1, <2>2, <2>3 DEF Ends, Emit
<1> QED
  BY <1>2, <1>3 DEF Colon

(* What is scanned again waits as long as nothing delimits it. *)
LEMMA RescanTokenEnds ==
    ASSUME NEW buf \in Seq(Byte), NEW i \in Nat, NEW n,
           NEW S, NEW here, NEW s, NEW code, RescanToken(S, buf, i, n, here, s, code)
    PROVE  Ends(here, token_size_' = n /\ RestIn(S, buf, i),
                s, code, MaxRun(S, buf, i, token_size_'))
<1>1. Len(buf) \in Nat
  OBVIOUS
<1>2. PICK e \in i..Len(buf) :
         /\ Run(S, buf, i, e)
         /\ \/ e = Len(buf) /\ Suspend(here, n)
            \/ e < Len(buf) /\ Emit(s, code, e - i)
  BY DEF RescanToken
<1>3. \A k \in 1..(e - i) : buf[i + k] \in S
  BY <1>1, <1>2 DEF Run
<1> QED
  BY <1>1, <1>2, <1>3 DEF Ends, RestIn, MaxRun, Run, Suspend, Emit

(* A chunk of the body is never empty and never more than what is left. *)
LEMMA BodyTokenEnds ==
    ASSUME NEW buf \in Seq(Byte), NEW i \in Nat, i <= Len(buf), i # Len(buf),
           body_size \in Uint, body_size > 0, NEW s, BodyToken(buf, i, s)
    PROVE  /\ code_' = "body_chunk"
           /\ token_size_' \in 1..body_size
           /\ body_size' = body_size - token_size_'
           /\ state' = IF body_size' = 0 THEN s ELSE state
<1>1. Len(buf) \in Nat /\ body_size \in Nat
  BY UintMaxAssumption DEF Uint
<1> QED
  BY <1>1 DEF BodyToken, Emit

-----------------------------------------------------------------------------
(* The bytes that a caller has: the rest of the buffer and then the ones it *)
(* has not presented yet.                                                  *)

(* From offset j on, r shows at least the bytes of q from offset i on. *)
Shows(r, j, q, i) == /\ Len(q) - i <= Len(r) - j
                     /\ \A k \in 1..(Len(q) - i) : r[j + k] = q[i + k]

(* The bytes q are the rest of the buffer b at offset i and then h. *)
Joined(q, b, i, h) == q = SubSeq(b, i + 1, Len(b)) \o h

LEMMA StreamIndex ==
    ASSUME NEW b \in Seq(Byte), NEW h \in Seq(Byte), NEW i \in Nat, i <= Len(b),
           NEW q, Joined(q, b, i, h)
    PROVE  /\ q \in Seq(Byte) /\ Len(q) \in Nat /\ Len(q) = Len(b) - i + Len(h)
           /\ \A k \in 1..(Len(b) - i) : q[k] = b[i + k]
           /\ \A k \in 1..Len(h) : q[Len(b) - i + k] = h[k]
           /\ Shows(q, 0, b, i)
<1> DEFINE a == SubSeq(b, i + 1, Len(b))
           c == a \o h
<1>1. /\ a \in Seq(Byte) /\ Len(a) = Len(b) - i /\ Len(b) \in Nat /\ Len(h) \in Nat
      /\ \A k \in 1..(Len(b) - i) : a[k] = b[i + k]
  OBVIOUS
<1>2. c = q
  BY DEF Joined
<1> HIDE DEF a
<1>3. /\ c \in Seq(Byte) /\ Len(c) = Len(a) + Len(h)
      /\ \A k \in 1..Len(a) : c[k] = a[k]
  BY <1>1
<1>4. ASSUME NEW k \in 1..Len(h) PROVE c[Len(a) + k] = h[k]
  <2>1. Len(a) + k \in (Len(a) + 1)..(Len(a) + Len(h)) /\ (Len(a) + k) - Len(a) = k
    BY <1>1
  <2> QED
    BY <1>1, <2>1
<1> HIDE DEF c
<1> QED
  BY <1>1, <1>2, <1>3, <1>4 DEF Shows

(* Consuming j bytes drops the first j bytes of the stream. *)
LEMMA StreamSuffix ==
    ASSUME NEW b \in Seq(Byte), NEW h \in Seq(Byte), NEW i \in Nat, NEW j \in Nat,
           i <= j, j <= Len(b), NEW q, Joined(q, b, i, h), NEW r, Joined(r, b, j, h)
    PROVE  Shows(r, 0, q, j - i)
<1>1. Len(b) \in Nat /\ Len(h) \in Nat /\ i <= Len(b)
  OBVIOUS
<1>2. /\ Len(q) = Len(b) - i + Len(h)
      /\ \A k \in 1..(Len(b) - i) : q[k] = b[i + k]
      /\ \A k \in 1..Len(h) : q[Len(b) - i + k] = h[k]
  BY <1>1, StreamIndex
<1>3. /\ Len(r) = Len(b) - j + Len(h)
      /\ \A k \in 1..(Len(b) - j) : r[k] = b[j + k]
      /\ \A k \in 1..Len(h) : r[Len(b) - j + k] = h[k]
  BY <1>1, StreamIndex
<1>4. Len(q) - (j - i) = Len(r) - 0
  BY <1>1, <1>2, <1>3
<1>5. ASSUME NEW k \in 1..(Len(q) - (j - i)) PROVE r[0 + k] = q[(j - i) + k]
  <2>1. CASE k <= Len(b) - j
    BY <1>1, <1>2, <1>3, <2>1
  <2>2. CASE k > Len(b) - j
    <3>1. k - (Len(b) - j) \in 1..Len(h)
      BY <1>1, <1>2, <2>2
    <3>2. r[Len(b) - j + (k - (Len(b) - j))] = h[k - (Len(b) - j)]
      BY <1>3, <3>1
    <3>3. q[Len(b) - i + (k - (Len(b) - j))] = h[k - (Len(b) - j)]
      BY <1>2, <3>1
    <3>4. /\ Len(b) - j + (k - (Len(b) - j)) = 0 + k
          /\ Len(b) - i + (k - (Len(b) - j)) = (j - i) + k
      BY <1>1
    <3> QED
      BY ONLY <3>2, <3>3, <3>4
  <2> QED
    BY <1>1, <1>2, <2>1, <2>2
<1> QED
  BY <1>4, <1>5 DEF Shows

(* The caller may cut the stream anywhere between buffer and the rest. *)
LEMMA StreamCut ==
    ASSUME NEW q \in Seq(Byte), NEW k \in 0..Len(q)
    PROVE  /\ SubSeq(q, 1, k) \in Seq(Byte)
           /\ Len(SubSeq(q, 1, k)) = k
           /\ SubSeq(q, k + 1, Len(q)) \in Seq(Byte)
           /\ Joined(q, SubSeq(q, 1, k), 0, SubSeq(q, k + 1, Len(q)))
<1> DEFINE a == SubSeq(q, 1, k)
           h == SubSeq(q, k + 1, Len(q))
           r == SubSeq(a, 0 + 1, Len(a)) \o h
<1>1. Len(q) \in Nat /\ k \in Nat /\ k <= Len(q)
  OBVIOUS
<1>2. /\ a \in Seq(Byte) /\ Len(a) = k
      /\ \A m \in 1..k : a[m] = q[m]
  BY <1>1
<1>3. /\ h \in Seq(Byte) /\ Len(h) = Len(q) - k
      /\ \A m \in 1..(Len(q) - k) : h[m] = q[k + m]
  BY <1>1
<1> HIDE DEF a, h
<1>4. /\ r \in Seq(Byte)
      /\ Len(r) = Len(a) - 0 + Len(h)
      /\ \A m \in 1..(Len(a) - 0) : r[m] = a[0 + m]
      /\ \A m \in 1..Len(h) : r[Len(a) - 0 + m] = h[m]
  <2>1. Joined(r, a, 0, h)
    BY DEF Joined
  <2>2. a \in Seq(Byte) /\ h \in Seq(Byte) /\ 0 \in Nat /\ 0 <= Len(a)
    BY <1>1, <1>2, <1>3
  <2> HIDE DEF r
  <2> QED
    BY <2>1, <2>2, StreamIndex
<1> HIDE DEF r
<1>5. Len(r) = Len(q)
  BY <1>1, <1>2, <1>3, <1>4
<1>6. ASSUME NEW m \in 1..Len(q) PROVE r[m] = q[m]
  <2>1. CASE m <= k
    BY <1>1, <1>2, <1>4, <2>1
  <2>2. CASE m > k
    <3>1. m - k \in 1..Len(h)
      BY <1>1, <1>3, <2>2
    <3>2. r[Len(a) - 0 + (m - k)] = h[m - k] /\ h[m - k] = q[k + (m - k)]
      BY <1>3, <1>4, <3>1
    <3> QED
      BY <1>1, <1>2, <3>2
  <2> QED
    BY <1>1, <2>1, <2>2
<1>7. r = q
  BY <1>4, <1>5, <1>6
<1> QED
  BY <1>2, <1>3, <1>7 DEF a, h, r, Joined

(* Bytes that arrive come behind the ones that are there. *)
LEMMA StreamGrows ==
    ASSUME NEW b \in Seq(Byte), NEW h \in Seq(Byte), NEW i \in Nat, i <= Len(b),
           NEW byte \in Byte, NEW q, Joined(q, b, i, h),
           NEW r, Joined(r, b, i, Append(h, byte))
    PROVE  r \in Seq(Byte) /\ Shows(r, 0, q, 0)
<1> DEFINE g == Append(h, byte)
<1>0. Joined(r, b, i, g)
  OBVIOUS
<1>1. Len(b) \in Nat /\ Len(h) \in Nat
  OBVIOUS
<1>2. g \in Seq(Byte) /\ Len(g) = Len(h) + 1 /\ \A k \in 1..Len(h) : g[k] = h[k]
  OBVIOUS
<1> HIDE DEF g
<1>3. /\ Len(q) = Len(b) - i + Len(h)
      /\ \A k \in 1..(Len(b) - i) : q[k] = b[i + k]
      /\ \A k \in 1..Len(h) : q[Len(b) - i + k] = h[k]
  BY StreamIndex
<1>4. /\ r \in Seq(Byte)
      /\ Len(r) = Len(b) - i + Len(g)
      /\ \A k \in 1..(Len(b) - i) : r[k] = b[i + k]
      /\ \A k \in 1..Len(g) : r[Len(b) - i + k] = g[k]
  BY <1>0, <1>2, StreamIndex
<1>5. Len(q) - 0 <= Len(r) - 0
  BY <1>1, <1>2, <1>3, <1>4
<1>6. ASSUME NEW k \in 1..(Len(q) - 0) PROVE r[0 + k] = q[0 + k]
  <2>1. CASE k <= Len(b) - i
    BY <1>1, <1>3, <1>4, <2>1
  <2>2. CASE k > Len(b) - i
    <3>1. k - (Len(b) - i) \in 1..Len(h) /\ k - (Len(b) - i) \in 1..Len(g)
      BY <1>1, <1>2, <1>3, <2>2
    <3>2. r[Len(b) - i + (k - (Len(b) - i))] = q[Len(b) - i + (k - (Len(b) - i))]
      BY <1>2, <1>3, <1>4, <3>1
    <3> QED
      BY <1>1, <3>2
  <2> QED
    BY <1>1, <1>3, <2>1, <2>2
<1>7. Shows(r, 0, q, 0)
  BY <1>5, <1>6 DEF Shows
<1> QED
  BY <1>4, <1>7

LEMMA DroppedLen ==
    ASSUME NEW q \in Seq(Byte), NEW k \in 0..Len(q)
    PROVE  Len(SubSeq(q, k + 1, Len(q))) = Len(q) - k
OBVIOUS

(* The buffer that leaves the caller what it held shows nothing new. *)
LEMMA StreamSame ==
    ASSUME NEW b \in Seq(Byte), NEW h \in Seq(Byte), NEW i \in Nat, i <= Len(b),
           NEW q, Joined(q, b, i, h),
           NEW k \in 0..Len(q), SubSeq(q, k + 1, Len(q)) = h
    PROVE  SubSeq(q, 1, k) = SubSeq(b, i + 1, Len(b)) /\ k = Len(b) - i
<1>1. Len(b) \in Nat /\ Len(h) \in Nat
  OBVIOUS
<1>2. /\ q \in Seq(Byte) /\ Len(q) = Len(b) - i + Len(h)
      /\ \A m \in 1..(Len(b) - i) : q[m] = b[i + m]
  BY StreamIndex
<1>3. k = Len(b) - i
  <2>1. Len(SubSeq(q, k + 1, Len(q))) = Len(q) - k
    BY <1>2, DroppedLen, Zenon
  <2>2. Len(h) = Len(q) - k
    BY <2>1, Zenon
  <2>3. Len(q) \in Nat /\ k \in Nat /\ Len(b) - i \in Nat
    BY <1>1, <1>2
  <2>4. PICK d \in Nat, m \in Nat, e \in Nat : d = Len(b) - i /\ m = Len(h) /\ e = Len(q)
    BY ONLY <1>1, <2>3
  <2>5. k \in Nat /\ e = d + m /\ m = e - k
    BY ONLY <1>2, <2>2, <2>3, <2>4
  <2> QED
    BY ONLY <2>4, <2>5
<1> DEFINE a == SubSeq(q, 1, k)
           c == SubSeq(b, i + 1, Len(b))
<1>4. a \in Seq(Byte) /\ Len(a) = k /\ \A m \in 1..k : a[m] = q[m]
  BY <1>1, <1>2
<1>5. /\ c \in Seq(Byte) /\ Len(c) = Len(b) - i
      /\ \A m \in 1..(Len(b) - i) : c[m] = b[i + m]
  BY <1>1
<1> HIDE DEF a, c
<1>6. Len(a) = Len(c) /\ \A m \in 1..Len(c) : a[m] = c[m]
  BY <1>2, <1>3, <1>4, <1>5
<1>7. a = c
  <2>1. Len(c) \in Nat
    BY ONLY <1>5
  <2> QED
    BY ONLY <1>4, <1>5, <1>6, <2>1, SameEntries
<1> QED
  BY <1>3, <1>7 DEF a, c

LEMMA WholeSeq == ASSUME NEW a \in Seq(Byte) PROVE SubSeq(a, 0 + 1, Len(a)) = a
<1> DEFINE c == SubSeq(a, 0 + 1, Len(a))
<1>1. c \in Seq(Byte) /\ Len(c) = Len(a) /\ \A m \in 1..Len(a) : c[m] = a[m]
  OBVIOUS
<1> HIDE DEF c
<1>2. c = a
  BY <1>1
<1> QED
  BY <1>2 DEF c

-----------------------------------------------------------------------------
(* The cases that both readers share. *)

(* The codes that the shared cases give. *)
MessageCode == {INSUFFICIENT, "skip", "field_name", "field_value", "chunk_ext",
                "body_chunk", "trailer_name", "trailer_value", "end_of_body",
                "end_of_message", "error_invalid_data",
                "error_invalid_content_length", "error_content_length_overflow",
                "error_invalid_transfer_encoding", "error_chunk_size_overflow"}

(* After a case that read at offset i of buf the reader is in a state of S  *)
(* that suits the framing, with its token within the buffer.               *)
Reached(buf, i, S) == /\ state' \in S
                      /\ code_' \in MessageCode
                      /\ token_size_' \in Nat
                      /\ i + token_size_' <= Len(buf)
                      /\ body_size' \in Uint
                      /\ BodySuits(state', body_type', body_size')

(* A field value settles what a field name started, and nothing else. *)
Settled == \/ body_type' = body_type
           \/ /\ body_type = "READING_CONTENT_LENGTH"
              /\ body_type' = "CONTENT_LENGTH_READ"
           \/ /\ body_type = "READING_ENCODING"
              /\ body_type' \in {"CHUNKED_ENCODING_READ", "RANDOM_ENCODING_READ"}

Suitable(s) == BodySuits(s, body_type, body_size)

(* ERRORED suits every framing. *)
LEMMA ErroredSuits == \A type, size : BodySuits("ERRORED", type, size)
BY DEF BodySuits, InChunks, InTrailers

(* A case that only moves to another state. *)
LEMMA MoveReached ==
    ASSUME body_size \in Uint, NEW buf, NEW i, NEW S, state' \in S, Suitable(state'),
           code_' \in MessageCode, token_size_' \in Nat,
           i + token_size_' <= Len(buf), UNCHANGED framing
    PROVE  Reached(buf, i, S) /\ body_type' = body_type
BY DEF Reached, Suitable, framing

LEMMA OutcomeReached ==
    ASSUME body_size \in Uint, NEW buf, NEW i, NEW here, NEW s, NEW code,
           NEW S, {here, s, "ERRORED"} \subseteq S,
           Suitable(here), Suitable(s), code \in MessageCode,
           Outcome(buf, i, here, s, code), UNCHANGED framing
    PROVE  Reached(buf, i, S) /\ body_type' = body_type
<1>1. Suitable(state') /\ state' \in S
  BY ErroredSuits DEF Outcome, Suitable
<1>2. code_' \in MessageCode
  BY DEF Outcome, MessageCode
<1> QED
  BY <1>1, <1>2, MoveReached DEF Outcome

-----------------------------------------------------------------------------
(* What a decoder leaves in body_size is of its type. *)
LEMMA DecodedFits ==
    ASSUME body_size \in Uint, NEW in \in Seq(Byte)
    PROVE  /\ content_length_decode(in, body_size, UintMax).out \in Uint
           /\ chunk_size_decode(in, body_size, UintMax).out \in Uint
BY DecodeResult, DecimalValued, HexValued, UintMaxAssumption
DEF content_length_decode, chunk_size_decode, Uint

(* A field value settles a READING_* framing or stops the reader. *)
LEMMA FieldValueReached ==
    ASSUME body_size \in Uint, Suitable(state),
           state \in {"EXPECT_OWS_AFTER_COLON", "EXPECT_FIELD_VALUE"},
           NEW buf \in Seq(Byte), NEW i \in Nat, NEW n \in Nat,
           i + n <= Len(buf), FieldValue(buf, i, n)
    PROVE  /\ Reached(buf, i, {"EXPECT_FIELD_VALUE", "EXPECT_CRLF_AFTER_FIELD_VALUE",
                               "ERRORED"})
           /\ Settled
<1> DEFINE S == {"EXPECT_FIELD_VALUE", "EXPECT_CRLF_AFTER_FIELD_VALUE", "ERRORED"}
<1>1. Len(buf) \in Nat
  OBVIOUS
<1>2. PICK e \in i..Len(buf) :
        \/ Suspend("EXPECT_FIELD_VALUE", n) /\ UNCHANGED framing
        \/ /\ body_type = "READING_CONTENT_LENGTH"
           /\ ContentLengthValue(decode_field_value(View(buf, i, e)), e - i)
        \/ \E value : body_type = "READING_ENCODING" /\ TransferEncodingValue(value, e - i)
        \/ /\ body_type \notin Reading
           /\ Emit("EXPECT_CRLF_AFTER_FIELD_VALUE", "field_value", e - i)
           /\ UNCHANGED framing
  BY DEF FieldValue
<1>3. e - i \in Nat /\ i + (e - i) <= Len(buf)
  BY <1>1
<1>4. CASE Suspend("EXPECT_FIELD_VALUE", n) /\ UNCHANGED framing
  <2>1. Suitable("EXPECT_FIELD_VALUE")
    BY DEF Suitable, BodySuits, InField, InChunks, InTrailers
  <2>2. INSUFFICIENT \in MessageCode
    BY DEF MessageCode
  <2> QED
    BY <1>4, <2>1, <2>2, MoveReached DEF Suspend, Emit, Settled
<1>5. ASSUME body_type = "READING_CONTENT_LENGTH",
             ContentLengthValue(decode_field_value(View(buf, i, e)), e - i)
      PROVE  Reached(buf, i, S) /\ Settled
  <2> DEFINE value == decode_field_value(View(buf, i, e))
  <2>0. content_length_decode(value, body_size, UintMax).out \in Uint
    BY <1>1, ViewIsView, FieldValueIsView, DecodedFits
  <2> HIDE DEF value
  <2>1. /\ body_type' = "CONTENT_LENGTH_READ"
        /\ body_size' \in Uint
        /\ token_size_' = e - i
        /\ state' \in {"EXPECT_CRLF_AFTER_FIELD_VALUE", "ERRORED"}
        /\ code_' \in MessageCode
    BY <1>5, <2>0 DEF value, ContentLengthValue, Emit, Fail, MessageCode
  <2> QED
    BY <1>3, <1>5, <2>1
    DEF Reached, Settled, BodySuits, Reading, InField, InChunks, InTrailers
<1>6. ASSUME NEW value, body_type = "READING_ENCODING",
             TransferEncodingValue(value, e - i)
      PROVE  Reached(buf, i, S) /\ Settled
  <2>1. /\ body_size' = body_size
        /\ token_size_' = e - i
        /\ code_' \in MessageCode
        /\ \/ state' = "ERRORED" /\ body_type' = body_type
           \/ /\ state' = "EXPECT_CRLF_AFTER_FIELD_VALUE"
              /\ body_type' \in {"CHUNKED_ENCODING_READ", "RANDOM_ENCODING_READ"}
    BY <1>6 DEF TransferEncodingValue, Emit, Fail, MessageCode
  <2> QED
    BY <1>3, <1>6, <2>1
    DEF Reached, Settled, BodySuits, Reading, InField, InChunks, InTrailers
<1>7. CASE /\ body_type \notin Reading
           /\ Emit("EXPECT_CRLF_AFTER_FIELD_VALUE", "field_value", e - i)
           /\ UNCHANGED framing
  <2>1. Suitable("EXPECT_CRLF_AFTER_FIELD_VALUE")
    BY <1>7 DEF Suitable, BodySuits, InField, InChunks, InTrailers
  <2>2. "field_value" \in MessageCode
    BY DEF MessageCode
  <2> QED
    BY <1>3, <1>7, <2>1, <2>2, MoveReached DEF Emit, Settled
<1> QED
  BY <1>2, <1>4, <1>5, <1>6, <1>7

(* A header field from its colon to its line end. *)
LEMMA FieldReached ==
    ASSUME body_size \in Uint, Suitable(state),
           NEW buf \in Seq(Byte), NEW i \in Nat, NEW n \in Nat,
           i + n <= Len(buf), i # Len(buf), FieldCase(buf, i, n)
    PROVE  Reached(buf, i, InHeaders \cup {"ERRORED"}) /\ Settled
<1> DEFINE S == InHeaders \cup {"ERRORED"}
<1> SUFFICES Reached(buf, i, S) /\ Settled
  OBVIOUS
<1>1. Len(buf) \in Nat
  OBVIOUS
<1>2. /\ {"EXPECT_OWS_AFTER_COLON", "EXPECT_FIELD_VALUE", "EXPECT_FIELD_NAME",
          "EXPECT_CRLF_AFTER_FIELD_VALUE", "ERRORED"} \subseteq S
      /\ "skip" \in MessageCode
  BY DEF InHeaders, InField, MessageCode
<1>3. CASE ExpectColon(buf, i, n)
  <2>1. Suitable("EXPECT_OWS_AFTER_COLON") /\ Suitable("EXPECT_FIELD_VALUE")
    BY <1>3 DEF ExpectColon, Suitable, BodySuits, InField, InChunks, InTrailers
  <2>2. \/ Outcome(buf, i, "EXPECT_OWS_AFTER_COLON", "EXPECT_OWS_AFTER_COLON", "skip")
        \/ Outcome(buf, i, "EXPECT_FIELD_VALUE", "EXPECT_FIELD_VALUE", "skip")
    BY <1>3, ColonOutcome DEF ExpectColon
  <2>3. UNCHANGED framing
    BY <1>3 DEF ExpectColon
  <2> HIDE DEF S
  <2> QED
    BY <1>2, <2>1, <2>2, <2>3, OutcomeReached DEF Settled
<1>4. ASSUME FieldValue(buf, i, n),
             state \in {"EXPECT_OWS_AFTER_COLON", "EXPECT_FIELD_VALUE"}
      PROVE  Reached(buf, i, S) /\ Settled
  <2>1. /\ Reached(buf, i, {"EXPECT_FIELD_VALUE", "EXPECT_CRLF_AFTER_FIELD_VALUE",
                            "ERRORED"})
        /\ Settled
    BY <1>4, FieldValueReached
  <2> QED
    BY <1>2, <2>1 DEF Reached
<1>5. CASE ExpectOwsAfterColon(buf, i, n)
  <2>1. PICK e \in i..Len(buf) :
          FieldValue(buf, i, n) \/ (Emit(state, "skip", e - i) /\ UNCHANGED framing)
    BY <1>5 DEF ExpectOwsAfterColon
  <2>2. e - i \in Nat /\ i + (e - i) <= Len(buf)
    BY <1>1
  <2>3. state = "EXPECT_OWS_AFTER_COLON"
    BY <1>5 DEF ExpectOwsAfterColon
  <2>4. CASE Emit(state, "skip", e - i) /\ UNCHANGED framing
    <3> HIDE DEF S
    <3> QED
      BY <1>2, <2>2, <2>3, <2>4, MoveReached DEF Emit, Settled
  <2> QED
    BY <1>4, <2>1, <2>3, <2>4
<1>6. CASE ExpectFieldValue(buf, i, n)
  BY <1>4, <1>6 DEF ExpectFieldValue
<1>7. CASE ExpectCrlfAfterFieldValue(buf, i, n)
  <2>1. Suitable("EXPECT_FIELD_NAME") /\ state \in S
    BY <1>2, <1>7
    DEF ExpectCrlfAfterFieldValue, Suitable, BodySuits, InField, InChunks, InTrailers
  <2>2. Outcome(buf, i, state, "EXPECT_FIELD_NAME", "skip")
    BY <1>7, LiberalCrlfOutcome DEF ExpectCrlfAfterFieldValue
  <2>3. UNCHANGED framing
    BY <1>7 DEF ExpectCrlfAfterFieldValue
  <2> HIDE DEF S
  <2> QED
    BY <1>2, <2>1, <2>2, <2>3, OutcomeReached DEF Settled
<1> QED
  BY <1>3, <1>5, <1>6, <1>7 DEF FieldCase

-----------------------------------------------------------------------------
(* A body of known length ends when all of it has been given. *)
LEMMA BodyReached ==
    ASSUME body_size \in Uint, Suitable(state),
           NEW buf \in Seq(Byte), NEW i \in Nat, NEW n \in Nat,
           i + n <= Len(buf), i # Len(buf), ExpectBody(buf, i, n)
    PROVE  /\ Reached(buf, i, {"EXPECT_BODY", "EXPECT_END_OF_BODY"})
           /\ body_type = "CONTENT_LENGTH_READ" /\ body_type' = body_type
           /\ state' = "EXPECT_END_OF_BODY" => body_size' = 0
<1>1. Len(buf) \in Nat /\ i <= Len(buf) /\ UintMax \in Nat
  BY UintMaxAssumption
<1>2. /\ code_' = "body_chunk" /\ token_size_' \in Nat /\ body_size' \in Uint
      /\ i + token_size_' <= Len(buf)
      /\ \/ state' = "EXPECT_BODY" /\ body_size' # 0
         \/ state' = "EXPECT_END_OF_BODY" /\ body_size' = 0
  BY <1>1, BodyTokenOutcome DEF ExpectBody
<1>3. body_type = "CONTENT_LENGTH_READ" /\ body_type' = body_type
  BY DEF ExpectBody, Suitable, BodySuits
<1> QED
  BY <1>1, <1>2, <1>3
  DEF Reached, BodySuits, Reading, InField, InChunks, InTrailers, Uint, MessageCode

(* The chunks, up to the last one, which has no data. *)
LEMMA ChunkReached ==
    ASSUME body_size \in Uint, Suitable(state),
           NEW buf \in Seq(Byte), NEW i \in Nat, NEW n \in Nat,
           i + n <= Len(buf), i # Len(buf), ChunkCase(buf, i, n)
    PROVE  /\ Reached(buf, i, InChunks \cup {"EXPECT_TRAILER_NAME", "ERRORED"})
           /\ body_type = "CHUNKED_ENCODING_READ" /\ body_type' = body_type
<1> DEFINE S == InChunks \cup {"EXPECT_TRAILER_NAME", "ERRORED"}
<1> SUFFICES /\ Reached(buf, i, S)
             /\ body_type = "CHUNKED_ENCODING_READ" /\ body_type' = body_type
  OBVIOUS
<1>1. Len(buf) \in Nat /\ i <= Len(buf) /\ UintMax \in Nat
  BY UintMaxAssumption
<1>2. state \in InChunks
  BY DEF ChunkCase, InChunks, ExpectChunkSize, ExpectChunkExt, ExpectCrlfAfterChunkExt,
         ExpectChunkData, ExpectCrlfAfterChunkData
<1>3. body_type = "CHUNKED_ENCODING_READ"
  BY <1>2 DEF Suitable, BodySuits
<1>4. /\ \A s \in InChunks \ {"EXPECT_CHUNK_DATA"} : Suitable(s)
      /\ body_size # 0 => Suitable("EXPECT_CHUNK_DATA")
      /\ body_size = 0 => Suitable("EXPECT_TRAILER_NAME")
  BY <1>1, <1>3 DEF Suitable, BodySuits, Reading, InField, InChunks, InTrailers, Uint
<1>5. /\ InChunks \subseteq S /\ {"EXPECT_TRAILER_NAME", "ERRORED"} \subseteq S
      /\ {INSUFFICIENT, "skip", "end_of_body", "chunk_ext",
          "error_invalid_data"} \subseteq MessageCode
  BY DEF MessageCode
<1> HIDE DEF S
<1>6. ASSUME NEW m \in Nat, i + m <= Len(buf), CrlfAfterChunkExt(buf, i, m),
             UNCHANGED framing
      PROVE  Reached(buf, i, S) /\ body_type' = body_type
  <2> DEFINE s == IF body_size # 0 THEN "EXPECT_CHUNK_DATA" ELSE "EXPECT_TRAILER_NAME"
             code == IF body_size # 0 THEN "skip" ELSE "end_of_body"
  <2>1. Outcome(buf, i, "EXPEXT_CRLF_AFTER_CHUNK_EXT", s, code)
    BY <1>6, StrictCrlfOutcome DEF CrlfAfterChunkExt
  <2>2. /\ Suitable(s) /\ Suitable("EXPEXT_CRLF_AFTER_CHUNK_EXT")
        /\ code \in MessageCode
        /\ {"EXPEXT_CRLF_AFTER_CHUNK_EXT", s, "ERRORED"} \subseteq S
    BY <1>4, <1>5 DEF InChunks
  <2> HIDE DEF s, code
  <2> QED
    BY <1>6, <2>1, <2>2, OutcomeReached
<1>7. CASE ExpectChunkSize(buf, i, n)
  <2>1. /\ token_size_' \in Nat /\ i + token_size_' <= Len(buf)
        /\ body_size' \in Uint
        /\ code_' \in MessageCode
        /\ state' \in {"EXPECT_CHUNK_SIZE", "EXPECT_CHUNK_EXT", "ERRORED"}
    <3>1. PICK e \in i..Len(buf) :
            /\ body_size' \in Uint
            /\ \/ Fail("error_invalid_data", n)
               \/ Suspend("EXPECT_CHUNK_SIZE", n)
               \/ Emit("EXPECT_CHUNK_EXT", "skip", e - i)
               \/ Fail("error_chunk_size_overflow", n)
      <4>1. ASSUME NEW e \in i..Len(buf)
            PROVE  chunk_size_decode(View(buf, i, e), body_size, UintMax).out \in Uint
        BY <1>1, ViewIsView, DecodedFits
      <4> QED
        BY <1>7, <4>1 DEF ExpectChunkSize
    <3>2. e - i \in Nat /\ i + (e - i) <= Len(buf)
      BY <1>1
    <3> QED
      BY <3>1, <3>2 DEF Fail, Suspend, Emit, MessageCode
  <2>2. body_type' = "CHUNKED_ENCODING_READ"
    BY <1>3, <1>7 DEF ExpectChunkSize
  <2>3. BodySuits(state', body_type', body_size')
    BY <2>1, <2>2 DEF BodySuits, Reading, InField, InTrailers
  <2>4. state' \in S
    BY <1>5, <2>1 DEF InChunks
  <2> QED
    BY <1>3, <2>1, <2>2, <2>3, <2>4 DEF Reached
<1>8. CASE ExpectChunkExt(buf, i, n)
  <2>1. PICK e \in (i + n)..Len(buf) :
          \/ Suspend(state, e - i)
          \/ Fail("error_invalid_data", n)
          \/ CrlfAfterChunkExt(buf, i, 0)
          \/ Emit("EXPEXT_CRLF_AFTER_CHUNK_EXT", "chunk_ext", e - i)
    BY <1>8 DEF ExpectChunkExt
  <2>2. e - i \in Nat /\ i + (e - i) <= Len(buf) /\ i + 0 <= Len(buf)
    BY <1>1
  <2>3. UNCHANGED framing
    BY <1>8 DEF ExpectChunkExt
  <2>4. CASE CrlfAfterChunkExt(buf, i, 0)
    BY <1>3, <1>6, <2>2, <2>3, <2>4
  <2>5. CASE ~CrlfAfterChunkExt(buf, i, 0)
    <3>1. Suitable("EXPEXT_CRLF_AFTER_CHUNK_EXT") /\ Suitable("ERRORED")
      BY <1>4, ErroredSuits DEF InChunks, Suitable
    <3>2. /\ state' \in S /\ Suitable(state') /\ code_' \in MessageCode
          /\ token_size_' \in Nat /\ i + token_size_' <= Len(buf)
      BY <1>2, <1>5, <2>1, <2>2, <2>5, <3>1 DEF Suspend, Fail, Emit, InChunks
    <3> QED
      BY <1>3, <2>3, <3>2, MoveReached
  <2> QED
    BY <2>4, <2>5
<1>9. CASE ExpectCrlfAfterChunkExt(buf, i, n)
  BY <1>3, <1>6, <1>9 DEF ExpectCrlfAfterChunkExt
<1>10. CASE ExpectChunkData(buf, i, n)
  <2>1. /\ code_' = "body_chunk" /\ token_size_' \in Nat /\ body_size' \in Uint
        /\ i + token_size_' <= Len(buf)
        /\ \/ state' = "EXPECT_CHUNK_DATA" /\ body_size' # 0
           \/ state' = "EXPECT_CRLF_AFTER_CHUNK_DATA" /\ body_size' = 0
    BY <1>1, <1>10, BodyTokenOutcome DEF ExpectChunkData
  <2>2. body_type' = "CHUNKED_ENCODING_READ"
    BY <1>3, <1>10 DEF ExpectChunkData
  <2>3. BodySuits(state', body_type', body_size')
    BY <1>1, <2>1, <2>2 DEF BodySuits, Reading, InField, InTrailers, Uint
  <2>4. state' \in S /\ code_' \in MessageCode
    BY <1>5, <2>1 DEF InChunks, MessageCode
  <2> QED
    BY <1>3, <2>1, <2>2, <2>3, <2>4 DEF Reached
<1>11. CASE ExpectCrlfAfterChunkData(buf, i, n)
  <2>1. Outcome(buf, i, state, "EXPECT_CHUNK_SIZE", "skip")
    BY <1>11, StrictCrlfOutcome DEF ExpectCrlfAfterChunkData
  <2>2. Suitable("EXPECT_CHUNK_SIZE") /\ {state, "EXPECT_CHUNK_SIZE", "ERRORED"} \subseteq S
    BY <1>2, <1>4, <1>5 DEF InChunks
  <2>3. UNCHANGED framing
    BY <1>11 DEF ExpectCrlfAfterChunkData
  <2> QED
    BY <1>3, <1>5, <2>1, <2>2, <2>3, OutcomeReached
<1> QED
  BY <1>3, <1>7, <1>8, <1>9, <1>10, <1>11 DEF ChunkCase

-----------------------------------------------------------------------------
(* The trailer section; its end leads to the first state of the next       *)
(* message, with no framing read.                                          *)
LEMMA TrailerReached ==
    ASSUME body_size \in Uint, Suitable(state),
           NEW buf \in Seq(Byte), NEW i \in Nat, NEW n \in Nat,
           i + n <= Len(buf), i # Len(buf),
           NEW first, first \notin InChunks \cup InTrailers \cup {"EXPECT_BODY"},
           NEW none, none \notin Reading,
           TrailerCase(buf, i, n, first, none)
    PROVE  /\ Reached(buf, i, InTrailers \cup {"ERRORED", first})
           /\ body_type = "CHUNKED_ENCODING_READ"
           /\ \/ state' = first /\ body_type' = none
              \/ state' \in InTrailers \cup {"ERRORED"} /\ body_type' = body_type
<1> DEFINE S == InTrailers \cup {"ERRORED"}
           Goal == \/ Reached(buf, i, S) /\ body_type' = body_type
                   \/ Reached(buf, i, {first}) /\ body_type' = none
<1>1. state \in InTrailers
  BY DEF TrailerCase, InTrailers, ExpectTrailerName, ExpectTrailerColon,
         ExpectOwsAfterTrailerColon, ExpectTrailerValue, ExpectCrlfAfterTrailerValue,
         ExpectCrlfAfterTrailers
<1>2. body_type = "CHUNKED_ENCODING_READ" /\ body_size = 0
  BY <1>1 DEF Suitable, BodySuits
<1> SUFFICES Goal
  BY <1>2 DEF Reached
<1>3. \A s \in InTrailers : Suitable(s)
  BY <1>2 DEF Suitable, BodySuits, Reading, InField, InChunks, InTrailers
<1>4. /\ InTrailers \subseteq S /\ "ERRORED" \in S
      /\ {INSUFFICIENT, "skip", "trailer_name", "trailer_value", "end_of_message",
          "error_invalid_data"} \subseteq MessageCode
  BY DEF MessageCode
<1> HIDE DEF S
<1>5. ASSUME NEW here \in InTrailers, NEW s \in InTrailers,
             NEW code \in {"skip", "trailer_name", "trailer_value"},
             Outcome(buf, i, here, s, code), UNCHANGED framing
      PROVE  Goal
  <2>1. {here, s, "ERRORED"} \subseteq S /\ code \in MessageCode
    BY <1>4
  <2> QED
    BY <1>3, <1>5, <2>1, OutcomeReached
<1>6. ASSUME CrlfAfterTrailers(buf, i, n, first, none)
      PROVE  Goal
  <2>1. Outcome(buf, i, "EXPECT_CRLF_AFTER_TRAILERS", first, "end_of_message")
    BY <1>6, StrictCrlfOutcome DEF CrlfAfterTrailers
  <2>2. CASE code_' = "end_of_message"
    <3>1. body_type' = none /\ body_size' = body_size
      BY <1>6, <2>2 DEF CrlfAfterTrailers
    <3>2. state' = first
      BY <2>1, <2>2 DEF Outcome, INSUFFICIENT
    <3>3. BodySuits(state', body_type', body_size')
      BY <3>1, <3>2 DEF BodySuits, InChunks
    <3> QED
      BY <1>4, <2>1, <2>2, <3>1, <3>2, <3>3 DEF Reached, Outcome
  <2>3. CASE code_' # "end_of_message"
    <3>1. UNCHANGED framing
      BY <1>6, <2>3 DEF CrlfAfterTrailers, framing
    <3>2. Suitable("EXPECT_CRLF_AFTER_TRAILERS") /\ Suitable("ERRORED")
      BY <1>3, ErroredSuits DEF InTrailers, Suitable
    <3>3. /\ state' \in {"EXPECT_CRLF_AFTER_TRAILERS", "ERRORED"}
          /\ code_' \in MessageCode
          /\ token_size_' \in Nat /\ i + token_size_' <= Len(buf)
      BY <1>4, <2>1, <2>3 DEF Outcome
    <3>4. state' \in S /\ Suitable(state')
      BY <1>4, <3>2, <3>3 DEF InTrailers
    <3> QED
      BY <3>1, <3>3, <3>4, MoveReached
  <2> QED
    BY <2>2, <2>3
<1>7. ASSUME TrailerValue(buf, i, n), UNCHANGED framing
      PROVE  Goal
  <2>1. Outcome(buf, i, "EXPECT_TRAILER_VALUE", "EXPECT_CRLF_AFTER_TRAILER_VALUE",
                "trailer_value")
    BY <1>7, RescanTokenOutcome DEF TrailerValue
  <2> HIDE DEF Goal
  <2> QED
    BY <1>5, <1>7, <2>1 DEF InTrailers
<1>8. CASE ExpectTrailerName(buf, i, n, first, none)
  <2>1. CASE buf[i + 1] \notin is_tchar
    BY <1>6, <1>8, <2>1 DEF ExpectTrailerName
  <2>2. CASE buf[i + 1] \in is_tchar
    <3>1. Outcome(buf, i, state, "EXPECT_TRAILER_COLON", "trailer_name")
      BY <1>8, <2>2, RescanTokenOutcome DEF ExpectTrailerName
    <3>2. UNCHANGED framing
      BY <1>8, <2>2 DEF ExpectTrailerName
    <3> HIDE DEF Goal
    <3> QED
      BY <1>1, <1>5, <3>1, <3>2 DEF InTrailers
  <2> QED
    BY <2>1, <2>2
<1>9. CASE ExpectTrailerColon(buf, i, n)
  <2>1. \/ Outcome(buf, i, "EXPECT_OWS_AFTER_TRAILER_COLON",
                   "EXPECT_OWS_AFTER_TRAILER_COLON", "skip")
        \/ Outcome(buf, i, "EXPECT_TRAILER_VALUE", "EXPECT_TRAILER_VALUE", "skip")
    BY <1>9, ColonOutcome DEF ExpectTrailerColon
  <2>2. UNCHANGED framing
    BY <1>9 DEF ExpectTrailerColon
  <2> HIDE DEF Goal
  <2> QED
    BY <1>5, <2>1, <2>2 DEF InTrailers
<1>10. CASE ExpectOwsAfterTrailerColon(buf, i, n)
  <2>1. PICK e \in i..Len(buf) : TrailerValue(buf, i, n) \/ Emit(state, "skip", e - i)
    BY <1>10 DEF ExpectOwsAfterTrailerColon
  <2>2. e - i \in Nat /\ i + (e - i) <= Len(buf)
    OBVIOUS
  <2>3. UNCHANGED framing
    BY <1>10 DEF ExpectOwsAfterTrailerColon
  <2>4. CASE Emit(state, "skip", e - i)
    <3>1. state' \in S /\ Suitable(state') /\ code_' \in MessageCode
      BY <1>1, <1>4, <2>4 DEF Emit
    <3> QED
      BY <2>2, <2>3, <2>4, <3>1, MoveReached DEF Emit
  <2> QED
    BY <1>7, <2>1, <2>3, <2>4
<1>11. CASE ExpectTrailerValue(buf, i, n)
  BY <1>7, <1>11 DEF ExpectTrailerValue
<1>12. CASE ExpectCrlfAfterTrailerValue(buf, i, n)
  <2>1. Outcome(buf, i, state, "EXPECT_TRAILER_NAME", "skip")
    BY <1>12, StrictCrlfOutcome DEF ExpectCrlfAfterTrailerValue
  <2>2. UNCHANGED framing
    BY <1>12 DEF ExpectCrlfAfterTrailerValue
  <2> HIDE DEF Goal
  <2> QED
    BY <1>1, <1>5, <2>1, <2>2 DEF InTrailers
<1>13. CASE ExpectCrlfAfterTrailers(buf, i, n, first, none)
  BY <1>6, <1>13 DEF ExpectCrlfAfterTrailers
<1> HIDE DEF Goal
<1> QED
  BY <1>8, <1>9, <1>10, <1>11, <1>12, <1>13 DEF TrailerCase

-----------------------------------------------------------------------------
(* The bytes behind a token and behind a wait.  What follows is common to   *)
(* the two readers, the states of the start line of both included.         *)

(* The bytes at offset i of buf make up a token of that code and size. *)
TokenIs(code, size, buf, i) ==
    /\ code \in {"method", "field_name", "trailer_name"} => MaxRun(is_tchar, buf, i, size)
    /\ code = "request_target" => MaxRun(is_request_target_char, buf, i, size)
    /\ code = "reason_phrase" => MaxRun(is_reason_phrase_char, buf, i, size)
    /\ code \in {"field_value", "trailer_value"} =>
          /\ MaxRun(is_field_value_char, buf, i, size)
          /\ size > 0 => buf[i + 1] \notin is_ows
    /\ code = "chunk_ext" => MaxRun(is_chunk_ext_char, buf, i, size)
    /\ code \in {"version", "status_code"} => \A k \in 1..size : buf[i + k] \in isdigit
    /\ code = "body_chunk" => size > 0

(* The states whose scan is resumed behind the bytes of earlier calls. *)
ScanState == {"EXPECT_METHOD", "EXPECT_REQUEST_TARGET", "EXPECT_CHUNK_EXT"}

LiteralState == {"EXPECT_STATIC_STR_AFTER_TARGET", "EXPECT_VERSION_STATIC_STR"}

(* The states that are entered only when the value has been seen to start. *)
ValueState == {"EXPECT_FIELD_VALUE", "EXPECT_TRAILER_VALUE"}

(* What earlier calls know of the first n bytes at offset i. *)
Scanned(s, n, buf, i) ==
    /\ s = "EXPECT_METHOD" => \A k \in 1..n : buf[i + k] \in is_tchar
    /\ s = "EXPECT_REQUEST_TARGET" =>
          \A k \in 1..n : buf[i + k] \in is_request_target_char
    /\ s = "EXPECT_CHUNK_EXT" => \A k \in 1..n : buf[i + k] \in is_chunk_ext_char
    /\ s \in LiteralState =>
          n <= Len(StaticStr) /\ \A k \in 1..n : buf[i + k] = StaticStr[k]
    /\ s \notin ScanState \cup LiteralState => n = 0

(* What is left in the buffer when next() waits in state s: the beginning   *)
(* of what s expects, with nothing to tell its end.                        *)
Waits(s, size, buf, i) ==
    /\ Scanned(s, size, buf, i)
    /\ s \in ScanState \cup LiteralState => size = Len(buf) - i
    /\ s \in LiteralState => size < Len(StaticStr)
    /\ s \in {"EXPECT_FIELD_NAME", "EXPECT_TRAILER_NAME"} => RestIn(is_tchar, buf, i)
    /\ s \in ValueState => RestIn(is_field_value_char, buf, i)
    /\ s = "EXPECT_REASON_PHRASE" => RestIn(is_reason_phrase_char, buf, i)
    /\ s = "EXPECT_CHUNK_SIZE" => RestIn(is_hexdigit, buf, i)
    /\ s = "EXPECT_STATUS_CODE" => Len(buf) - i < 3
    /\ s \in {"EXPECT_CRLF_AFTER_VERSION", "EXPECT_CRLF_AFTER_REASON_PHRASE",
              "EXPECT_CRLF_AFTER_FIELD_VALUE", "EXPECT_CRLF_AFTER_HEADERS"} =>
          Len(buf) = i \/ (Len(buf) = i + 1 /\ buf[i + 1] = CR)
    /\ s \in {"EXPEXT_CRLF_AFTER_CHUNK_EXT", "EXPECT_CRLF_AFTER_CHUNK_DATA",
              "EXPECT_CRLF_AFTER_TRAILER_VALUE", "EXPECT_CRLF_AFTER_TRAILERS"} =>
          Len(buf) - i < 2
    /\ s \in {"EXPECT_SP_AFTER_METHOD", "EXPECT_VERSION", "EXPECT_SP_AFTER_VERSION",
              "EXPECT_SP_AFTER_STATUS_CODE", "EXPECT_COLON", "EXPECT_OWS_AFTER_COLON",
              "EXPECT_TRAILER_COLON", "EXPECT_OWS_AFTER_TRAILER_COLON", "EXPECT_BODY",
              "EXPECT_UNSAFE_BODY", "EXPECT_CHUNK_DATA"} => Len(buf) = i
    /\ s \notin {"ERRORED", "EXPECT_END_OF_BODY", "EXPECT_END_OF_MESSAGE",
                 "EXPECT_END_OF_CONNECTION_ERROR"}

(* What is known of the bytes before and after a case that reads at offset *)
(* i of buf, where there is at least one byte.                             *)
Ahead(n, buf, i) == /\ Scanned(state, n, buf, i)
                    /\ state \in ValueState => InkAt(buf, i)

Read(buf, i) == /\ TokenIs(code_', token_size_', buf, i)
                /\ code_' = INSUFFICIENT => Waits(state', token_size_', buf, i)
                /\ state' \in ValueState => InkAt(buf, i + Consumed')
                /\ state' = "ERRORED" => code_' \in ErrorCode \ {INSUFFICIENT}

(* A case that fails, and one that gives a token whose bytes do not matter. *)
LEMMA FailRead ==
    ASSUME NEW buf, NEW i, state' = "ERRORED", code_' \in ErrorCode \ {INSUFFICIENT}
    PROVE  Read(buf, i)
BY DEF Read, TokenIs, ErrorCode, INSUFFICIENT, ValueState

LEMMA PlainRead ==
    ASSUME NEW buf, NEW i, state' \notin ValueState \cup {"ERRORED"},
           code_' \in {"skip", "end_of_headers", "end_of_body", "end_of_message"}
    PROVE  Read(buf, i)
BY DEF Read, TokenIs, INSUFFICIENT

(* A wait at the end of the buffer. *)
LEMMA WaitRead ==
    ASSUME NEW buf \in Seq(Byte), NEW i \in Nat, NEW s, state' = s,
           code_' = INSUFFICIENT, Waits(s, token_size_', buf, i),
           s \in ValueState => InkAt(buf, i)
    PROVE  Read(buf, i)
<1>1. s # "ERRORED"
  BY DEF Waits
<1>2. i + Consumed' = i
  BY DEF Consumed
<1> QED
  BY <1>1, <1>2 DEF Read, TokenIs, INSUFFICIENT

(* With nothing to read, every state but the ones that need no bytes waits. *)
LEMMA EmptyWaits ==
    ASSUME NEW buf \in Seq(Byte), NEW s, NEW n \in Nat, Len(buf) + n <= Len(buf),
           s \notin {"ERRORED", "EXPECT_END_OF_BODY", "EXPECT_END_OF_MESSAGE",
                    "EXPECT_END_OF_CONNECTION_ERROR"}
    PROVE  Waits(s, n, buf, Len(buf))
<1>1. Len(buf) \in Nat /\ n = 0 /\ Len(buf) - Len(buf) = 0
  OBVIOUS
<1>2. Len(StaticStr) \in Nat /\ Len(StaticStr) > 0
  BY LiteralsAssumption
<1>3. \A S : RestIn(S, buf, Len(buf))
  BY <1>1 DEF RestIn
<1>4. Scanned(s, n, buf, Len(buf))
  BY <1>1, <1>2 DEF Scanned
<1> QED
  BY <1>1, <1>2, <1>3, <1>4 DEF Waits

LEMMA StartWaits ==
    ASSUME NEW s, s \notin {"ERRORED", "EXPECT_END_OF_BODY", "EXPECT_END_OF_MESSAGE",
                           "EXPECT_END_OF_CONNECTION_ERROR"}
    PROVE  Waits(s, 0, <<>>, 0)
<1> DEFINE buf == <<>>
<1>1. buf \in Seq(Byte) /\ Len(buf) = 0 /\ Len(buf) + 0 <= Len(buf) /\ 0 \in Nat
  OBVIOUS
<1> HIDE DEF buf
<1>2. ASSUME NEW n \in Nat, Len(buf) + n <= Len(buf) PROVE Waits(s, n, buf, Len(buf))
  BY <1>1, <1>2, EmptyWaits
<1> QED
  BY <1>1, <1>2 DEF buf

(* The value of a field: the OWS before it is never a part of it. *)
LEMMA FieldValueRead ==
    ASSUME NEW buf \in Seq(Byte), NEW i \in Nat, NEW n \in Nat, n = 0,
           InkAt(buf, i), FieldValue(buf, i, n)
    PROVE  Read(buf, i)
<1>1. Len(buf) \in Nat
  OBVIOUS
<1>2. PICK e \in i..Len(buf) :
        /\ Run(is_field_value_char, buf, i, e)
        /\ \/ e = Len(buf) /\ Suspend("EXPECT_FIELD_VALUE", n)
           \/ /\ e < Len(buf)
              /\ \/ \E value : \/ ContentLengthValue(value, e - i)
                               \/ TransferEncodingValue(value, e - i)
                 \/ Emit("EXPECT_CRLF_AFTER_FIELD_VALUE", "field_value", e - i)
  BY DEF FieldValue
<1>3. \A k \in 1..(e - i) : buf[i + k] \in is_field_value_char
  BY <1>1, <1>2 DEF Run
<1>4. CASE e = Len(buf) /\ Suspend("EXPECT_FIELD_VALUE", n)
  <2>1. RestIn(is_field_value_char, buf, i)
    BY <1>3, <1>4 DEF RestIn
  <2>2. Waits("EXPECT_FIELD_VALUE", n, buf, i)
    BY <2>1 DEF Waits, Scanned, ScanState, LiteralState
  <2> QED
    BY <1>4, <2>2, WaitRead DEF Suspend, Emit
<1>5. CASE /\ e < Len(buf)
           /\ Emit("EXPECT_CRLF_AFTER_FIELD_VALUE", "field_value", e - i)
  <2>1. MaxRun(is_field_value_char, buf, i, e - i)
    BY <1>1, <1>2, <1>3, <1>5 DEF MaxRun, Run
  <2> QED
    BY <1>5, <2>1 DEF Emit, Read, TokenIs, InkAt, INSUFFICIENT, ValueState
<1>6. CASE \E code \in ErrorCode \ {INSUFFICIENT} : Fail(code, e - i)
  BY <1>6, FailRead DEF Fail, Emit
<1>7. ASSUME NEW value,
             ContentLengthValue(value, e - i) \/ TransferEncodingValue(value, e - i)
      PROVE  \/ Emit("EXPECT_CRLF_AFTER_FIELD_VALUE", "field_value", e - i)
             \/ \E code \in ErrorCode \ {INSUFFICIENT} : Fail(code, e - i)
  BY <1>7 DEF ContentLengthValue, TransferEncodingValue, ErrorCode, INSUFFICIENT
<1> QED
  BY <1>2, <1>4, <1>5, <1>6, <1>7

LEMMA FieldRead ==
    ASSUME NEW buf \in Seq(Byte), NEW i \in Nat, NEW n \in Nat, i # Len(buf),
           i + n <= Len(buf), Ahead(n, buf, i), FieldCase(buf, i, n)
    PROVE  Read(buf, i)
<1>1. Len(buf) \in Nat /\ i < Len(buf)
  OBVIOUS
<1>2. n = 0
  BY DEF FieldCase, ExpectColon, ExpectOwsAfterColon, ExpectFieldValue,
         ExpectCrlfAfterFieldValue, Ahead, Scanned, ScanState, LiteralState
<1>3. "error_invalid_data" \in ErrorCode \ {INSUFFICIENT}
  BY DEF ErrorCode, INSUFFICIENT
<1>4. CASE ExpectColon(buf, i, n)
  <2>1. \/ Ends("EXPECT_OWS_AFTER_COLON", FALSE, "EXPECT_OWS_AFTER_COLON", "skip",
                token_size_' > 0)
        \/ Ends("EXPECT_FIELD_VALUE", FALSE, "EXPECT_FIELD_VALUE", "skip",
                token_size_' > 0 /\ InkAt(buf, i + token_size_'))
    BY <1>4, ColonEnds DEF ExpectColon
  <2>2. CASE state' = "EXPECT_FIELD_VALUE" /\ code_' = "skip" /\ InkAt(buf, i + token_size_')
    BY <2>2 DEF Read, TokenIs, Consumed, INSUFFICIENT
  <2> QED
    BY <1>3, <2>1, <2>2, FailRead, PlainRead DEF Ends, ValueState
<1>5. CASE ExpectOwsAfterColon(buf, i, n)
  <2>1. PICK e \in i..Len(buf) :
          /\ Run(is_ows, buf, i, e)
          /\ (e = i /\ FieldValue(buf, i, n)) \/ Emit(state, "skip", e - i)
    BY <1>5 DEF ExpectOwsAfterColon
  <2>2. e = i => InkAt(buf, i)
    BY <1>1, <2>1 DEF Run, InkAt
  <2>3. CASE Emit(state, "skip", e - i)
    BY <1>5, <2>3, PlainRead DEF Emit, ExpectOwsAfterColon, ValueState
  <2> QED
    BY <1>2, <2>1, <2>2, <2>3, FieldValueRead
<1>6. CASE ExpectFieldValue(buf, i, n)
  BY <1>2, <1>6, FieldValueRead DEF ExpectFieldValue, Ahead, ValueState
<1>7. CASE ExpectCrlfAfterFieldValue(buf, i, n)
  <2>1. Ends(state, token_size_' = n /\ Len(buf) = i + 1 /\ buf[i + 1] = CR,
             "EXPECT_FIELD_NAME", "skip", token_size_' \in {1, 2})
    BY <1>1, <1>7, LiberalCrlfEnds DEF ExpectCrlfAfterFieldValue
  <2>2. CASE state' = state /\ code_' = INSUFFICIENT /\ token_size_' = n
             /\ Len(buf) = i + 1 /\ buf[i + 1] = CR
    <3>1. Waits("EXPECT_CRLF_AFTER_FIELD_VALUE", token_size_', buf, i)
      BY <1>2, <2>2 DEF Waits, Scanned, ScanState, LiteralState, ValueState
    <3> QED
      BY <1>7, <2>2, <3>1, WaitRead DEF ExpectCrlfAfterFieldValue, ValueState
  <2> QED
    BY <1>3, <2>1, <2>2, FailRead, PlainRead DEF Ends, ValueState
<1> QED
  BY <1>4, <1>5, <1>6, <1>7 DEF FieldCase

(* A body of known length never waits while there are bytes. *)
LEMMA BodyRead ==
    ASSUME body_size \in Uint, Suitable(state), NEW buf \in Seq(Byte), NEW i \in Nat,
           NEW n \in Nat, i # Len(buf), i + n <= Len(buf), ExpectBody(buf, i, n)
    PROVE  Read(buf, i)
<1>1. Len(buf) \in Nat /\ i <= Len(buf)
  OBVIOUS
<1>2. body_size > 0
  BY DEF ExpectBody, Suitable, BodySuits
<1>3. /\ code_' = "body_chunk" /\ token_size_' > 0
      /\ state' \in {"EXPECT_BODY", "EXPECT_END_OF_BODY"}
  <2>1. token_size_' \in 1..body_size => token_size_' > 0
    BY UintMaxAssumption DEF Uint
  <2> QED
    BY <1>1, <1>2, <2>1, BodyTokenEnds DEF ExpectBody
<1> QED
  BY <1>3 DEF Read, TokenIs, INSUFFICIENT, ValueState

LEMMA ChunkRead ==
    ASSUME body_size \in Uint, Suitable(state), NEW buf \in Seq(Byte), NEW i \in Nat,
           NEW n \in Nat, i # Len(buf), i + n <= Len(buf), Ahead(n, buf, i),
           ChunkCase(buf, i, n)
    PROVE  Read(buf, i)
<1>1. Len(buf) \in Nat /\ i < Len(buf) /\ i <= Len(buf)
  OBVIOUS
<1>2. state # "EXPECT_CHUNK_EXT" => n = 0
  BY DEF ChunkCase, ExpectChunkSize, ExpectChunkExt, ExpectCrlfAfterChunkExt,
         ExpectChunkData, ExpectCrlfAfterChunkData, Ahead, Scanned, ScanState, LiteralState
<1>3. {"error_invalid_data", "error_chunk_size_overflow"} \subseteq ErrorCode \ {INSUFFICIENT}
  BY DEF ErrorCode, INSUFFICIENT
<1>4. ASSUME NEW here \in {"EXPEXT_CRLF_AFTER_CHUNK_EXT", "EXPECT_CRLF_AFTER_CHUNK_DATA"},
             NEW s, s \notin ValueState \cup {"ERRORED"}, NEW code \in {"skip", "end_of_body"},
             StrictCrlf(buf, i, 0, here, s, code)
      PROVE  Read(buf, i)
  <2>1. Ends(here, token_size_' = 0 /\ Len(buf) - i < 2, s, code, token_size_' = 2)
    BY <1>4, StrictCrlfEnds
  <2>2. CASE state' = here /\ code_' = INSUFFICIENT /\ token_size_' = 0 /\ Len(buf) - i < 2
    <3>1. Waits(here, token_size_', buf, i)
      BY <1>4, <2>2 DEF Waits, Scanned, ScanState, LiteralState, ValueState
    <3> QED
      BY <2>2, <3>1, <1>4, WaitRead DEF ValueState
  <2> QED
    BY <1>3, <1>4, <2>1, <2>2, FailRead, PlainRead DEF Ends
<1>5. ASSUME CrlfAfterChunkExt(buf, i, 0)
      PROVE  Read(buf, i)
  <2>1. CASE body_size = 0
    BY <1>4, <1>5, <2>1 DEF CrlfAfterChunkExt, ValueState
  <2>2. CASE body_size # 0
    BY <1>4, <1>5, <2>2 DEF CrlfAfterChunkExt, ValueState
  <2> QED
    BY <2>1, <2>2
<1>6. CASE ExpectChunkSize(buf, i, n)
  <2>1. PICK e \in i..Len(buf) :
          /\ Run(is_hexdigit, buf, i, e)
          /\ \/ \E code \in {"error_invalid_data", "error_chunk_size_overflow"} : Fail(code, n)
             \/ e = Len(buf) /\ Suspend(state, n)
             \/ Emit("EXPECT_CHUNK_EXT", "skip", e - i)
    BY <1>6 DEF ExpectChunkSize
  <2>2. CASE e = Len(buf) /\ Suspend(state, n)
    <3>1. RestIn(is_hexdigit, buf, i)
      BY <1>1, <2>1, <2>2 DEF Run, RestIn
    <3>2. Waits("EXPECT_CHUNK_SIZE", n, buf, i)
      BY <1>2, <1>6, <3>1
      DEF ExpectChunkSize, Waits, Scanned, ScanState, LiteralState, ValueState
    <3> QED
      BY <1>6, <2>2, <3>2, WaitRead DEF ExpectChunkSize, Suspend, Emit, ValueState
  <2> QED
    BY <1>3, <2>1, <2>2, FailRead, PlainRead DEF Fail, Emit, ValueState
<1>7. CASE ExpectChunkExt(buf, i, n)
  <2>1. PICK e \in (i + n)..Len(buf) :
          /\ Run(is_chunk_ext_char, buf, i + n, e)
          /\ \/ e = Len(buf) /\ Suspend(state, e - i)
             \/ Fail("error_invalid_data", n)
             \/ CrlfAfterChunkExt(buf, i, 0)
             \/ e < Len(buf) /\ Emit("EXPEXT_CRLF_AFTER_CHUNK_EXT", "chunk_ext", e - i)
    BY <1>7 DEF ExpectChunkExt
  <2>2. \A k \in 1..n : buf[i + k] \in is_chunk_ext_char
    BY <1>7 DEF ExpectChunkExt, Ahead, Scanned
  <2>3. \A k \in 1..(e - i) : buf[i + k] \in is_chunk_ext_char
    <3> SUFFICES ASSUME NEW k \in 1..(e - i) PROVE buf[i + k] \in is_chunk_ext_char
      OBVIOUS
    <3>1. CASE k <= n
      BY <2>2, <3>1
    <3>2. CASE k > n
      BY <1>1, <2>1, <3>2 DEF Run
    <3> QED
      BY <1>1, <3>1, <3>2
  <2>4. CASE e = Len(buf) /\ Suspend(state, e - i)
    <3>1. Waits("EXPECT_CHUNK_EXT", e - i, buf, i)
      BY <2>3, <2>4 DEF Waits, Scanned, ScanState, LiteralState, ValueState
    <3> QED
      BY <1>7, <2>4, <3>1, WaitRead DEF ExpectChunkExt, Suspend, Emit, ValueState
  <2>5. CASE e < Len(buf) /\ Emit("EXPEXT_CRLF_AFTER_CHUNK_EXT", "chunk_ext", e - i)
    <3>1. MaxRun(is_chunk_ext_char, buf, i, e - i)
      BY <1>1, <2>1, <2>3, <2>5 DEF Run, MaxRun
    <3> QED
      BY <2>5, <3>1 DEF Emit, Read, TokenIs, INSUFFICIENT, ValueState
  <2> QED
    BY <1>3, <1>5, <2>1, <2>4, <2>5, FailRead DEF Fail, Emit
<1>8. CASE ExpectCrlfAfterChunkExt(buf, i, n)
  BY <1>2, <1>5, <1>8 DEF ExpectCrlfAfterChunkExt
<1>9. CASE ExpectChunkData(buf, i, n)
  <2>1. body_size > 0
    BY <1>9 DEF ExpectChunkData, Suitable, BodySuits
  <2>2. /\ code_' = "body_chunk" /\ token_size_' > 0
        /\ state' \in {"EXPECT_CHUNK_DATA", "EXPECT_CRLF_AFTER_CHUNK_DATA"}
    <3>1. token_size_' \in 1..body_size => token_size_' > 0
      BY UintMaxAssumption DEF Uint
    <3> QED
      BY <1>1, <1>9, <2>1, <3>1, BodyTokenEnds DEF ExpectChunkData
  <2> QED
    BY <2>2 DEF Read, TokenIs, INSUFFICIENT, ValueState
<1>10. CASE ExpectCrlfAfterChunkData(buf, i, n)
  BY <1>2, <1>4, <1>10 DEF ExpectCrlfAfterChunkData, ValueState
<1> QED
  BY <1>6, <1>7, <1>8, <1>9, <1>10 DEF ChunkCase

LEMMA TrailerRead ==
    ASSUME NEW buf \in Seq(Byte), NEW i \in Nat, NEW n \in Nat, i # Len(buf),
           i + n <= Len(buf), Ahead(n, buf, i),
           NEW first, first \notin ValueState \cup {"ERRORED"}, NEW none,
           TrailerCase(buf, i, n, first, none)
    PROVE  Read(buf, i)
<1>1. Len(buf) \in Nat /\ i < Len(buf)
  OBVIOUS
<1>2. n = 0
  BY DEF TrailerCase, ExpectTrailerName, ExpectTrailerColon, ExpectOwsAfterTrailerColon,
         ExpectTrailerValue, ExpectCrlfAfterTrailerValue, ExpectCrlfAfterTrailers,
         Ahead, Scanned, ScanState, LiteralState
<1>3. "error_invalid_data" \in ErrorCode \ {INSUFFICIENT}
  BY DEF ErrorCode, INSUFFICIENT
<1>4. ASSUME NEW here \in {"EXPECT_CRLF_AFTER_TRAILER_VALUE", "EXPECT_CRLF_AFTER_TRAILERS"},
             NEW s, s \notin ValueState \cup {"ERRORED"},
             NEW code \in {"skip", "end_of_message"},
             StrictCrlf(buf, i, n, here, s, code)
      PROVE  Read(buf, i)
  <2>1. Ends(here, token_size_' = n /\ Len(buf) - i < 2, s, code, token_size_' = 2)
    BY <1>4, StrictCrlfEnds
  <2>2. CASE state' = here /\ code_' = INSUFFICIENT /\ token_size_' = n /\ Len(buf) - i < 2
    <3>1. Waits(here, token_size_', buf, i)
      BY <1>2, <1>4, <2>2 DEF Waits, Scanned, ScanState, LiteralState, ValueState
    <3> QED
      BY <2>2, <3>1, <1>4, WaitRead DEF ValueState
  <2> QED
    BY <1>3, <1>4, <2>1, <2>2, FailRead, PlainRead DEF Ends
<1>5. ASSUME CrlfAfterTrailers(buf, i, n, first, none)
      PROVE  Read(buf, i)
  BY <1>4, <1>5 DEF CrlfAfterTrailers
<1>6. ASSUME TrailerValue(buf, i, n), InkAt(buf, i)
      PROVE  Read(buf, i)
  <2>1. Ends("EXPECT_TRAILER_VALUE",
             token_size_' = n /\ RestIn(is_field_value_char, buf, i),
             "EXPECT_CRLF_AFTER_TRAILER_VALUE", "trailer_value",
             MaxRun(is_field_value_char, buf, i, token_size_'))
    BY <1>6, RescanTokenEnds DEF TrailerValue
  <2>2. CASE /\ state' = "EXPECT_TRAILER_VALUE" /\ code_' = INSUFFICIENT
             /\ token_size_' = n /\ RestIn(is_field_value_char, buf, i)
    <3>1. Waits("EXPECT_TRAILER_VALUE", token_size_', buf, i)
      BY <1>2, <2>2 DEF Waits, Scanned, ScanState, LiteralState
    <3> QED
      BY <1>6, <2>2, <3>1, WaitRead
  <2>3. CASE /\ state' = "EXPECT_CRLF_AFTER_TRAILER_VALUE" /\ code_' = "trailer_value"
             /\ MaxRun(is_field_value_char, buf, i, token_size_')
    BY <1>6, <2>3 DEF Read, TokenIs, InkAt, INSUFFICIENT, ValueState
  <2> QED
    BY <1>3, <2>1, <2>2, <2>3, FailRead DEF Ends
<1>7. CASE ExpectTrailerName(buf, i, n, first, none)
  <2>1. CASE buf[i + 1] \notin is_tchar
    BY <1>5, <1>7, <2>1 DEF ExpectTrailerName
  <2>2. CASE buf[i + 1] \in is_tchar
    <3>1. Ends("EXPECT_TRAILER_NAME", token_size_' = n /\ RestIn(is_tchar, buf, i),
               "EXPECT_TRAILER_COLON", "trailer_name",
               MaxRun(is_tchar, buf, i, token_size_'))
      BY <1>7, <2>2, RescanTokenEnds DEF ExpectTrailerName
    <3>2. CASE /\ state' = "EXPECT_TRAILER_NAME" /\ code_' = INSUFFICIENT
               /\ token_size_' = n /\ RestIn(is_tchar, buf, i)
      <4>1. Waits("EXPECT_TRAILER_NAME", token_size_', buf, i)
        BY <1>2, <3>2 DEF Waits, Scanned, ScanState, LiteralState, ValueState
      <4> QED
        BY <3>2, <4>1, WaitRead DEF ValueState
    <3>3. CASE /\ state' = "EXPECT_TRAILER_COLON" /\ code_' = "trailer_name"
               /\ MaxRun(is_tchar, buf, i, token_size_')
      BY <3>3 DEF Read, TokenIs, INSUFFICIENT, ValueState
    <3> QED
      BY <1>3, <3>1, <3>2, <3>3, FailRead DEF Ends
  <2> QED
    BY <2>1, <2>2
<1>8. CASE ExpectTrailerColon(buf, i, n)
  <2>1. \/ Ends("EXPECT_OWS_AFTER_TRAILER_COLON", FALSE, "EXPECT_OWS_AFTER_TRAILER_COLON",
                "skip", token_size_' > 0)
        \/ Ends("EXPECT_TRAILER_VALUE", FALSE, "EXPECT_TRAILER_VALUE", "skip",
                token_size_' > 0 /\ InkAt(buf, i + token_size_'))
    BY <1>8, ColonEnds DEF ExpectTrailerColon
  <2>2. CASE /\ state' = "EXPECT_TRAILER_VALUE" /\ code_' = "skip"
             /\ InkAt(buf, i + token_size_')
    BY <2>2 DEF Read, TokenIs, Consumed, INSUFFICIENT
  <2> QED
    BY <1>3, <2>1, <2>2, FailRead, PlainRead DEF Ends, ValueState
<1>9. CASE ExpectOwsAfterTrailerColon(buf, i, n)
  <2>1. PICK e \in i..Len(buf) :
          /\ Run(is_ows, buf, i, e)
          /\ (e = i /\ TrailerValue(buf, i, n)) \/ Emit(state, "skip", e - i)
    BY <1>9 DEF ExpectOwsAfterTrailerColon
  <2>2. e = i => InkAt(buf, i)
    BY <1>1, <2>1 DEF Run, InkAt
  <2>3. CASE Emit(state, "skip", e - i)
    BY <1>9, <2>3, PlainRead DEF Emit, ExpectOwsAfterTrailerColon, ValueState
  <2> QED
    BY <1>6, <2>1, <2>2, <2>3
<1>10. CASE ExpectTrailerValue(buf, i, n)
  BY <1>6, <1>10 DEF ExpectTrailerValue, Ahead, ValueState
<1>11. CASE ExpectCrlfAfterTrailerValue(buf, i, n)
  BY <1>4, <1>11 DEF ExpectCrlfAfterTrailerValue, ValueState
<1>12. CASE ExpectCrlfAfterTrailers(buf, i, n, first, none)
  BY <1>5, <1>12 DEF ExpectCrlfAfterTrailers
<1> QED
  BY <1>7, <1>8, <1>9, <1>10, <1>11, <1>12 DEF TrailerCase

-----------------------------------------------------------------------------
(* A token and what is known ahead of a state are still there when the     *)
(* bytes behind them are cut off, given back or added to.                  *)
LEMMA TokenIsShown ==
    ASSUME NEW q \in Seq(Byte), NEW i \in Nat, NEW r \in Seq(Byte), NEW j \in Nat,
           Shows(r, j, q, i), NEW code, NEW size \in Nat, i + size <= Len(q),
           TokenIs(code, size, q, i)
    PROVE  TokenIs(code, size, r, j)
<1>1. Len(q) \in Nat /\ Len(r) \in Nat
  OBVIOUS
<1>2. ASSUME NEW k \in 1..size PROVE r[j + k] = q[i + k]
  <2>1. k \in 1..(Len(q) - i)
    BY <1>1
  <2> QED
    BY <2>1 DEF Shows
<1>3. ASSUME NEW S, MaxRun(S, q, i, size) PROVE MaxRun(S, r, j, size)
  <2>1. i + size < Len(q) /\ j + size < Len(r) /\ size + 1 \in 1..(Len(q) - i)
    BY <1>1, <1>3 DEF MaxRun, Shows
  <2>2. r[j + (size + 1)] = q[i + (size + 1)]
    BY <2>1 DEF Shows
  <2>3. r[j + size + 1] = q[i + size + 1]
    BY <1>1, <2>2
  <2> QED
    BY <1>2, <1>3, <2>1, <2>3 DEF MaxRun
<1>4. size > 0 => r[j + 1] = q[i + 1]
  BY <1>2
<1> QED
  BY <1>2, <1>3, <1>4 DEF TokenIs

LEMMA InkIsShown ==
    ASSUME NEW q \in Seq(Byte), NEW i \in Nat, NEW r \in Seq(Byte), NEW j \in Nat,
           Shows(r, j, q, i), NEW c \in Nat, InkAt(q, i + c)
    PROVE  InkAt(r, j + c)
<1>1. Len(q) \in Nat /\ Len(r) \in Nat /\ i + c < Len(q)
  BY DEF InkAt
<1>2. c + 1 \in 1..(Len(q) - i) /\ j + c < Len(r)
  BY <1>1 DEF Shows
<1>3. r[j + (c + 1)] = q[i + (c + 1)]
  BY <1>2 DEF Shows
<1>4. r[j + c + 1] = q[i + c + 1]
  BY <1>1, <1>3
<1> QED
  BY <1>2, <1>4 DEF InkAt

(* The bytes scanned so far are the first bytes of the next buffer. *)
LEMMA ScannedIsShown ==
    ASSUME NEW q, NEW i \in Nat, NEW r, NEW j \in Nat, NEW s, NEW n \in Nat,
           \A k \in 1..n : r[j + k] = q[i + k], Scanned(s, n, q, i)
    PROVE  Scanned(s, n, r, j)
BY DEF Scanned

(* What a reader knows of the bytes r from offset j on, where its buffer    *)
(* starts to show them.                                                    *)
Known(r, j) == /\ code_ = INSUFFICIENT => Waits(state, token_size_, ibuffer, idx)
               /\ state \in ValueState => InkAt(r, j + Consumed)
               /\ state = "ERRORED" => code_ \in ErrorCode \ {INSUFFICIENT}

(* Any other buffer that shows them lets next() go on where it was. *)
LEMMA BytesAhead ==
    ASSUME token_size_ \in Nat, idx \in Nat, ibuffer \in Seq(Byte),
           idx + token_size_ <= Len(ibuffer),
           NEW r, NEW j \in Nat, Known(r, j), Shows(r, j, ibuffer, idx),
           NEW buf \in Seq(Byte), NEW pos \in Nat, Shows(r, j, buf, pos),
           pos + token_size_ <= Len(buf), NEW i, i = pos + Consumed, i < Len(buf),
           NEW n, n = token_size_ - Consumed
    PROVE  Ahead(n, buf, i)
<1>1. Len(buf) \in Nat /\ Len(ibuffer) \in Nat
  OBVIOUS
<1>2. i \in Nat /\ n \in Nat /\ i + n = pos + token_size_ /\ Consumed \in Nat
  BY <1>1 DEF Consumed
<1>3. Scanned(state, n, buf, i)
  <2>1. CASE code_ = INSUFFICIENT
    <3>1. n = token_size_ /\ i = pos
      BY <1>1, <2>1 DEF Consumed
    <3>2. Scanned(state, n, ibuffer, idx)
      BY <2>1, <3>1 DEF Known, Waits
    <3>3. ASSUME NEW k \in 1..n PROVE buf[i + k] = ibuffer[idx + k]
      <4>1. k \in 1..(Len(ibuffer) - idx) /\ k \in 1..(Len(buf) - pos)
        BY <1>1, <3>1
      <4>2. r[j + k] = buf[pos + k] /\ r[j + k] = ibuffer[idx + k]
        BY <4>1 DEF Shows
      <4> QED
        BY <3>1, <4>2
    <3> QED
      BY <1>1, <1>2, <3>2, <3>3, ScannedIsShown
  <2>2. CASE code_ # INSUFFICIENT
    <3>1. n = 0
      BY <1>1, <2>2 DEF Consumed
    <3>2. Len(StaticStr) \in Nat
      BY LiteralsAssumption
    <3> QED
      BY <3>1, <3>2 DEF Scanned
  <2> QED
    BY <2>1, <2>2
<1>4. state \in ValueState => InkAt(buf, i)
  <2> SUFFICES ASSUME state \in ValueState PROVE InkAt(buf, i)
    OBVIOUS
  <2>1. r[j + Consumed + 1] \notin is_ows
    BY DEF Known, InkAt
  <2>2. Consumed + 1 \in 1..(Len(buf) - pos)
    BY <1>1, <1>2
  <2>3. r[j + (Consumed + 1)] = buf[pos + (Consumed + 1)]
    BY <2>2 DEF Shows
  <2>4. j + Consumed + 1 = j + (Consumed + 1) /\ pos + (Consumed + 1) = i + 1
    BY <1>2
  <2>5. buf[i + 1] \notin is_ows
    BY <2>1, <2>3, <2>4
  <2> QED
    BY <2>5 DEF InkAt
<1> QED
  BY <1>3, <1>4 DEF Ahead

(* Where the buffer ended there is nothing new to know. *)
LEMMA KnownRead ==
    ASSUME NEW r \in Seq(Byte), NEW j \in Nat, Known(r, j), Consumed \in Nat,
           NEW buf \in Seq(Byte), NEW pos \in Nat, Shows(r, j, buf, pos),
           ibuffer' = buf, idx' \in pos..Len(buf), Consumed' \in Nat,
           NEW m \in Nat, m = j + (idx' - pos),
           \/ Read(buf, idx')
           \/ /\ idx' = pos + Consumed /\ state' = state /\ code_' = INSUFFICIENT
              /\ Waits(state', token_size_', buf, idx')
    PROVE  /\ code_' = INSUFFICIENT => Waits(state', token_size_', ibuffer', idx')
           /\ state' \in ValueState => InkAt(r, m + Consumed')
           /\ state' = "ERRORED" => code_' \in ErrorCode \ {INSUFFICIENT}
<1>1. PICK i \in pos..Len(buf), c \in Nat : i = idx' /\ c = Consumed'
  OBVIOUS
<1>2. Len(buf) \in Nat /\ i \in Nat /\ i - pos \in Nat /\ m = j + (i - pos)
  <2>1. m = j + (i - pos)
    BY ONLY <1>1, m = j + (idx' - pos)
  <2> QED
    BY ONLY <2>1, i \in pos..Len(buf), pos \in Nat, buf \in Seq(Byte)
<1>3. CASE Read(buf, idx')
  <2>1. state' \in ValueState => InkAt(r, m + Consumed')
    <3> SUFFICES ASSUME state' \in ValueState PROVE InkAt(r, m + c)
      BY <1>1
    <3>1. InkAt(buf, i + c)
      BY <1>1, <1>3 DEF Read
    <3>2. pos + (i - pos + c) = i + c /\ j + (i - pos + c) = m + c /\ i - pos + c \in Nat
      BY ONLY <1>2, pos \in Nat, c \in Nat, j \in Nat
    <3>3. PICK d \in Nat : d = i - pos + c
      BY <3>2
    <3>4. InkAt(buf, pos + d)
      BY <3>1, <3>2, <3>3
    <3>5. InkAt(r, j + d)
      BY <3>4, InkIsShown
    <3> QED
      BY <3>2, <3>3, <3>5
  <2> QED
    BY <1>1, <1>3, <2>1 DEF Read
<1>4. CASE /\ idx' = pos + Consumed /\ state' = state /\ code_' = INSUFFICIENT
           /\ Waits(state', token_size_', buf, idx')
  <2>1. Consumed' = 0 /\ m = j + Consumed /\ m + 0 = m
    <3>1. Consumed' = 0
      BY ONLY <1>4 DEF Consumed
    <3>2. Consumed \in Nat
      OBVIOUS
    <3> QED
      BY ONLY <1>1, <1>2, <1>4, <3>1, <3>2, pos \in Nat, j \in Nat
  <2>2. state' # "ERRORED"
    BY <1>4 DEF Waits
  <2>3. state' \in ValueState => InkAt(r, m)
    BY <1>4, <2>1 DEF Known
  <2> QED
    BY <1>4, <2>1, <2>2, <2>3
<1> QED
  BY <1>3, <1>4

-----------------------------------------------------------------------------
(* A case that is tried again on the bytes it waited with waits again.      *)

LEMMA WaitsIsShown ==
    ASSUME NEW q \in Seq(Byte), NEW i \in Nat, i <= Len(q),
           NEW r \in Seq(Byte), NEW j \in Nat, j <= Len(r),
           Len(r) - j = Len(q) - i, \A k \in 1..(Len(q) - i) : r[j + k] = q[i + k],
           NEW s, NEW n \in Nat, i + n <= Len(q), Waits(s, n, q, i)
    PROVE  Waits(s, n, r, j)
<1>1. Len(q) \in Nat /\ Len(r) \in Nat
  OBVIOUS
<1>2. Scanned(s, n, r, j)
  <2>1. \A k \in 1..n : r[j + k] = q[i + k]
    BY <1>1
  <2> QED
    BY <2>1, ScannedIsShown DEF Waits
<1>3. \A S : RestIn(S, q, i) => RestIn(S, r, j)
  BY DEF RestIn
<1>4. Len(q) = i => Len(r) = j
  BY <1>1
<1>5. Len(q) = i + 1 /\ q[i + 1] = CR => Len(r) = j + 1 /\ r[j + 1] = CR
  BY <1>1
<1> QED
  BY <1>2, <1>3, <1>4, <1>5 DEF Waits

(* Nothing changes. *)
Stays(n) == /\ state' = state /\ code_' = INSUFFICIENT /\ token_size_' = n
            /\ UNCHANGED framing

(* A scan of bytes that are all in the class runs to the end of the buffer. *)
LEMMA RunsToEnd ==
    ASSUME NEW buf \in Seq(Byte), NEW i \in Nat, NEW S, RestIn(S, buf, i),
           NEW e \in i..Len(buf), NEW from, Run(S, buf, from, e)
    PROVE  e = Len(buf)
<1>1. Len(buf) \in Nat
  OBVIOUS
<1>2. CASE e < Len(buf)
  <2>1. e + 1 - i \in 1..(Len(buf) - i) /\ i + (e + 1 - i) = e + 1
    BY <1>1, <1>2
  <2>2. buf[e + 1] \in S
    BY <2>1 DEF RestIn
  <2> QED
    BY <1>2, <2>2 DEF Run
<1> QED
  BY <1>1, <1>2

LEMMA RescanStays ==
    ASSUME NEW buf \in Seq(Byte), NEW i \in Nat, NEW n, NEW S, RestIn(S, buf, i),
           NEW here, NEW s, NEW code, RescanToken(S, buf, i, n, here, s, code)
    PROVE  state' = here /\ code_' = INSUFFICIENT /\ token_size_' = n
<1>1. PICK e \in i..Len(buf) :
        /\ Run(S, buf, i, e)
        /\ \/ e = Len(buf) /\ Suspend(here, n)
           \/ e < Len(buf) /\ Emit(s, code, e - i)
  BY DEF RescanToken
<1>2. e = Len(buf)
  BY <1>1, RunsToEnd
<1> QED
  BY <1>1, <1>2 DEF Suspend, Emit

LEMMA LiberalCrlfWaits ==
    ASSUME NEW buf \in Seq(Byte), NEW i \in Nat, Len(buf) = i + 1, buf[i + 1] = CR
    PROVE  liberal_crlf(buf, i) = "insufficient_data"
BY DEF liberal_crlf, CR, LF

LEMMA LiberalCrlfStays ==
    ASSUME NEW buf \in Seq(Byte), NEW i \in Nat, Len(buf) = i + 1, buf[i + 1] = CR,
           NEW n, NEW s, LiberalCrlf(buf, i, n, s)
    PROVE  state' = state /\ code_' = INSUFFICIENT /\ token_size_' = n
BY LiberalCrlfWaits DEF LiberalCrlf, Suspend, Emit

LEMMA StrictCrlfStays ==
    ASSUME NEW buf \in Seq(Byte), NEW i \in Nat, Len(buf) - i < 2,
           NEW n, NEW here, NEW s, NEW code, StrictCrlf(buf, i, n, here, s, code)
    PROVE  state' = here /\ code_' = INSUFFICIENT /\ token_size_' = n
BY DEF StrictCrlf, Suspend, Emit

LEMMA SharedStays ==
    ASSUME NEW buf \in Seq(Byte), NEW i \in Nat, NEW n \in Nat, i # Len(buf),
           i + n <= Len(buf), Waits(state, n, buf, i), NEW first, NEW none,
           \/ FieldCase(buf, i, n)
           \/ ExpectBody(buf, i, n)
           \/ ChunkCase(buf, i, n)
           \/ TrailerCase(buf, i, n, first, none)
    PROVE  Stays(n)
<1>1. Len(buf) \in Nat /\ i < Len(buf)
  OBVIOUS
<1>2. /\ ~ExpectColon(buf, i, n) /\ ~ExpectOwsAfterColon(buf, i, n)
      /\ ~ExpectBody(buf, i, n) /\ ~ExpectChunkData(buf, i, n)
      /\ ~ExpectTrailerColon(buf, i, n) /\ ~ExpectOwsAfterTrailerColon(buf, i, n)
  BY DEF Waits, ExpectColon, ExpectOwsAfterColon, ExpectBody, ExpectChunkData,
         ExpectTrailerColon, ExpectOwsAfterTrailerColon
<1>3. CASE ExpectFieldValue(buf, i, n)
  <2>1. RestIn(is_field_value_char, buf, i)
    BY <1>3 DEF ExpectFieldValue, Waits, ValueState
  <2>2. PICK e \in i..Len(buf) :
          /\ Run(is_field_value_char, buf, i, e)
          /\ \/ Suspend("EXPECT_FIELD_VALUE", n) /\ UNCHANGED framing
             \/ e < Len(buf)
    BY <1>3 DEF ExpectFieldValue, FieldValue
  <2>3. e = Len(buf)
    BY <2>1, <2>2, RunsToEnd
  <2> QED
    BY <1>1, <1>3, <2>2, <2>3 DEF ExpectFieldValue, Suspend, Emit, Stays
<1>4. CASE ExpectCrlfAfterFieldValue(buf, i, n)
  <2>1. Len(buf) = i + 1 /\ buf[i + 1] = CR
    BY <1>1, <1>4 DEF ExpectCrlfAfterFieldValue, Waits
  <2> QED
    BY <1>4, <2>1, LiberalCrlfStays DEF ExpectCrlfAfterFieldValue, Stays
<1>5. CASE ExpectChunkSize(buf, i, n)
  <2>1. RestIn(is_hexdigit, buf, i)
    BY <1>5 DEF ExpectChunkSize, Waits
  <2>2. PICK e \in i..Len(buf) :
          /\ Run(is_hexdigit, buf, i, e)
          /\ \/ e = i \/ e < Len(buf)
             \/ Suspend(state, n) /\ UNCHANGED body_size
    BY <1>5 DEF ExpectChunkSize
  <2>3. e = Len(buf)
    BY <2>1, <2>2, RunsToEnd
  <2> QED
    BY <1>1, <1>5, <2>2, <2>3 DEF ExpectChunkSize, Suspend, Emit, Stays, framing
<1>6. CASE ExpectChunkExt(buf, i, n)
  <2>1. n = Len(buf) - i
    BY <1>6 DEF ExpectChunkExt, Waits, ScanState
  <2>2. PICK e \in (i + n)..Len(buf) : e < Len(buf) \/ Suspend(state, e - i)
    BY <1>6 DEF ExpectChunkExt
  <2>3. e = Len(buf)
    BY <1>1, <2>1
  <2> QED
    BY <1>1, <1>6, <2>1, <2>2, <2>3 DEF ExpectChunkExt, Suspend, Emit, Stays
<1>7. CASE ExpectCrlfAfterChunkExt(buf, i, n)
  <2>1. Len(buf) - i < 2
    BY <1>7 DEF ExpectCrlfAfterChunkExt, Waits
  <2> QED
    BY <1>7, <2>1, StrictCrlfStays DEF ExpectCrlfAfterChunkExt, CrlfAfterChunkExt, Stays
<1>8. CASE ExpectCrlfAfterChunkData(buf, i, n)
  <2>1. Len(buf) - i < 2
    BY <1>8 DEF ExpectCrlfAfterChunkData, Waits
  <2> QED
    BY <1>8, <2>1, StrictCrlfStays DEF ExpectCrlfAfterChunkData, Stays
<1>9. CASE ExpectTrailerName(buf, i, n, first, none)
  <2>1. RestIn(is_tchar, buf, i)
    BY <1>9 DEF ExpectTrailerName, Waits
  <2>2. buf[i + 1] \in is_tchar
    BY <1>1, <2>1 DEF RestIn
  <2> QED
    BY <1>9, <2>1, <2>2, RescanStays DEF ExpectTrailerName, Stays
<1>10. CASE ExpectTrailerValue(buf, i, n)
  <2>1. RestIn(is_field_value_char, buf, i)
    BY <1>10 DEF ExpectTrailerValue, Waits, ValueState
  <2> QED
    BY <1>10, <2>1, RescanStays DEF ExpectTrailerValue, TrailerValue, Stays
<1>11. CASE ExpectCrlfAfterTrailerValue(buf, i, n)
  <2>1. Len(buf) - i < 2
    BY <1>11 DEF ExpectCrlfAfterTrailerValue, Waits
  <2> QED
    BY <1>11, <2>1, StrictCrlfStays DEF ExpectCrlfAfterTrailerValue, Stays
<1>12. CASE ExpectCrlfAfterTrailers(buf, i, n, first, none)
  <2>1. Len(buf) - i < 2
    BY <1>12 DEF ExpectCrlfAfterTrailers, Waits
  <2>2. /\ state' = "EXPECT_CRLF_AFTER_TRAILERS" /\ code_' = INSUFFICIENT
        /\ token_size_' = n
    BY <1>12, <2>1, StrictCrlfStays DEF ExpectCrlfAfterTrailers, CrlfAfterTrailers
  <2> QED
    BY <1>12, <2>2
    DEF ExpectCrlfAfterTrailers, CrlfAfterTrailers, Stays, framing, INSUFFICIENT
<1> QED
  BY <1>2, <1>3, <1>4, <1>5, <1>6, <1>7, <1>8, <1>9, <1>10, <1>11, <1>12
  DEF FieldCase, ChunkCase, TrailerCase

-----------------------------------------------------------------------------
(* Once the first byte of a data token has been seen, the case of its state *)
(* gives that token or fails.                                              *)
LEMMA SharedComes ==
    ASSUME NEW buf \in Seq(Byte), NEW i \in Nat, NEW n \in Nat, i # Len(buf),
           i + n <= Len(buf), code_' \notin ErrorCode,
           state = "EXPECT_CHUNK_EXT" => n > 0,
           state = "EXPECT_TRAILER_NAME" => buf[i + 1] \in is_tchar,
           NEW first, NEW none,
           \/ FieldCase(buf, i, n)
           \/ ExpectBody(buf, i, n)
           \/ ChunkCase(buf, i, n)
           \/ TrailerCase(buf, i, n, first, none)
    PROVE  /\ state = "EXPECT_FIELD_VALUE" => code_' = "field_value"
           /\ state = "EXPECT_CHUNK_EXT" => code_' = "chunk_ext"
           /\ state = "EXPECT_TRAILER_NAME" => code_' = "trailer_name"
           /\ state = "EXPECT_TRAILER_VALUE" => code_' = "trailer_value"
<1>1. Len(buf) \in Nat
  OBVIOUS
<1>2. {INSUFFICIENT, "error_invalid_data", "error_invalid_content_length",
       "error_content_length_overflow", "error_invalid_transfer_encoding"} \subseteq ErrorCode
  BY DEF ErrorCode, INSUFFICIENT
<1>3. ASSUME state = "EXPECT_FIELD_VALUE" PROVE code_' = "field_value"
  <2>1. FieldValue(buf, i, n)
    BY <1>3 DEF FieldCase, ExpectBody, ChunkCase, TrailerCase, ExpectColon,
       ExpectOwsAfterColon, ExpectFieldValue, ExpectCrlfAfterFieldValue, ExpectChunkSize,
       ExpectChunkExt, ExpectCrlfAfterChunkExt, ExpectChunkData, ExpectCrlfAfterChunkData,
       ExpectTrailerName, ExpectTrailerColon, ExpectOwsAfterTrailerColon,
       ExpectTrailerValue, ExpectCrlfAfterTrailerValue, ExpectCrlfAfterTrailers
  <2>2. PICK e \in i..Len(buf) :
          \/ Suspend("EXPECT_FIELD_VALUE", n)
          \/ \E value : ContentLengthValue(value, e - i)
          \/ \E value : TransferEncodingValue(value, e - i)
          \/ Emit("EXPECT_CRLF_AFTER_FIELD_VALUE", "field_value", e - i)
    BY <2>1 DEF FieldValue
  <2>3. ASSUME NEW value, ContentLengthValue(value, e - i) PROVE code_' = "field_value"
    BY <1>2, <2>3 DEF ContentLengthValue, Emit, Fail
  <2>4. ASSUME NEW value, TransferEncodingValue(value, e - i) PROVE code_' = "field_value"
    BY <1>2, <2>4 DEF TransferEncodingValue, Emit, Fail
  <2> QED
    BY <1>2, <2>2, <2>3, <2>4 DEF Suspend, Emit
<1>4. ASSUME state = "EXPECT_CHUNK_EXT" PROVE code_' = "chunk_ext"
  <2>1. ExpectChunkExt(buf, i, n)
    BY <1>4 DEF FieldCase, ExpectBody, ChunkCase, TrailerCase, ExpectColon,
       ExpectOwsAfterColon, ExpectFieldValue, ExpectCrlfAfterFieldValue, ExpectChunkSize,
       ExpectCrlfAfterChunkExt, ExpectChunkData, ExpectCrlfAfterChunkData,
       ExpectTrailerName, ExpectTrailerColon, ExpectOwsAfterTrailerColon,
       ExpectTrailerValue, ExpectCrlfAfterTrailerValue, ExpectCrlfAfterTrailers
  <2>2. PICK e \in (i + n)..Len(buf) :
          \/ Suspend(state, e - i) \/ Fail("error_invalid_data", n) \/ e = i
          \/ Emit("EXPEXT_CRLF_AFTER_CHUNK_EXT", "chunk_ext", e - i)
    BY <2>1 DEF ExpectChunkExt
  <2>3. e # i
    BY <1>1, <1>4
  <2> QED
    BY <1>2, <2>2, <2>3 DEF Suspend, Emit, Fail
<1>5. ASSUME NEW S, NEW here, NEW s, NEW code, RescanToken(S, buf, i, n, here, s, code)
      PROVE  code_' = code
  BY <1>2, <1>5 DEF RescanToken, Suspend, Emit
<1>6. ASSUME state = "EXPECT_TRAILER_NAME" PROVE code_' = "trailer_name"
  <2>1. ExpectTrailerName(buf, i, n, first, none)
    BY <1>6 DEF FieldCase, ExpectBody, ChunkCase, TrailerCase, ExpectColon,
       ExpectOwsAfterColon, ExpectFieldValue, ExpectCrlfAfterFieldValue, ExpectChunkSize,
       ExpectChunkExt, ExpectCrlfAfterChunkExt, ExpectChunkData, ExpectCrlfAfterChunkData,
       ExpectTrailerColon, ExpectOwsAfterTrailerColon,
       ExpectTrailerValue, ExpectCrlfAfterTrailerValue, ExpectCrlfAfterTrailers
  <2> QED
    BY <1>5, <1>6, <2>1 DEF ExpectTrailerName
<1>7. ASSUME state = "EXPECT_TRAILER_VALUE" PROVE code_' = "trailer_value"
  <2>1. TrailerValue(buf, i, n)
    BY <1>7 DEF FieldCase, ExpectBody, ChunkCase, TrailerCase, ExpectColon,
       ExpectOwsAfterColon, ExpectFieldValue, ExpectCrlfAfterFieldValue, ExpectChunkSize,
       ExpectChunkExt, ExpectCrlfAfterChunkExt, ExpectChunkData, ExpectCrlfAfterChunkData,
       ExpectTrailerName, ExpectTrailerColon, ExpectOwsAfterTrailerColon,
       ExpectTrailerValue, ExpectCrlfAfterTrailerValue, ExpectCrlfAfterTrailers
  <2> QED
    BY <1>5, <2>1 DEF TrailerValue
<1> QED
  BY <1>3, <1>4, <1>6, <1>7

-----------------------------------------------------------------------------
(* The shared cases as steps from token to token, whatever the bytes: what *)
(* is left of them for the grammar of MessageTokens.                       *)

(* The states that may be left while next() goes on waiting. *)
WaitEdge == {<<"EXPECT_FIELD_NAME", "EXPECT_CRLF_AFTER_HEADERS">>,
             <<"EXPECT_OWS_AFTER_COLON", "EXPECT_FIELD_VALUE">>,
             <<"EXPECT_CHUNK_EXT", "EXPEXT_CRLF_AFTER_CHUNK_EXT">>,
             <<"EXPECT_TRAILER_NAME", "EXPECT_CRLF_AFTER_TRAILERS">>,
             <<"EXPECT_OWS_AFTER_TRAILER_COLON", "EXPECT_TRAILER_VALUE">>}

(* The states between which bytes without meaning are skipped. *)
SkipEdge == {<<"EXPECT_COLON", "EXPECT_OWS_AFTER_COLON">>,
             <<"EXPECT_COLON", "EXPECT_FIELD_VALUE">>,
             <<"EXPECT_OWS_AFTER_COLON", "EXPECT_OWS_AFTER_COLON">>,
             <<"EXPECT_CRLF_AFTER_FIELD_VALUE", "EXPECT_FIELD_NAME">>,
             <<"EXPECT_CRLF_AFTER_CHUNK_DATA", "EXPECT_CHUNK_SIZE">>,
             <<"EXPECT_TRAILER_COLON", "EXPECT_OWS_AFTER_TRAILER_COLON">>,
             <<"EXPECT_TRAILER_COLON", "EXPECT_TRAILER_VALUE">>,
             <<"EXPECT_OWS_AFTER_TRAILER_COLON", "EXPECT_OWS_AFTER_TRAILER_COLON">>,
             <<"EXPECT_CRLF_AFTER_TRAILER_VALUE", "EXPECT_TRAILER_NAME">>}

WaitStep == /\ code_' = INSUFFICIENT /\ body_size' = body_size
            /\ state \notin {"ERRORED", "EXPECT_END_OF_CONNECTION_ERROR"}
            /\ state' = state \/ <<state, state'>> \in WaitEdge

ErrorStep == /\ state' = "ERRORED" /\ code_' \in ErrorCode \ {INSUFFICIENT}
             /\ state \notin {"ERRORED", "EXPECT_END_OF_CONNECTION_ERROR"}

SkipStep == code_' = "skip" /\ token_size_' > 0 /\ <<state, state'>> \in SkipEdge

ValueStep == \/ /\ state \in {"EXPECT_OWS_AFTER_COLON", "EXPECT_FIELD_VALUE"}
                /\ code_' = "field_value" /\ state' = "EXPECT_CRLF_AFTER_FIELD_VALUE"
             \/ /\ state = "EXPECT_TRAILER_NAME" /\ token_size_' > 0
                /\ code_' = "trailer_name" /\ state' = "EXPECT_TRAILER_COLON"
             \/ /\ state \in {"EXPECT_OWS_AFTER_TRAILER_COLON", "EXPECT_TRAILER_VALUE"}
                /\ code_' = "trailer_value" /\ state' = "EXPECT_CRLF_AFTER_TRAILER_VALUE"

DataStep == /\ code_' = "body_chunk"
            /\ token_size_' \in 1..body_size /\ body_size' = body_size - token_size_'
            /\ \/ /\ state = "EXPECT_BODY"
                  /\ state' = IF body_size' = 0 THEN "EXPECT_END_OF_BODY" ELSE state
               \/ /\ state = "EXPECT_CHUNK_DATA"
                  /\ state' = IF body_size' = 0 THEN "EXPECT_CRLF_AFTER_CHUNK_DATA"
                              ELSE state

ChunkLineStep ==
    \/ /\ state = "EXPECT_CHUNK_SIZE" /\ code_' = "skip" /\ token_size_' > 0
       /\ state' = "EXPECT_CHUNK_EXT"
    \/ /\ state = "EXPECT_CHUNK_EXT" /\ code_' = "chunk_ext" /\ token_size_' > 0
       /\ state' = "EXPEXT_CRLF_AFTER_CHUNK_EXT" /\ body_size' = body_size
    \/ /\ state \in {"EXPECT_CHUNK_EXT", "EXPEXT_CRLF_AFTER_CHUNK_EXT"}
       /\ token_size_' = 2 /\ body_size' = body_size
       /\ \/ body_size > 0 /\ code_' = "skip" /\ state' = "EXPECT_CHUNK_DATA"
          \/ body_size = 0 /\ code_' = "end_of_body" /\ state' = "EXPECT_TRAILER_NAME"

(* The end of a message with trailers. *)
LastStep(first) == /\ state \in {"EXPECT_TRAILER_NAME", "EXPECT_CRLF_AFTER_TRAILERS"}
                   /\ code_' = "end_of_message" /\ token_size_' = 2 /\ state' = first

MessageStep(first) == \/ WaitStep \/ ErrorStep \/ SkipStep \/ ValueStep
                      \/ DataStep \/ ChunkLineStep \/ LastStep(first)

LEMMA FieldStep ==
    ASSUME NEW buf \in Seq(Byte), NEW i \in Nat, NEW n \in Nat, i # Len(buf),
           i + n <= Len(buf), FieldCase(buf, i, n), NEW first
    PROVE  MessageStep(first)
<1>1. Len(buf) \in Nat /\ i < Len(buf)
  OBVIOUS
<1>2. {"error_invalid_data", "error_invalid_content_length",
       "error_content_length_overflow", "error_invalid_transfer_encoding"}
         \subseteq ErrorCode \ {INSUFFICIENT}
  BY DEF ErrorCode, INSUFFICIENT
<1>3. CASE ExpectColon(buf, i, n)
  <2>1. \/ Ends("EXPECT_OWS_AFTER_COLON", FALSE, "EXPECT_OWS_AFTER_COLON", "skip",
                token_size_' > 0)
        \/ Ends("EXPECT_FIELD_VALUE", FALSE, "EXPECT_FIELD_VALUE", "skip",
                token_size_' > 0 /\ InkAt(buf, i + token_size_'))
    BY <1>3, ColonEnds DEF ExpectColon
  <2> QED
    BY <1>2, <1>3, <2>1 DEF ExpectColon, Ends, MessageStep, SkipStep, SkipEdge, ErrorStep
<1>4. ASSUME FieldValue(buf, i, n),
             state \in {"EXPECT_OWS_AFTER_COLON", "EXPECT_FIELD_VALUE"}
      PROVE  MessageStep(first)
  <2>1. PICK e \in i..Len(buf) :
          \/ Suspend("EXPECT_FIELD_VALUE", n) /\ UNCHANGED framing
          \/ \E value : ContentLengthValue(value, e - i)
          \/ \E value : TransferEncodingValue(value, e - i)
          \/ Emit("EXPECT_CRLF_AFTER_FIELD_VALUE", "field_value", e - i)
    BY <1>4 DEF FieldValue
  <2>2. CASE Suspend("EXPECT_FIELD_VALUE", n) /\ UNCHANGED framing
    BY <1>4, <2>2 DEF Suspend, Emit, framing, MessageStep, WaitStep, WaitEdge
  <2>3. \A value : ContentLengthValue(value, e - i) \/ TransferEncodingValue(value, e - i) =>
          \/ Emit("EXPECT_CRLF_AFTER_FIELD_VALUE", "field_value", e - i)
          \/ state' = "ERRORED" /\ code_' \in ErrorCode \ {INSUFFICIENT}
    BY <1>2 DEF ContentLengthValue, TransferEncodingValue, Emit, Fail
  <2> QED
    BY <1>4, <2>1, <2>2, <2>3 DEF Emit, MessageStep, ErrorStep, ValueStep
<1>5. CASE ExpectOwsAfterColon(buf, i, n)
  <2>1. PICK e \in i..Len(buf) :
          FieldValue(buf, i, n) \/ (e > i /\ Emit(state, "skip", e - i))
    BY <1>5 DEF ExpectOwsAfterColon
  <2>2. CASE e > i /\ Emit(state, "skip", e - i)
    BY <1>1, <1>5, <2>2 DEF ExpectOwsAfterColon, Emit, MessageStep, SkipStep, SkipEdge
  <2> QED
    BY <1>4, <1>5, <2>1, <2>2 DEF ExpectOwsAfterColon
<1>6. CASE ExpectFieldValue(buf, i, n)
  BY <1>4, <1>6 DEF ExpectFieldValue
<1>7. CASE ExpectCrlfAfterFieldValue(buf, i, n)
  <2>1. Ends(state, token_size_' = n /\ Len(buf) = i + 1 /\ buf[i + 1] = CR,
             "EXPECT_FIELD_NAME", "skip", token_size_' \in {1, 2})
    BY <1>1, <1>7, LiberalCrlfEnds DEF ExpectCrlfAfterFieldValue
  <2> QED
    BY <1>2, <1>7, <2>1
    DEF ExpectCrlfAfterFieldValue, Ends, framing, MessageStep, WaitStep, SkipStep, SkipEdge,
        ErrorStep
<1> QED
  BY <1>3, <1>5, <1>6, <1>7 DEF FieldCase

(* The body: what is given is what is counted down. *)
LEMMA BodyStep ==
    ASSUME body_size \in Uint, Suitable(state), NEW buf \in Seq(Byte), NEW i \in Nat,
           NEW n \in Nat, i # Len(buf), i + n <= Len(buf), NEW first,
           ExpectBody(buf, i, n) \/ ExpectChunkData(buf, i, n)
    PROVE  MessageStep(first)
<1>1. Len(buf) \in Nat /\ i <= Len(buf)
  OBVIOUS
<1>2. body_size > 0
  BY DEF ExpectBody, ExpectChunkData, Suitable, BodySuits
<1>3. CASE ExpectBody(buf, i, n)
  BY <1>1, <1>2, <1>3, BodyTokenEnds DEF ExpectBody, MessageStep, DataStep
<1>4. CASE ExpectChunkData(buf, i, n)
  BY <1>1, <1>2, <1>4, BodyTokenEnds DEF ExpectChunkData, MessageStep, DataStep
<1> QED
  BY <1>3, <1>4

LEMMA ChunkStep ==
    ASSUME body_size \in Uint, Suitable(state), NEW buf \in Seq(Byte), NEW i \in Nat,
           NEW n \in Nat, i # Len(buf), i + n <= Len(buf), NEW first,
           ChunkCase(buf, i, n)
    PROVE  MessageStep(first)
<1>1. Len(buf) \in Nat /\ i < Len(buf) /\ body_size \in Nat
  BY UintMaxAssumption DEF Uint
<1>2. {"error_invalid_data", "error_chunk_size_overflow"} \subseteq ErrorCode \ {INSUFFICIENT}
  BY DEF ErrorCode, INSUFFICIENT
<1>3. ASSUME NEW m, CrlfAfterChunkExt(buf, i, m), UNCHANGED framing,
             state \in {"EXPECT_CHUNK_EXT", "EXPEXT_CRLF_AFTER_CHUNK_EXT"}
      PROVE  MessageStep(first)
  <2>1. \/ Suspend("EXPEXT_CRLF_AFTER_CHUNK_EXT", m)
        \/ Emit(IF body_size # 0 THEN "EXPECT_CHUNK_DATA" ELSE "EXPECT_TRAILER_NAME",
                IF body_size # 0 THEN "skip" ELSE "end_of_body", 2)
        \/ Fail("error_invalid_data", m)
    BY <1>3 DEF CrlfAfterChunkExt, StrictCrlf
  <2>2. CASE Emit(IF body_size # 0 THEN "EXPECT_CHUNK_DATA" ELSE "EXPECT_TRAILER_NAME",
                  IF body_size # 0 THEN "skip" ELSE "end_of_body", 2)
    BY <1>1, <1>3, <2>2 DEF Emit, framing, MessageStep, ChunkLineStep
  <2> QED
    BY <1>2, <1>3, <2>1, <2>2
    DEF Suspend, Fail, Emit, framing, MessageStep, WaitStep, WaitEdge, ErrorStep
<1>4. CASE ExpectChunkSize(buf, i, n)
  <2>1. PICK e \in i..Len(buf) :
          \/ \E code \in {"error_invalid_data", "error_chunk_size_overflow"} : Fail(code, n)
          \/ Suspend(state, n) /\ UNCHANGED body_size
          \/ e > i /\ Emit("EXPECT_CHUNK_EXT", "skip", e - i)
    BY <1>4 DEF ExpectChunkSize
  <2>2. e > i => e - i > 0
    BY <1>1
  <2> QED
    BY <1>2, <1>4, <2>1, <2>2
    DEF ExpectChunkSize, Fail, Suspend, Emit, MessageStep, ErrorStep, WaitStep, ChunkLineStep
<1>5. CASE ExpectChunkExt(buf, i, n)
  <2>1. PICK e \in (i + n)..Len(buf) :
          \/ Suspend(state, e - i)
          \/ Fail("error_invalid_data", n)
          \/ CrlfAfterChunkExt(buf, i, 0)
          \/ e > i /\ Emit("EXPEXT_CRLF_AFTER_CHUNK_EXT", "chunk_ext", e - i)
    BY <1>5 DEF ExpectChunkExt
  <2>2. e > i => e - i > 0
    BY <1>1
  <2>3. state = "EXPECT_CHUNK_EXT" /\ UNCHANGED framing
    BY <1>5 DEF ExpectChunkExt
  <2> QED
    BY <1>2, <1>3, <2>1, <2>2, <2>3
    DEF Fail, Suspend, Emit, framing, MessageStep, ErrorStep, WaitStep, ChunkLineStep
<1>6. CASE ExpectCrlfAfterChunkExt(buf, i, n)
  BY <1>3, <1>6 DEF ExpectCrlfAfterChunkExt
<1>7. CASE ExpectChunkData(buf, i, n)
  BY <1>7, BodyStep
<1>8. CASE ExpectCrlfAfterChunkData(buf, i, n)
  BY <1>2, <1>8
  DEF ExpectCrlfAfterChunkData, StrictCrlf, Fail, Suspend, Emit, framing, MessageStep,
      ErrorStep, WaitStep, SkipStep, SkipEdge
<1> QED
  BY <1>4, <1>5, <1>6, <1>7, <1>8 DEF ChunkCase

LEMMA TrailerStep ==
    ASSUME NEW buf \in Seq(Byte), NEW i \in Nat, NEW n \in Nat, i # Len(buf),
           i + n <= Len(buf), NEW first, NEW none, TrailerCase(buf, i, n, first, none)
    PROVE  MessageStep(first)
<1>1. Len(buf) \in Nat /\ i < Len(buf)
  OBVIOUS
<1>2. "error_invalid_data" \in ErrorCode \ {INSUFFICIENT}
  BY DEF ErrorCode, INSUFFICIENT
<1>3. ASSUME CrlfAfterTrailers(buf, i, n, first, none),
             state \in {"EXPECT_TRAILER_NAME", "EXPECT_CRLF_AFTER_TRAILERS"}
      PROVE  MessageStep(first)
  BY <1>2, <1>3
  DEF CrlfAfterTrailers, StrictCrlf, Fail, Suspend, Emit, MessageStep, ErrorStep, WaitStep,
      WaitEdge, LastStep
<1>4. CASE ExpectTrailerName(buf, i, n, first, none)
  <2>1. CASE buf[i + 1] \notin is_tchar
    BY <1>3, <1>4, <2>1 DEF ExpectTrailerName
  <2>2. CASE buf[i + 1] \in is_tchar
    <3>1. PICK e \in i..Len(buf) :
            /\ Run(is_tchar, buf, i, e)
            /\ \/ e = Len(buf) /\ Suspend(state, n)
               \/ e < Len(buf) /\ Emit("EXPECT_TRAILER_COLON", "trailer_name", e - i)
      BY <1>4, <2>2 DEF ExpectTrailerName, RescanToken
    <3>2. e - i > 0
      BY <1>1, <2>2, <3>1 DEF Run
    <3>3. state = "EXPECT_TRAILER_NAME" /\ body_size' = body_size
      BY <1>4, <2>2 DEF ExpectTrailerName, framing
    <3> QED
      BY <3>1, <3>2, <3>3 DEF Suspend, Emit, MessageStep, WaitStep, ValueStep
  <2> QED
    BY <2>1, <2>2
<1>5. CASE ExpectTrailerColon(buf, i, n)
  <2>1. \/ Ends("EXPECT_OWS_AFTER_TRAILER_COLON", FALSE, "EXPECT_OWS_AFTER_TRAILER_COLON",
                "skip", token_size_' > 0)
        \/ Ends("EXPECT_TRAILER_VALUE", FALSE, "EXPECT_TRAILER_VALUE", "skip",
                token_size_' > 0 /\ InkAt(buf, i + token_size_'))
    BY <1>5, ColonEnds DEF ExpectTrailerColon
  <2> QED
    BY <1>2, <1>5, <2>1 DEF ExpectTrailerColon, Ends, MessageStep, SkipStep, SkipEdge, ErrorStep
<1>6. ASSUME TrailerValue(buf, i, n), UNCHANGED framing,
             state \in {"EXPECT_OWS_AFTER_TRAILER_COLON", "EXPECT_TRAILER_VALUE"}
      PROVE  MessageStep(first)
  BY <1>6 DEF TrailerValue, RescanToken, Suspend, Emit, framing, MessageStep, WaitStep,
              WaitEdge, ValueStep
<1>7. CASE ExpectOwsAfterTrailerColon(buf, i, n)
  <2>1. PICK e \in i..Len(buf) :
          TrailerValue(buf, i, n) \/ (e > i /\ Emit(state, "skip", e - i))
    BY <1>7 DEF ExpectOwsAfterTrailerColon
  <2>2. CASE e > i /\ Emit(state, "skip", e - i)
    BY <1>1, <1>7, <2>2
    DEF ExpectOwsAfterTrailerColon, Emit, MessageStep, SkipStep, SkipEdge
  <2> QED
    BY <1>6, <1>7, <2>1, <2>2 DEF ExpectOwsAfterTrailerColon
<1>8. CASE ExpectTrailerValue(buf, i, n)
  BY <1>6, <1>8 DEF ExpectTrailerValue
<1>9. CASE ExpectCrlfAfterTrailerValue(buf, i, n)
  BY <1>2, <1>9
  DEF ExpectCrlfAfterTrailerValue, StrictCrlf, Fail, Suspend, Emit, framing, MessageStep,
      ErrorStep, WaitStep, SkipStep, SkipEdge
<1>10. CASE ExpectCrlfAfterTrailers(buf, i, n, first, none)
  BY <1>3, <1>10 DEF ExpectCrlfAfterTrailers
<1> QED
  BY <1>4, <1>5, <1>7, <1>8, <1>9, <1>10 DEF TrailerCase

-----------------------------------------------------------------------------
(* What the reader makes of a value is what the reference of MessageFields *)
(* makes of the token.                                                     *)

LEMMA RestIsNat == ASSUME NEW all \in Nat, NEW part \in 1..all PROVE all - part \in Nat
OBVIOUS

LEMMA EndsInside ==
    ASSUME NEW i \in Nat, NEW size \in Nat, NEW all \in Nat, i + size <= all
    PROVE  i + size \in i..all /\ (i + size) - i = size
OBVIOUS

LEMMA SameName ==
    ASSUME NEW x, NEW a, NEW b, iequals(x, a), iequals(x, b)
    PROVE  iequals(a, b)
BY DEF iequals

(* A line end is not taken for the name of a field. *)
LEMMA LineEndIsNoName ==
    ASSUME NEW line \in Seq(Byte), line # <<>>, line[1] \in {CR, LF},
           NEW name \in Seq(is_tchar) \ {<<>>}
    PROVE  ~iequals(line, name)
<1>1. 1 \in 1..Len(line) /\ name[1] \in is_tchar
  OBVIOUS
<1>2. ASSUME NEW b \in {10, 13} PROVE ToLower(b) = b
  BY DEF ToLower
<1>3. ToLower(line[1]) \in {10, 13}
  BY <1>2 DEF CR, LF
<1>4. ASSUME NEW b \in is_tchar PROVE ToLower(b) \in Int /\ ToLower(b) > 13
  <2>1. b \in Int /\ b > 13
    BY <1>4 DEF is_tchar, isalnum, isalpha, isdigit
  <2> QED
    BY <2>1 DEF ToLower
<1>5. iequals(line, name) => ToLower(line[1]) = ToLower(name[1])
  BY <1>1 DEF iequals
<1>6. ToLower(name[1]) > 13 /\ ToLower(name[1]) \in Int
  BY <1>1, <1>4
<1> QED
  BY <1>3, <1>5, <1>6

(* A buffer that starts with the current token still shows it. *)
LEMMA TokenSurvives ==
    ASSUME ibuffer \in Seq(Byte), idx \in Nat, token_size_ \in Nat,
           idx + token_size_ <= Len(ibuffer), NEW more \in Seq(Byte),
           NEW bytes, Joined(bytes, ibuffer, idx, more),
           NEW k \in token_size_..Len(bytes)
    PROVE  View(SubSeq(bytes, 1, k), 0, 0 + token_size_) = TokenBytes
<1> DEFINE part == SubSeq(bytes, 1, k)
           a == View(part, 0, 0 + token_size_)
<1>1. /\ bytes \in Seq(Byte) /\ Len(bytes) \in Nat
      /\ \A j \in 1..(Len(ibuffer) - idx) : bytes[j] = ibuffer[idx + j]
  <2>1. idx <= Len(ibuffer)
    OBVIOUS
  <2> QED
    BY <2>1, StreamIndex
<1>2. part \in Seq(Byte) /\ Len(part) = k /\ \A j \in 1..k : part[j] = bytes[j]
  BY <1>1
<1> HIDE DEF part
<1>3. /\ 0 + token_size_ \in 0..Len(part) /\ (0 + token_size_) - 0 = token_size_
      /\ idx + token_size_ \in idx..Len(ibuffer) /\ (idx + token_size_) - idx = token_size_
  BY <1>1, <1>2
<1>4. /\ a \in Seq(Byte) /\ Len(a) = token_size_
      /\ TokenBytes \in Seq(Byte) /\ Len(TokenBytes) = token_size_
  BY <1>2, <1>3, ViewIsView DEF TokenBytes
<1>5. ASSUME NEW j \in 1..token_size_ PROVE a[j] = TokenBytes[j]
  <2>1. j \in 1..k /\ j \in 1..(Len(ibuffer) - idx) /\ 0 + j = j
    BY <1>1
  <2>2. a[j] = part[0 + j]
    BY <1>2, <1>3, ViewAt
  <2>3. TokenBytes[j] = ibuffer[idx + j]
    BY <1>3, ViewAt DEF TokenBytes
  <2> QED
    BY <1>1, <1>2, <2>1, <2>2, <2>3
<1> HIDE DEF a
<1>6. a = TokenBytes
  BY <1>4, <1>5, SameEntries
<1> QED
  BY <1>6 DEF a, part

LEMMA NoneIsNoLength == \A size \in Uint : size # NONE
BY UintMaxAssumption DEF Uint, NONE

LEMMA LengthMerged ==
    ASSUME body_size \in Uint, NEW value \in Seq(Byte),
           content_length_decode(value, body_size, UintMax).result = "ok"
    PROVE  content_length_decode(value, body_size, UintMax).out = MergeLengths(NONE, value)
<1>1. UintMax \in Nat \ {0}
  BY UintMaxAssumption
<1>2. /\ value # <<>> /\ IsNumeralOf(value, DecimalValue)
      /\ content_length_decode(value, body_size, UintMax).out =
            Number(value, DecimalValue, 10)
  BY <1>1, DecodeResult, DecimalValued DEF content_length_decode
<1>3. ASSUME NEW k \in 1..Len(value) PROVE value[k] \in isdigit
  <2>1. value[k] \in Byte /\ DecimalValue[value[k]] # -1
    BY <1>2 DEF IsNumeralOf
  <2> QED
    BY <2>1 DEF DecimalValue
<1> QED
  BY <1>2, <1>3 DEF MergeLengths

(* A refused value is no length that fits, and an invalid one no numeral. *)
LEMMA LengthRefused ==
    ASSUME body_size \in Uint, NEW value \in Seq(Byte)
    PROVE  LET result == content_length_decode(value, body_size, UintMax).result IN
           /\ result = "invalid" => MergeLengths(NONE, value) = BAD
           /\ result = "overflow" => MergeLengths(NONE, value) \notin Uint
<1> DEFINE result == content_length_decode(value, body_size, UintMax).result
           numeral == value # <<>> /\ IsNumeralOf(value, DecimalValue)
           number == Number(value, DecimalValue, 10)
<1>1. UintMax \in Nat \ {0}
  BY UintMaxAssumption
<1>2. /\ result = "ok" <=> numeral /\ number <= UintMax
      /\ result = "invalid" => ~numeral
  BY <1>1, DecodeResult, DecimalValued DEF content_length_decode
<1>3. \/ MergeLengths(NONE, value) = number /\ numeral
      \/ MergeLengths(NONE, value) = BAD
  <2>1. ASSUME value # <<>>, \A k \in 1..Len(value) : value[k] \in isdigit PROVE numeral
    <3>1. ASSUME NEW k \in 1..Len(value) PROVE DecimalValue[value[k]] # -1
      BY <2>1 DEF DecimalValue, isdigit
    <3> QED
      BY <2>1, <3>1 DEF IsNumeralOf
  <2> QED
    BY <2>1 DEF MergeLengths
<1>4. BAD \notin Uint
  BY <1>1 DEF BAD, Uint
<1> HIDE DEF result, numeral, number
<1>5. result = "invalid" => MergeLengths(NONE, value) = BAD
  BY <1>2, <1>3
<1>6. ASSUME result = "overflow", MergeLengths(NONE, value) \in Uint PROVE FALSE
  <2>1. numeral /\ number \in Uint
    BY <1>3, <1>4, <1>6
  <2>2. number <= UintMax
    BY <1>1, <2>1 DEF Uint
  <2> QED
    BY <1>2, <1>6, <2>1, <2>2
<1> QED
  BY <1>5, <1>6 DEF result

LEMMA CodingsMerged ==
    ASSUME NEW value \in Seq(Byte), NEW te \in {"absent", "other"}
    PROVE  /\ decode_transfer_encoding(value) = "CHUNKED_NOT_FOUND" =>
                 MergeCodings(te, value) = "other"
           /\ decode_transfer_encoding(value) = "CHUNKED_AT_END" =>
                 MergeCodings(te, value) = "chunked"
           /\ decode_transfer_encoding(value) = "CHUNKED_INVALID" =>
                 MergeCodings(te, value) = "bad"
           /\ decode_transfer_encoding(value) \in
                 {"CHUNKED_NOT_FOUND", "CHUNKED_AT_END", "CHUNKED_INVALID"}
BY CodingsDecode DEF MergeCodings, ChunkedAt

(* A field value, and what becomes of the framing. *)
ValueTaken(value) ==
    \/ /\ body_type = "READING_CONTENT_LENGTH" /\ body_type' = "CONTENT_LENGTH_READ"
       /\ body_size' = MergeLengths(NONE, value)
    \/ /\ body_type = "READING_ENCODING" /\ body_size' = body_size
       /\ \/ /\ body_type' = "CHUNKED_ENCODING_READ"
             /\ \A te \in {"absent", "other"} : MergeCodings(te, value) = "chunked"
          \/ /\ body_type' = "RANDOM_ENCODING_READ"
             /\ \A te \in {"absent", "other"} : MergeCodings(te, value) = "other"
    \/ body_type \notin Reading /\ UNCHANGED framing

ValueRefused(value) ==
    \/ /\ body_type = "READING_CONTENT_LENGTH"
       /\ \/ /\ code_' = "error_invalid_content_length"
             /\ MergeLengths(NONE, value) = BAD
          \/ /\ code_' = "error_content_length_overflow"
             /\ MergeLengths(NONE, value) \notin Uint
    \/ /\ body_type = "READING_ENCODING" /\ code_' = "error_invalid_transfer_encoding"
       /\ \A te \in {"absent", "other"} : MergeCodings(te, value) = "bad"

LEMMA FieldValueTaken ==
    ASSUME body_size \in Uint, NEW buf \in Seq(Byte), NEW i \in Nat, NEW n \in Nat,
           FieldValue(buf, i, n)
    PROVE  \/ state' = "EXPECT_FIELD_VALUE" /\ code_' = INSUFFICIENT /\ UNCHANGED framing
           \/ /\ state' = "EXPECT_CRLF_AFTER_FIELD_VALUE" /\ code_' = "field_value"
              /\ ValueTaken(decode_field_value(View(buf, i, i + token_size_')))
           \/ /\ state' = "ERRORED"
              /\ ValueRefused(decode_field_value(View(buf, i, i + token_size_')))
<1>1. Len(buf) \in Nat
  OBVIOUS
<1>2. PICK e \in i..Len(buf) :
        \/ Suspend("EXPECT_FIELD_VALUE", n) /\ UNCHANGED framing
        \/ /\ body_type = "READING_CONTENT_LENGTH"
           /\ ContentLengthValue(decode_field_value(View(buf, i, e)), e - i)
        \/ /\ body_type = "READING_ENCODING"
           /\ TransferEncodingValue(decode_field_value(View(buf, i, e)), e - i)
        \/ /\ body_type \notin Reading
           /\ Emit("EXPECT_CRLF_AFTER_FIELD_VALUE", "field_value", e - i)
           /\ UNCHANGED framing
  BY DEF FieldValue
<1> DEFINE value == decode_field_value(View(buf, i, e))
<1>3. i + (e - i) = e
  BY <1>1
<1>4. value \in Seq(Byte)
  BY <1>1, ViewIsView, FieldValueIsView
<1> HIDE DEF value
<1>5. CASE /\ body_type = "READING_CONTENT_LENGTH" /\ ContentLengthValue(value, e - i)
  <2> DEFINE d == content_length_decode(value, body_size, UintMax)
  <2>1. /\ body_type' = "CONTENT_LENGTH_READ" /\ body_size' = d.out
        /\ \/ /\ d.result = "ok"
              /\ Emit("EXPECT_CRLF_AFTER_FIELD_VALUE", "field_value", e - i)
           \/ d.result = "invalid" /\ Fail("error_invalid_content_length", e - i)
           \/ d.result = "overflow" /\ Fail("error_content_length_overflow", e - i)
    BY <1>5 DEF ContentLengthValue
  <2>2. /\ d.result = "ok" => d.out = MergeLengths(NONE, value)
        /\ d.result = "invalid" => MergeLengths(NONE, value) = BAD
        /\ d.result = "overflow" => MergeLengths(NONE, value) \notin Uint
    BY <1>4, LengthMerged, LengthRefused
  <2> HIDE DEF d
  <2> QED
    BY <1>3, <1>5, <2>1, <2>2 DEF ValueTaken, ValueRefused, Emit, Fail, value
<1>6. CASE /\ body_type = "READING_ENCODING" /\ TransferEncodingValue(value, e - i)
  <2> DEFINE res == decode_transfer_encoding(value)
  <2>1. /\ body_size' = body_size
        /\ \/ /\ res = "CHUNKED_INVALID"
              /\ Fail("error_invalid_transfer_encoding", e - i)
           \/ /\ res # "CHUNKED_INVALID"
              /\ Emit("EXPECT_CRLF_AFTER_FIELD_VALUE", "field_value", e - i)
              /\ body_type' = IF res = "CHUNKED_AT_END" THEN "CHUNKED_ENCODING_READ"
                              ELSE "RANDOM_ENCODING_READ"
    BY <1>6 DEF TransferEncodingValue
  <2>2. ASSUME NEW te \in {"absent", "other"}
        PROVE  /\ res = "CHUNKED_NOT_FOUND" => MergeCodings(te, value) = "other"
               /\ res = "CHUNKED_AT_END" => MergeCodings(te, value) = "chunked"
               /\ res = "CHUNKED_INVALID" => MergeCodings(te, value) = "bad"
               /\ res \in {"CHUNKED_NOT_FOUND", "CHUNKED_AT_END", "CHUNKED_INVALID"}
    BY <1>4, CodingsMerged
  <2> HIDE DEF res
  <2>3. res \in {"CHUNKED_NOT_FOUND", "CHUNKED_AT_END", "CHUNKED_INVALID"}
    BY <2>2
  <2>4. CASE res = "CHUNKED_INVALID"
    BY <1>3, <1>6, <2>1, <2>2, <2>4 DEF ValueRefused, Fail, Emit, value
  <2>5. CASE res = "CHUNKED_AT_END"
    BY <1>3, <1>6, <2>1, <2>2, <2>5 DEF ValueTaken, Emit, value
  <2>6. CASE res = "CHUNKED_NOT_FOUND"
    BY <1>3, <1>6, <2>1, <2>2, <2>6 DEF ValueTaken, Emit, value
  <2> QED
    BY <2>3, <2>4, <2>5, <2>6
<1> QED
  BY <1>2, <1>5, <1>6 DEF Suspend, Emit, ValueTaken, value

(* The cases of a header field from its colon to its line end. *)
LEMMA FieldTaken ==
    ASSUME body_size \in Uint, NEW buf \in Seq(Byte), NEW i \in Nat, NEW n \in Nat,
           i + n <= Len(buf), i # Len(buf), FieldCase(buf, i, n)
    PROVE  /\ state \in InHeaders
           /\ \/ /\ code_' \in {INSUFFICIENT, "skip", "error_invalid_data"}
                 /\ state' \in InHeaders \cup {"ERRORED"} /\ UNCHANGED framing
              \/ /\ state' = "EXPECT_CRLF_AFTER_FIELD_VALUE" /\ code_' = "field_value"
                 /\ ValueTaken(decode_field_value(View(buf, i, i + token_size_')))
              \/ /\ state' = "ERRORED"
                 /\ ValueRefused(decode_field_value(View(buf, i, i + token_size_')))
<1>1. {"EXPECT_COLON", "EXPECT_OWS_AFTER_COLON", "EXPECT_FIELD_VALUE", "EXPECT_FIELD_NAME",
       "EXPECT_CRLF_AFTER_FIELD_VALUE"} \subseteq InHeaders
  BY DEF InHeaders, InField
<1>2. ASSUME NEW here \in InHeaders, NEW s \in InHeaders, Outcome(buf, i, here, s, "skip")
      PROVE  /\ code_' \in {INSUFFICIENT, "skip", "error_invalid_data"}
             /\ state' \in InHeaders \cup {"ERRORED"}
  BY <1>2 DEF Outcome
<1>3. CASE ExpectColon(buf, i, n)
  <2>1. \/ Outcome(buf, i, "EXPECT_OWS_AFTER_COLON", "EXPECT_OWS_AFTER_COLON", "skip")
        \/ Outcome(buf, i, "EXPECT_FIELD_VALUE", "EXPECT_FIELD_VALUE", "skip")
    BY <1>3, ColonOutcome DEF ExpectColon
  <2>2. state = "EXPECT_COLON" /\ UNCHANGED framing
    BY <1>3 DEF ExpectColon
  <2> QED
    BY <1>1, <1>2, <2>1, <2>2
<1>4. CASE FieldValue(buf, i, n)
           /\ state \in {"EXPECT_OWS_AFTER_COLON", "EXPECT_FIELD_VALUE"}
  BY <1>1, <1>4, FieldValueTaken
<1>5. CASE ExpectOwsAfterColon(buf, i, n)
  <2>1. /\ state = "EXPECT_OWS_AFTER_COLON"
        /\ \/ FieldValue(buf, i, n)
           \/ state' = state /\ code_' = "skip" /\ UNCHANGED framing
    BY <1>5 DEF ExpectOwsAfterColon, Emit
  <2> QED
    BY <1>1, <1>4, <2>1
<1>6. CASE ExpectFieldValue(buf, i, n)
  BY <1>4, <1>6 DEF ExpectFieldValue
<1>7. CASE ExpectCrlfAfterFieldValue(buf, i, n)
  <2>1. Outcome(buf, i, state, "EXPECT_FIELD_NAME", "skip")
    BY <1>7, LiberalCrlfOutcome DEF ExpectCrlfAfterFieldValue
  <2>2. state = "EXPECT_CRLF_AFTER_FIELD_VALUE" /\ UNCHANGED framing
    BY <1>7 DEF ExpectCrlfAfterFieldValue
  <2> QED
    BY <1>1, <1>2, <2>1, <2>2
<1> QED
  BY <1>3, <1>5, <1>6, <1>7 DEF FieldCase

(* A merged Content-Length is a number, and at least 0 bytes are announced. *)
LEMMA LengthIsInt ==
    ASSUME NEW cl, NEW value \in Seq(Byte)
    PROVE  MergeLengths(cl, value) \in Int
<1>1. DecimalValue \in [Byte -> Int]
  BY DecimalValued DEF Valued
<1>2. PICK num : /\ PrefixNumbers(value, DecimalValue, 10, num)
                 /\ Number(value, DecimalValue, 10) = num[Len(value)]
  BY <1>1, NumberPrefixes
<1>3. Number(value, DecimalValue, 10) \in Int
  BY <1>2 DEF PrefixNumbers
<1> QED
  BY <1>3 DEF MergeLengths, BAD

LEMMA CodingIs ==
    ASSUME NEW te, NEW value
    PROVE  MergeCodings(te, value) \in {"other", "chunked", "bad"}
BY DEF MergeCodings

LEMMA AnnouncedIs ==
    ASSUME NEW cl \in Int, cl >= NONE
    PROVE  Max({0, cl}) = IF cl = NONE THEN 0 ELSE cl
<1>1. CASE cl = NONE
  BY <1>1 DEF Max, NONE
<1>2. CASE cl \in Nat
  <2>1. {0, cl} \in SUBSET (0..cl) /\ {0, cl} # {}
    BY <1>2
  <2>2. Max({0, cl}) \in {0, cl} /\ \A k \in {0, cl} : k <= Max({0, cl})
    BY <1>2, <2>1, MaxOf
  <2> QED
    BY <1>2, <2>2 DEF NONE
<1> QED
  BY <1>1, <1>2 DEF NONE

(* A chunk size. *)
LEMMA ChunkSizeTaken ==
    ASSUME body_size \in Uint, NEW buf \in Seq(Byte), NEW i \in Nat, NEW n \in Nat,
           ExpectChunkSize(buf, i, n), code_' = "skip"
    PROVE  body_size' = Number(View(buf, i, i + token_size_'), HexValue, 16)
<1>1. Len(buf) \in Nat /\ UintMax \in Nat \ {0}
  BY UintMaxAssumption
<1>2. PICK e \in i..Len(buf) :
        LET d == chunk_size_decode(View(buf, i, e), body_size, UintMax) IN
        d.result = "ok" /\ body_size' = d.out /\ token_size_' = e - i
  BY DEF ExpectChunkSize, Suspend, Fail, Emit, INSUFFICIENT
<1>3. View(buf, i, e) \in Seq(Byte) /\ i + (e - i) = e
  BY <1>1, ViewIsView
<1> QED
  BY <1>1, <1>2, <1>3, DecodeResult, HexValued DEF chunk_size_decode

(* The codes that follow the header section. *)
BodyCode == {INSUFFICIENT, "error_invalid_data", "error_chunk_size_overflow", "skip",
             "chunk_ext", "body_chunk", "trailer_name", "trailer_value", "end_of_body",
             "end_of_message"}

LEMMA BodyCodes ==
    ASSUME NEW buf, NEW i, NEW n, NEW first, NEW none,
           \/ ExpectBody(buf, i, n)
           \/ ChunkCase(buf, i, n)
           \/ TrailerCase(buf, i, n, first, none)
    PROVE  code_' \in BodyCode
<1> USE DEF BodyCode, Emit, Suspend, Fail
<1>1. CASE ExpectBody(buf, i, n) \/ ExpectChunkData(buf, i, n)
  BY <1>1 DEF ExpectBody, ExpectChunkData, BodyToken
<1>2. CASE ExpectChunkSize(buf, i, n)
  BY <1>2 DEF ExpectChunkSize
<1>3. ASSUME NEW m, NEW here, NEW s, NEW code \in BodyCode,
             StrictCrlf(buf, i, m, here, s, code)
      PROVE  code_' \in BodyCode
  BY <1>3 DEF StrictCrlf
<1>4. ASSUME NEW m, CrlfAfterChunkExt(buf, i, m) PROVE code_' \in BodyCode
  BY <1>3, <1>4 DEF CrlfAfterChunkExt
<1>5. CASE ExpectChunkExt(buf, i, n) \/ ExpectCrlfAfterChunkExt(buf, i, n)
  BY <1>4, <1>5 DEF ExpectChunkExt, ExpectCrlfAfterChunkExt
<1>6. CASE ExpectCrlfAfterChunkData(buf, i, n) \/ ExpectCrlfAfterTrailerValue(buf, i, n)
  BY <1>3, <1>6 DEF ExpectCrlfAfterChunkData, ExpectCrlfAfterTrailerValue
<1>7. ASSUME CrlfAfterTrailers(buf, i, n, first, none) PROVE code_' \in BodyCode
  BY <1>3, <1>7 DEF CrlfAfterTrailers
<1>8. ASSUME NEW S, NEW here, NEW s, NEW code \in BodyCode,
             RescanToken(S, buf, i, n, here, s, code)
      PROVE  code_' \in BodyCode
  BY <1>8 DEF RescanToken
<1>9. CASE \/ ExpectTrailerName(buf, i, n, first, none)
           \/ ExpectCrlfAfterTrailers(buf, i, n, first, none)
  BY <1>7, <1>8, <1>9 DEF ExpectTrailerName, ExpectCrlfAfterTrailers
<1>10. CASE ExpectTrailerColon(buf, i, n)
  BY <1>10 DEF ExpectTrailerColon, Colon
<1>11. CASE ExpectOwsAfterTrailerColon(buf, i, n) \/ ExpectTrailerValue(buf, i, n)
  BY <1>8, <1>11 DEF ExpectOwsAfterTrailerColon, ExpectTrailerValue, TrailerValue
<1> QED
  BY <1>1, <1>2, <1>5, <1>6, <1>9, <1>10, <1>11 DEF ChunkCase, TrailerCase
=============================================================================
