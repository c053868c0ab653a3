---------------------------- MODULE PlaceProofs -----------------------------
(***************************************************************************)
(* That the pieces in which a stream arrives do not matter, as far as the  *)
(* two readers are alike.                                                  *)
(*                                                                         *)
(* A reader forgets its buffer, so what it does is compared with a machine *)
(* that reads the whole stream v and has no buffer.  A place (Spot) of the *)
(* machine is what decides the rest of the reading: the state, what is     *)
(* known of the body, what is remembered of the message (the memo), how    *)
(* many bytes have been read and the log of the tokens seen.  States that  *)
(* differ only in how the buffer was cut are one place: a reader that has  *)
(* seen no more than a part of a token stands in front of it, one in the   *)
(* middle of white space or of a body at the place behind what it has.     *)
(*                                                                         *)
(* Each form of a case of next() then leads from a place to itself or to   *)
(* the machine's next place, whatever bytes the buffer shows.  The places  *)
(* of the machine form a sequence (a Way), a reader that follows it is     *)
(* always at one of them, and of two logs met on one way the shorter is    *)
(* the beginning of the longer.                                            *)
(***************************************************************************)
EXTENDS MessageProofs, TokenLog

-----------------------------------------------------------------------------
(* Logs of tokens. *)

Entry == [code: Code, from: Nat, to: Nat]

(* Every token of the log ends at offset t or before. *)
Behind(l, t) == \A k \in 1..Len(l) : l[k].to <= t

LEMMA Entries ==
    ASSUME NEW l \in Seq(Entry)
    PROVE  Len(l) \in Nat /\ \A k \in 1..Len(l) : l[k] \in Entry /\ l[k].to \in Nat
<1>1. Len(l) \in Nat /\ \A k \in 1..Len(l) : l[k] \in Entry
  OBVIOUS
<1>2. \A e \in Entry : e.to \in Nat
  BY DEF Entry
<1> QED
  BY <1>1, <1>2

(* A log grows at its end: a token is added, or the last one is extended. *)
LEMMA RecordIs ==
    ASSUME NEW l \in Seq(Entry), NEW c \in Code, NEW f \in Nat, NEW t \in Nat
    PROVE  \/ Record(l, c, f, t) = l
           \/ Record(l, c, f, t) = Append(l, [code |-> c, from |-> f, to |-> f])
           \/ Record(l, c, f, t) = Append(l, [code |-> c, from |-> f, to |-> t])
           \/ /\ Len(l) > 0
              /\ Record(l, c, f, t) = [l EXCEPT ![Len(l)].to = t]
BY DEF Record, symbol, ErrorCode, Code

LEMMA SkipsAreLost == ASSUME NEW l, NEW f, NEW t PROVE Record(l, "skip", f, t) = l
BY DEF Record, symbol, ErrorCode

LEMMA RecordTyped ==
    ASSUME NEW l \in Seq(Entry), NEW c \in Code, NEW f \in Nat, NEW t \in Nat
    PROVE  Record(l, c, f, t) \in Seq(Entry)
<1> DEFINE r == Record(l, c, f, t)
<1>1. /\ [code |-> c, from |-> f, to |-> f] \in Entry
      /\ [code |-> c, from |-> f, to |-> t] \in Entry
  BY DEF Entry
<1>2. CASE r = Append(l, [code |-> c, from |-> f, to |-> f])
  BY <1>1, <1>2
<1>3. CASE r = Append(l, [code |-> c, from |-> f, to |-> t])
  BY <1>1, <1>3
<1>4. CASE Len(l) > 0 /\ r = [l EXCEPT ![Len(l)].to = t]
  <2>1. Len(l) \in 1..Len(l) /\ l[Len(l)] \in Entry
    BY <1>4
  <2>2. [l[Len(l)] EXCEPT !.to = t] \in Entry
    BY <2>1 DEF Entry
  <2> QED
    BY <1>4, <2>1, <2>2
<1> QED
  BY <1>2, <1>3, <1>4, RecordIs

(* A log agrees with what it grows into, if the tokens are in order. *)
LEMMA RecordAgrees ==
    ASSUME NEW l \in Seq(Entry), NEW c \in Code, NEW f \in Nat, NEW t \in Nat,
           Behind(l, f), f <= t
    PROVE  Agrees(l, Record(l, c, f, t), FALSE) /\ Behind(Record(l, c, f, t), t)
<1> DEFINE r == Record(l, c, f, t)
<1>1. Len(l) \in Nat /\ \A k \in 1..Len(l) : l[k].to \in Nat /\ l[k].to <= t
  <2>1. Len(l) \in Nat /\ \A k \in 1..Len(l) : l[k].to \in Nat
    BY Entries
  <2> QED
    BY <2>1 DEF Behind
<1>2. ASSUME r = l PROVE Agrees(l, r, FALSE) /\ Behind(r, t)
  BY <1>1, <1>2 DEF Agrees, Behind
<1>3. ASSUME NEW e \in Entry, e.to <= t, r = Append(l, e)
      PROVE  Agrees(l, r, FALSE) /\ Behind(r, t)
  <2>1. Len(r) = Len(l) + 1 /\ r[Len(l) + 1] = e /\ \A k \in 1..Len(l) : r[k] = l[k]
    BY <1>3
  <2> HIDE DEF r
  <2> QED
    BY <1>1, <1>3, <2>1 DEF Agrees, Behind
<1>4. ASSUME Len(l) > 0, r = [l EXCEPT ![Len(l)].to = t]
      PROVE  Agrees(l, r, FALSE) /\ Behind(r, t)
  <2>1. Len(l) \in 1..Len(l) /\ l[Len(l)] \in Entry
    BY <1>4
  <2>2. /\ Len(r) = Len(l) /\ r[Len(l)] = [l[Len(l)] EXCEPT !.to = t]
        /\ \A k \in 1..Len(l) : k < Len(l) => r[k] = l[k]
    BY <1>4, <2>1
  <2>3. /\ r[Len(l)].to = t /\ r[Len(l)].code = l[Len(l)].code
        /\ r[Len(l)].from = l[Len(l)].from
    BY <2>1, <2>2 DEF Entry
  <2> HIDE DEF r
  <2>4. ASSUME NEW k \in 1..Len(l)
        PROVE  /\ l[k].code = r[k].code /\ l[k].from = r[k].from
               /\ l[k].to <= r[k].to /\ r[k].to <= t
               /\ k < Len(l) => l[k] = r[k]
    <3>1. CASE k = Len(l)
      BY <1>1, <2>3, <3>1
    <3>2. CASE k < Len(l)
      BY <1>1, <2>2, <3>2
    <3> QED
      BY <1>1, <3>1, <3>2
  <2> QED
    BY <1>1, <2>2, <2>4 DEF Agrees, Behind
<1>5. /\ [code |-> c, from |-> f, to |-> f] \in Entry
      /\ [code |-> c, from |-> f, to |-> t] \in Entry
  BY DEF Entry
<1>6. /\ [code |-> c, from |-> f, to |-> f].to <= t
      /\ [code |-> c, from |-> f, to |-> t].to <= t
  OBVIOUS
<1> HIDE DEF r
<1>7. \/ r = l
      \/ r = Append(l, [code |-> c, from |-> f, to |-> f])
      \/ r = Append(l, [code |-> c, from |-> f, to |-> t])
      \/ Len(l) > 0 /\ r = [l EXCEPT ![Len(l)].to = t]
  BY RecordIs DEF r
<1>8. Agrees(l, r, FALSE) /\ Behind(r, t)
  BY <1>2, <1>3, <1>4, <1>5, <1>6, <1>7
<1> QED
  BY <1>8 DEF r

LEMMA AgreesItself == ASSUME NEW l \in Seq(Entry) PROVE Agrees(l, l, FALSE)
BY Entries DEF Agrees

LEMMA AgreesOn ==
    ASSUME NEW a \in Seq(Entry), NEW b \in Seq(Entry), NEW c \in Seq(Entry),
           Agrees(a, b, FALSE), Agrees(b, c, FALSE)
    PROVE  Agrees(a, c, FALSE)
<1>1. Len(a) \in Nat /\ Len(b) \in Nat /\ Len(c) \in Nat /\ Len(a) <= Len(b) /\ Len(b) <= Len(c)
  BY DEF Agrees
<1>2. ASSUME NEW k \in 1..Len(a)
      PROVE  /\ a[k].code = c[k].code /\ a[k].from = c[k].from /\ a[k].to <= c[k].to
             /\ k < Len(a) => a[k] = c[k]
  <2>1. k \in 1..Len(b) /\ k \in 1..Len(c)
    BY <1>1
  <2>2. a[k].to \in Nat /\ b[k].to \in Nat /\ c[k].to \in Nat
    BY <2>1, Entries
  <2>3. /\ a[k].code = b[k].code /\ a[k].from = b[k].from /\ a[k].to <= b[k].to
        /\ k < Len(a) => a[k] = b[k]
    BY DEF Agrees
  <2>4. /\ b[k].code = c[k].code /\ b[k].from = c[k].from /\ b[k].to <= c[k].to
        /\ k < Len(b) => b[k] = c[k]
    BY <2>1 DEF Agrees
  <2> QED
    BY <1>1, <2>2, <2>3, <2>4
<1> QED
  BY <1>1, <1>2 DEF Agrees

(* Two pieces of a body leave the log as one piece would. *)
LEMMA PiecesJoin ==
    ASSUME NEW l \in Seq(Entry), NEW a \in Nat, NEW b \in Nat, NEW c \in Nat
    PROVE  Record(Record(l, "body_chunk", a, b), "body_chunk", b, c) =
               Record(l, "body_chunk", a, c)
<1> DEFINE r == Record(l, "body_chunk", a, b)
           q == Record(l, "body_chunk", a, c)
<1>1. "body_chunk" \in Code /\ symbol("body_chunk") # "error"
  BY DEF Code, DataCode, symbol, ErrorCode
<1>2. r \in Seq(Entry) /\ q \in Seq(Entry)
  BY <1>1, RecordTyped
<1>3. CASE l # <<>> /\ Last(l).code = "body_chunk"
  <2>1. r = [l EXCEPT ![Len(l)].to = b] /\ q = [l EXCEPT ![Len(l)].to = c]
    BY <1>1, <1>3 DEF Record
  <2>2. Len(l) \in 1..Len(l) /\ l[Len(l)] \in Entry
    BY <1>3
  <2>3. Len(r) = Len(l) /\ r # <<>> /\ r[Len(l)] = [l[Len(l)] EXCEPT !.to = b]
    <3> HIDE DEF r, q
    <3>1. r[Len(l)] = [l[Len(l)] EXCEPT !.to = b]
      BY <2>1, <2>2
    <3>2. Len(r) = Len(l)
      BY <1>2, <2>1
    <3> QED
      BY <1>2, <2>2, <3>1, <3>2
  <2>4. Last(r).code = "body_chunk" /\ [r[Len(l)] EXCEPT !.to = c] = [l[Len(l)] EXCEPT !.to = c]
    BY <1>3, <2>2, <2>3 DEF Last, Entry
  <2>5. Record(r, "body_chunk", b, c) = [r EXCEPT ![Len(r)].to = c]
    BY <1>1, <2>3, <2>4 DEF Record
  <2>6. [r EXCEPT ![Len(r)].to = c] = [l EXCEPT ![Len(l)].to = c]
    BY <2>1, <2>2, <2>3, <2>4
  <2> QED
    BY <2>1, <2>5, <2>6
<1>4. CASE ~(l # <<>> /\ Last(l).code = "body_chunk")
  <2> DEFINE e == [code |-> "body_chunk", from |-> a, to |-> b]
             g == [code |-> "body_chunk", from |-> a, to |-> c]
  <2>1. r = Append(l, e) /\ q = Append(l, g) /\ e \in Entry /\ g \in Entry
    BY <1>1, <1>4 DEF Record, Entry
  <2>2. [e EXCEPT !.to = c] = g /\ e.code = "body_chunk"
    OBVIOUS
  <2> HIDE DEF e, g
  <2>3. Len(r) = Len(l) + 1 /\ r # <<>> /\ r[Len(r)] = e /\ \A k \in 1..Len(l) : r[k] = l[k]
    BY <2>1
  <2>4. Last(r).code = "body_chunk"
    BY <2>2, <2>3 DEF Last
  <2>5. Record(r, "body_chunk", b, c) = [r EXCEPT ![Len(r)].to = c]
    BY <1>1, <2>3, <2>4 DEF Record
  <2> DEFINE u == [r EXCEPT ![Len(r)].to = c]
  <2>6. Len(l) \in Nat /\ Len(q) = Len(l) + 1 /\ q[Len(l) + 1] = g
        /\ \A k \in 1..Len(l) : q[k] = l[k]
    BY <2>1
  <2> HIDE DEF r, q
  <2>7. /\ u \in Seq(Entry) /\ Len(u) = Len(l) + 1
        /\ \A k \in 1..(Len(l) + 1) : u[k] = IF k = Len(l) + 1 THEN [r[k] EXCEPT !.to = c]
                                            ELSE r[k]
    <3>1. r[Len(r)] \in Entry /\ Len(r) \in 1..Len(r)
      BY <1>2, <2>3, <2>6, Entries
    <3>2. [r[Len(r)] EXCEPT !.to = c] \in Entry
      BY <3>1 DEF Entry
    <3> QED
      BY <1>2, <2>3, <2>6, <3>1, <3>2
  <2> HIDE DEF u
  <2>8. \A k \in 1..(Len(l) + 1) : u[k] = q[k]
    BY <2>2, <2>3, <2>6, <2>7
  <2>9. u = q
    BY ONLY <1>2, <2>6, <2>7, <2>8, SameEntries
  <2> QED
    BY <2>5, <2>9 DEF u, r, q
<1> QED
  BY <1>3, <1>4

-----------------------------------------------------------------------------
(* The places that a machine F on the places D comes through from x on. *)

Way(F, x) == {y \in DOMAIN F : \A S \in SUBSET DOMAIN F :
                 x \in S /\ (\A u \in S : F[u] \in S) => y \in S}

LEMMA WayStarts ==
    ASSUME NEW D, NEW F \in [D -> D], NEW x \in D
    PROVE  x \in Way(F, x) /\ Way(F, x) \subseteq D
BY DEF Way

LEMMA WayGoesOn ==
    ASSUME NEW D, NEW F \in [D -> D], NEW x \in D, NEW y \in Way(F, x)
    PROVE  F[y] \in Way(F, x)
<1>1. y \in D /\ DOMAIN F = D /\ F[y] \in D
  BY DEF Way
<1> QED
  BY <1>1 DEF Way

LEMMA WayWithin ==
    ASSUME NEW D, NEW F \in [D -> D], NEW x \in D, NEW S \in SUBSET D, x \in S,
           \A u \in S : F[u] \in S
    PROVE  Way(F, x) \subseteq S
BY DEF Way

(* Where the machine stops does not depend on when it is looked at. *)
LEMMA WayStops ==
    ASSUME NEW D, NEW F \in [D -> D], NEW x \in D, F[x] = x, NEW y \in Way(F, x)
    PROVE  y = x
<1>1. {x} \in SUBSET D /\ x \in {x} /\ \A u \in {x} : F[u] \in {x}
  OBVIOUS
<1>2. Way(F, x) \subseteq {x}
  BY <1>1, WayWithin
<1> QED
  BY <1>2

LEMMA WayLeadsThere ==
    ASSUME NEW D, NEW F \in [D -> D], NEW x \in D, NEW z \in Way(F, x), F[z] = z
    PROVE  z \in Way(F, F[x])
<1> DEFINE y == F[x]
           S == {x} \cup Way(F, y)
<1>1. y \in D
  OBVIOUS
<1>2. y \in Way(F, y) /\ Way(F, y) \subseteq D
  BY <1>1, WayStarts
<1>3. \A u \in Way(F, y) : F[u] \in Way(F, y)
  BY <1>1, WayGoesOn
<1>4. S \in SUBSET D /\ x \in S /\ \A u \in S : F[u] \in S
  BY <1>2, <1>3
<1>5. Way(F, x) \subseteq S
  <2> HIDE DEF S
  <2> QED
    BY <1>4, WayWithin
<1> QED
  BY <1>2, <1>5

-----------------------------------------------------------------------------
(* Runs of bytes of a class in the stream v. *)

RunEnd(S, v, o) == Min({k \in o..Len(v) : k = Len(v) \/ v[k + 1] \notin S})

LEMMA RunEndIs ==
    ASSUME NEW v \in Seq(Byte), NEW o \in 0..Len(v), NEW S
    PROVE  RunEnd(S, v, o) \in o..Len(v) /\ Run(S, v, o, RunEnd(S, v, o))
<1> DEFINE T == {k \in o..Len(v) : k = Len(v) \/ v[k + 1] \notin S}
<1>1. Len(v) \in Nat
  OBVIOUS
<1>2. T \in SUBSET (0..Len(v)) /\ T # {}
  BY <1>1
<1>3. RunEnd(S, v, o) = Min(T)
  BY DEF RunEnd
<1>4. Min(T) \in T /\ \A k \in T : Min(T) <= k
  <2> HIDE DEF T
  <2> QED
    BY <1>1, <1>2, MinOf
<1>5. PICK m : m = RunEnd(S, v, o)
  OBVIOUS
<1>6. m \in T /\ \A k \in T : m <= k
  BY <1>3, <1>4, <1>5
<1>7. ASSUME NEW k \in (o + 1)..m PROVE v[k] \in S
  <2>1. k - 1 \in o..Len(v) /\ k - 1 < m
    BY <1>1, <1>6
  <2>2. k - 1 \notin T
    <3> HIDE DEF T
    <3> QED
      BY <1>1, <1>2, <1>6, <2>1
  <2> QED
    BY <1>1, <2>1, <2>2
<1> QED
  BY <1>1, <1>5, <1>6, <1>7 DEF Run

(* A scan loop can stop at one offset only. *)
LEMMA RunEndOnly ==
    ASSUME NEW v \in Seq(Byte), NEW o \in 0..Len(v), NEW S, NEW e \in o..Len(v),
           Run(S, v, o, e)
    PROVE  RunEnd(S, v, o) = e
<1>1. Len(v) \in Nat
  OBVIOUS
<1> DEFINE d == RunEnd(S, v, o)
<1>2. d \in o..Len(v) /\ Run(S, v, o, d)
  BY RunEndIs
<1> HIDE DEF d
<1>3. ~(d < e)
  BY <1>1, <1>2 DEF Run
<1>4. ~(e < d)
  BY <1>1, <1>2 DEF Run
<1>5. d = e
  BY <1>1, <1>2, <1>3, <1>4
<1> QED
  BY <1>5 DEF d

(* A scan that starts within a run ends where the run ends. *)
LEMMA RunEndFrom ==
    ASSUME NEW v \in Seq(Byte), NEW o \in 0..Len(v), NEW S, NEW c \in o..Len(v),
           \A k \in (o + 1)..c : v[k] \in S
    PROVE  RunEnd(S, v, o) = RunEnd(S, v, c)
<1>1. Len(v) \in Nat /\ c \in 0..Len(v)
  OBVIOUS
<1> DEFINE d == RunEnd(S, v, c)
<1>2. d \in c..Len(v) /\ Run(S, v, c, d)
  BY <1>1, RunEndIs
<1> HIDE DEF d
<1>3. d \in o..Len(v) /\ Run(S, v, o, d)
  <2>1. ASSUME NEW k \in (o + 1)..d PROVE v[k] \in S
    <3>1. CASE k <= c
      BY <1>1, <3>1
    <3>2. CASE k > c
      BY <1>1, <1>2, <3>2 DEF Run
    <3> QED
      BY <1>1, <1>2, <3>1, <3>2
  <2> QED
    BY <1>1, <1>2, <2>1 DEF Run
<1>4. RunEnd(S, v, o) = d
  BY <1>3, RunEndOnly
<1> QED
  BY <1>4 DEF d

-----------------------------------------------------------------------------
(* A place: where a reader that has read the first at bytes of the stream   *)
(* v is, with the log of its tokens.  What a buffer may cut anywhere - OWS,*)
(* a body, a decision that the next byte makes - is taken as far as the    *)
(* stream goes, so that a place does not tell how the bytes arrived.       *)

Spot(s, t, z, w, at, l) ==
    [state |-> s, body_type |-> t, body_size |-> z, memo |-> w, at |-> at, log |-> l]

(* What can be told of body_size: elsewhere it is never read again. *)
Sized(s, t) == \/ t = "CONTENT_LENGTH_READ"
               \/ s \in {"EXPECT_CHUNK_EXT", "EXPEXT_CRLF_AFTER_CHUNK_EXT",
                         "EXPECT_CHUNK_DATA"}

PastOws(v, s, value, t, z, w, at, l) ==
    LET e == RunEnd(is_ows, v, at)
    IN  Spot(IF e < Len(v) THEN value ELSE s, t, z, w, e, l)

Taken(v, z, at) == IF Len(v) - at < z THEN Len(v) - at ELSE z

BodyLog(l, at, size) == IF size = 0 THEN l ELSE Record(l, "body_chunk", at, at + size)

PastData(v, s, end, t, z, w, at, l) ==
    LET m == Taken(v, z, at)
    IN  Spot(IF m = z THEN end ELSE s, t, z - m, w, at + m, BodyLog(l, at, m))

At(v, s, t, z, w, at, l) ==
    CASE s = "ERRORED" -> Spot(s, "none", 0, "none", at, l)
      [] s = "EXPECT_OWS_AFTER_COLON" ->
            PastOws(v, s, "EXPECT_FIELD_VALUE", t, z, w, at, l)
      [] s = "EXPECT_OWS_AFTER_TRAILER_COLON" ->
            PastOws(v, s, "EXPECT_TRAILER_VALUE", t, z, w, at, l)
      [] s = "EXPECT_BODY" -> PastData(v, s, "EXPECT_END_OF_BODY", t, z, w, at, l)
      [] s = "EXPECT_CHUNK_DATA" ->
            PastData(v, s, "EXPECT_CRLF_AFTER_CHUNK_DATA", t, z, w, at, l)
      [] s = "EXPECT_UNSAFE_BODY" ->
            Spot(s, t, z, w, Len(v), BodyLog(l, at, Len(v) - at))
      [] s = "EXPECT_FIELD_NAME" /\ at < Len(v) /\ v[at + 1] \notin is_tchar ->
            Spot("EXPECT_CRLF_AFTER_HEADERS", t, z, w, at, l)
      [] s = "EXPECT_TRAILER_NAME" /\ at < Len(v) /\ v[at + 1] \notin is_tchar ->
            Spot("EXPECT_CRLF_AFTER_TRAILERS", t, z, w, at, l)
      [] s = "EXPECT_CHUNK_EXT" /\ at < Len(v) /\ v[at + 1] = CR ->
            Spot("EXPEXT_CRLF_AFTER_CHUNK_EXT", t, z, w, at, l)
      [] OTHER -> Spot(s, t, z, w, at, l)

(* The states in which the bytes at hand are taken without a decision. *)
BodyStates == {"EXPECT_BODY", "EXPECT_CHUNK_DATA", "EXPECT_UNSAFE_BODY"}
OwsStates == {"EXPECT_OWS_AFTER_COLON", "EXPECT_OWS_AFTER_TRAILER_COLON"}

(* In state s the reader decides by the bytes at offset at of v. *)
Decides(v, s, at) ==
    /\ s \notin BodyStates \cup OwsStates \cup {"ERRORED"}
    /\ s \in {"EXPECT_FIELD_NAME", "EXPECT_TRAILER_NAME"} /\ at < Len(v) =>
          v[at + 1] \in is_tchar
    /\ s = "EXPECT_CHUNK_EXT" /\ at < Len(v) => v[at + 1] # CR

LEMMA AtDecides ==
    ASSUME NEW v, NEW s, NEW t, NEW z, NEW w, NEW at, NEW l, Decides(v, s, at)
    PROVE  At(v, s, t, z, w, at, l) = Spot(s, t, z, w, at, l)
BY DEF At, Decides, BodyStates, OwsStates

(* The OWS in front of a value may be skipped in pieces. *)
LEMMA AtOws ==
    ASSUME NEW v \in Seq(Byte), NEW s \in OwsStates, NEW t, NEW z, NEW w,
           NEW at \in 0..Len(v), NEW c \in at..Len(v), NEW l,
           \A k \in (at + 1)..c : v[k] \in is_ows
    PROVE  At(v, s, t, z, w, at, l) = At(v, s, t, z, w, c, l)
<1>1. RunEnd(is_ows, v, at) = RunEnd(is_ows, v, c)
  BY RunEndFrom
<1> QED
  BY <1>1 DEF At, PastOws, OwsStates

(* The byte behind the OWS is the first one of the value. *)
LEMMA AtInk ==
    ASSUME NEW v \in Seq(Byte), NEW s \in OwsStates, NEW t, NEW z, NEW w,
           NEW at \in Nat, InkAt(v, at), NEW l, NEW value,
           value = IF s = "EXPECT_OWS_AFTER_COLON" THEN "EXPECT_FIELD_VALUE"
                   ELSE "EXPECT_TRAILER_VALUE"
    PROVE  /\ At(v, s, t, z, w, at, l) = Spot(value, t, z, w, at, l)
           /\ At(v, value, t, z, w, at, l) = Spot(value, t, z, w, at, l)
<1>1. Len(v) \in Nat /\ at \in 0..Len(v) /\ at < Len(v) /\ at \in at..Len(v)
  BY DEF InkAt
<1>2. Run(is_ows, v, at, at)
  BY <1>1 DEF Run, InkAt
<1>3. RunEnd(is_ows, v, at) = at
  BY <1>1, <1>2, RunEndOnly
<1>4. At(v, s, t, z, w, at, l) = Spot(value, t, z, w, at, l)
  BY <1>1, <1>3 DEF At, PastOws, OwsStates
<1>5. Decides(v, value, at)
  BY DEF Decides, BodyStates, OwsStates
<1> QED
  BY <1>4, <1>5, AtDecides

LEMMA TakenIs ==
    ASSUME NEW v \in Seq(Byte), NEW z \in Nat, NEW at \in 0..Len(v)
    PROVE  /\ Taken(v, z, at) \in 0..z /\ at + Taken(v, z, at) <= Len(v)
           /\ at + z <= Len(v) => Taken(v, z, at) = z
           /\ at + z > Len(v) => Taken(v, z, at) = Len(v) - at
           /\ at + Taken(v, z, at) \in 0..Len(v) /\ z - Taken(v, z, at) \in Nat
BY DEF Taken

(* Where a reader goes behind the last byte of a body or of a chunk. *)
BodyEnd(s) == IF s = "EXPECT_BODY" THEN "EXPECT_END_OF_BODY"
              ELSE "EXPECT_CRLF_AFTER_CHUNK_DATA"

AtRest(v, s, t, z, w, at, l, n) ==
    At(v, IF n = z THEN BodyEnd(s) ELSE s, t, z - n, w, at + n,
       Record(l, "body_chunk", at, at + n))

(* A body may be taken in pieces: n bytes of it first and then the rest. *)
LEMMA AtBody ==
    ASSUME NEW v \in Seq(Byte), NEW s \in {"EXPECT_BODY", "EXPECT_CHUNK_DATA"},
           NEW t, NEW z \in Nat, NEW w, NEW at \in 0..Len(v), NEW l \in Seq(Entry),
           NEW n \in 1..z, at + n <= Len(v)
    PROVE  At(v, s, t, z, w, at, l) = AtRest(v, s, t, z, w, at, l, n)
<1> USE DEF AtRest
<1> DEFINE end == BodyEnd(s)
<1>0. end = IF s = "EXPECT_BODY" THEN "EXPECT_END_OF_BODY"
            ELSE "EXPECT_CRLF_AFTER_CHUNK_DATA"
  BY DEF BodyEnd
<1>5. end = BodyEnd(s)
  OBVIOUS
<1> HIDE DEF end
<1>1. Len(v) \in Nat /\ at \in Nat /\ n \in Nat
  OBVIOUS
<1>2. At(v, s, t, z, w, at, l) = PastData(v, s, end, t, z, w, at, l)
  BY <1>0 DEF At
<1>3. CASE n = z
  <2>1. Taken(v, z, at) = z
    BY <1>1, <1>3, TakenIs
  <2>2. PastData(v, s, end, t, z, w, at, l) =
            Spot(end, t, z - z, w, at + z, Record(l, "body_chunk", at, at + z))
    BY <1>1, <1>3, <2>1 DEF PastData, BodyLog
  <2>3. Decides(v, end, at + n)
    BY <1>0 DEF Decides, BodyStates, OwsStates
  <2> QED
    BY <1>2, <1>3, <1>5, <2>2, <2>3, AtDecides
<1>4. CASE n < z
  <2> DEFINE m == Taken(v, z, at)
             k == Taken(v, z - n, at + n)
             r == Record(l, "body_chunk", at, at + n)
  <2>1. z - n \in Nat /\ at + n \in 0..Len(v)
    BY <1>1, <1>4
  <2>2. m = n + k /\ k \in Nat /\ m \in Nat /\ (m = z <=> k = z - n)
    BY <1>1, <1>4 DEF Taken
  <2>3. BodyLog(r, at + n, k) = BodyLog(l, at, m)
    <3> HIDE DEF m, k
    <3>1. m # 0
      BY <1>1, <2>2
    <3>2. CASE k = 0
      BY <1>1, <2>2, <3>1, <3>2 DEF BodyLog
    <3>3. CASE k # 0
      <4>1. Record(r, "body_chunk", at + n, at + m) = Record(l, "body_chunk", at, at + m)
        BY <1>1, <2>2, PiecesJoin
      <4>2. at + n + k = at + m
        BY <1>1, <2>2
      <4> QED
        BY <3>1, <3>3, <4>1, <4>2 DEF BodyLog
    <3> QED
      BY <3>2, <3>3
  <2>4. z - m = (z - n) - k /\ at + m = (at + n) + k
    <3> HIDE DEF m, k
    <3> QED
      BY <1>1, <2>2
  <2>5. PastData(v, s, end, t, z, w, at, l) = PastData(v, s, end, t, z - n, w, at + n, r)
    <3>1. PastData(v, s, end, t, z, w, at, l) =
             Spot(IF m = z THEN end ELSE s, t, z - m, w, at + m, BodyLog(l, at, m))
      BY DEF PastData
    <3>2. PastData(v, s, end, t, z - n, w, at + n, r) =
             Spot(IF k = z - n THEN end ELSE s, t, (z - n) - k, w, (at + n) + k,
                  BodyLog(r, at + n, k))
      BY DEF PastData
    <3> HIDE DEF m, k, r
    <3> QED
      BY <2>2, <2>3, <2>4, <3>1, <3>2
  <2>6. At(v, s, t, z - n, w, at + n, r) = PastData(v, s, end, t, z - n, w, at + n, r)
    BY <1>0 DEF At
  <2>7. n # z
    BY <1>1, <1>4
  <2> HIDE DEF r
  <2>8. At(v, s, t, z, w, at, l) = At(v, s, t, z - n, w, at + n, r)
    BY <1>2, <2>5, <2>6
  <2> QED
    BY <2>7, <2>8 DEF r
<1> QED
  BY <1>1, <1>3, <1>4, <1>5

(* So may a body that the end of the connection ends. *)
LEMMA AtUnsafeBody ==
    ASSUME NEW v \in Seq(Byte), NEW t, NEW z, NEW w, NEW at \in 0..Len(v),
           NEW l \in Seq(Entry), NEW e \in (at + 1)..Len(v)
    PROVE  At(v, "EXPECT_UNSAFE_BODY", t, z, w, at, l) =
               At(v, "EXPECT_UNSAFE_BODY", t, z, w, e, Record(l, "body_chunk", at, e))
<1> DEFINE r == Record(l, "body_chunk", at, e)
<1>1. Len(v) \in Nat /\ at \in Nat /\ e \in Nat /\ at <= e
  OBVIOUS
<1>2. at + (Len(v) - at) = Len(v) /\ e + (Len(v) - e) = Len(v)
      /\ Len(v) - at # 0 /\ (Len(v) - e = 0 => e = Len(v))
  BY <1>1
<1>3. Record(r, "body_chunk", e, Len(v)) = Record(l, "body_chunk", at, Len(v))
  BY <1>1, PiecesJoin
<1> HIDE DEF r
<1>4. BodyLog(l, at, Len(v) - at) = BodyLog(r, e, Len(v) - e)
  <2>1. CASE Len(v) - e = 0
    BY <1>2, <2>1 DEF BodyLog, r
  <2>2. CASE Len(v) - e # 0
    BY <1>2, <1>3, <2>2 DEF BodyLog
  <2> QED
    BY <2>1, <2>2
<1>5. At(v, "EXPECT_UNSAFE_BODY", t, z, w, at, l) =
          At(v, "EXPECT_UNSAFE_BODY", t, z, w, e, r)
  BY <1>4 DEF At
<1> QED
  BY <1>5 DEF r

-----------------------------------------------------------------------------
(* What a buffer shows of the stream. *)

(* At offset i, where there is a byte to read and the next n bytes have     *)
(* been scanned, buf shows the bytes of v at offset p.                     *)
Sees(v, p, buf, i, n) == /\ v \in Seq(Byte) /\ p \in Nat
                         /\ buf \in Seq(Byte) /\ i \in Nat /\ n \in Nat
                         /\ i < Len(buf) /\ i + n <= Len(buf)
                         /\ Shows(v, p, buf, i)

LEMMA SeesIs ==
    ASSUME NEW v, NEW p, NEW buf, NEW i, NEW n, Sees(v, p, buf, i, n)
    PROVE  /\ v \in Seq(Byte) /\ buf \in Seq(Byte) /\ Len(v) \in Nat /\ Len(buf) \in Nat
           /\ p \in Nat /\ p < Len(v) /\ p \in 0..Len(v) /\ i \in Nat /\ i < Len(buf)
           /\ n \in Nat /\ i + n <= Len(buf)
           /\ Len(buf) - i <= Len(v) - p /\ v[p + 1] = buf[i + 1]
           /\ \A k \in 1..(Len(buf) - i) : v[p + k] = buf[i + k]
<1>1. /\ v \in Seq(Byte) /\ buf \in Seq(Byte) /\ Len(v) \in Nat /\ Len(buf) \in Nat
      /\ p \in Nat /\ i \in Nat /\ n \in Nat /\ i < Len(buf) /\ i + n <= Len(buf)
  BY DEF Sees
<1>2. Len(buf) - i <= Len(v) - p /\ \A k \in 1..(Len(buf) - i) : v[p + k] = buf[i + k]
  BY DEF Sees, Shows
<1>3. 1 \in 1..(Len(buf) - i)
  BY <1>1
<1> QED
  BY <1>1, <1>2, <1>3

(* A run that ends within the buffer ends there in the stream. *)
LEMMA RunIsSeen ==
    ASSUME NEW v, NEW p, NEW buf, NEW i, NEW n, Sees(v, p, buf, i, n),
           NEW S, NEW size \in Nat, MaxRun(S, buf, i, size)
    PROVE  /\ RunEnd(S, v, p) = p + size /\ p + size < Len(v)
           /\ RunEnd(S, v, p) - p = size /\ p + size \in Nat
           /\ v[p + size + 1] = buf[i + size + 1]
           /\ View(v, p, p + size) = View(buf, i, i + size)
<1>1. /\ v \in Seq(Byte) /\ buf \in Seq(Byte) /\ Len(v) \in Nat /\ Len(buf) \in Nat
      /\ p \in Nat /\ p < Len(v) /\ p \in 0..Len(v) /\ i \in Nat
      /\ Len(buf) - i <= Len(v) - p
      /\ \A k \in 1..(Len(buf) - i) : v[p + k] = buf[i + k]
  BY ONLY Sees(v, p, buf, i, n), SeesIs
<1>2. i + size < Len(buf) /\ buf[i + size + 1] \notin S /\ \A k \in 1..size : buf[i + k] \in S
  BY DEF MaxRun
<1>3. p + size \in p..Len(v) /\ p + size < Len(v) /\ p + size \in Nat
  BY <1>1, <1>2
<1>4. v[p + size + 1] = buf[i + size + 1]
  <2>1. size + 1 \in 1..(Len(buf) - i)
    BY <1>1, <1>2
  <2>2. v[p + (size + 1)] = buf[i + (size + 1)]
    BY <1>1, <2>1
  <2> QED
    BY <1>1, <2>2
<1>5. ASSUME NEW k \in 1..size PROVE v[p + k] = buf[i + k]
  BY <1>1, <1>2
<1>6. ASSUME NEW k \in (p + 1)..(p + size) PROVE v[k] \in S
  <2>1. k - p \in 1..size /\ p + (k - p) = k
    BY <1>1
  <2> QED
    BY <1>2, <1>5, <2>1
<1>7. Run(S, v, p, p + size)
  BY <1>2, <1>4, <1>6 DEF Run
<1>8. RunEnd(S, v, p) = p + size
  BY <1>1, <1>3, <1>7, RunEndOnly
<1>9. View(v, p, p + size) = View(buf, i, i + size)
  <2> DEFINE a == SubSeq(v, p + 1, p + size)
             c == SubSeq(buf, i + 1, i + size)
  <2>1. a \in Seq(Byte) /\ Len(a) = size /\ \A k \in 1..size : a[k] = v[p + k]
    <3>1. p + size <= Len(v)
      BY ONLY <1>1, <1>3
    <3> QED
      BY ONLY <1>1, <3>1, size \in Nat, PartEntries
  <2>2. c \in Seq(Byte) /\ Len(c) = size /\ \A k \in 1..size : c[k] = buf[i + k]
    <3>1. i + size <= Len(buf)
      BY <1>1, <1>2
    <3> QED
      BY ONLY <1>1, <3>1, size \in Nat, PartEntries
  <2> HIDE DEF a, c
  <2>3. ASSUME NEW k \in 1..size PROVE a[k] = c[k]
    BY <1>5, <2>1, <2>2
  <2>4. a = c
    BY ONLY <2>1, <2>2, <2>3, SameEntries
  <2> QED
    BY <2>4 DEF a, c, View
<1> QED
  BY <1>1, <1>3, <1>4, <1>8, <1>9

(* So does a line end. *)
LEMMA LiberalIsSeen ==
    ASSUME NEW v, NEW p, NEW buf, NEW i, NEW n, Sees(v, p, buf, i, n),
           liberal_crlf(buf, i) # "insufficient_data"
    PROVE  liberal_crlf(v, p) = liberal_crlf(buf, i)
<1>1. /\ v \in Seq(Byte) /\ buf \in Seq(Byte) /\ Len(v) \in Nat /\ Len(buf) \in Nat
      /\ p \in Nat /\ p < Len(v) /\ i \in Nat /\ i < Len(buf)
      /\ Len(buf) - i <= Len(v) - p /\ v[p + 1] = buf[i + 1]
      /\ \A k \in 1..(Len(buf) - i) : v[p + k] = buf[i + k]
  BY SeesIs
<1>2. CASE buf[i + 1] = LF
  BY <1>1, <1>2 DEF liberal_crlf
<1>3. CASE buf[i + 1] = CR /\ buf[i + 1] # LF
  <2>1. Len(buf) # i + 1
    BY <1>3 DEF liberal_crlf
  <2>2. 2 \in 1..(Len(buf) - i) /\ Len(v) > p + 1 /\ Len(buf) > i + 1
    BY <1>1, <2>1
  <2>3. v[p + 2] = buf[i + 2]
    BY <1>1, <2>2
  <2>4. Len(v) # p + 1
    BY <1>1, <2>2
  <2> QED
    BY <1>1, <1>3, <2>1, <2>2, <2>3, <2>4 DEF liberal_crlf
<1>4. CASE buf[i + 1] # CR /\ buf[i + 1] # LF
  BY <1>1, <1>4 DEF liberal_crlf
<1> QED
  BY <1>2, <1>3, <1>4

LEMMA StrictIsSeen ==
    ASSUME NEW v, NEW p, NEW buf, NEW i, NEW n, Sees(v, p, buf, i, n), Len(buf) - i >= 2
    PROVE  ~(Len(v) - p < 2) /\ (strict_crlf(v, p) <=> strict_crlf(buf, i))
<1>1. /\ Len(v) \in Nat /\ Len(buf) \in Nat /\ p \in Nat /\ i \in Nat
      /\ Len(buf) - i <= Len(v) - p /\ v[p + 1] = buf[i + 1]
      /\ \A k \in 1..(Len(buf) - i) : v[p + k] = buf[i + k]
  BY SeesIs
<1>2. v[p + 2] = buf[i + 2] /\ ~(Len(v) - p < 2)
  BY <1>1
<1> QED
  BY <1>1, <1>2 DEF strict_crlf

-----------------------------------------------------------------------------
(* The steps from a place x of the stream v to the next one: with a token,  *)
(* with an error, or none while the stream does not tell.                  *)

Gives(v, x, s, t, z, w, code, size) ==
    At(v, s, t, z, w, x.at + size, Record(x.log, code, x.at, x.at + size))

Moves(v, x, s, code, size) ==
    Gives(v, x, s, x.body_type, x.body_size, x.memo, code, size)

Fails(x, code) == Spot("ERRORED", "none", 0, "none", x.at,
                       Record(x.log, code, x.at, x.at))

LiberalStep(v, x, s) ==
    CASE liberal_crlf(v, x.at) = "crlf" -> Moves(v, x, s, "skip", 2)
      [] liberal_crlf(v, x.at) = "lf" -> Moves(v, x, s, "skip", 1)
      [] liberal_crlf(v, x.at) = "insufficient_data" -> x
      [] OTHER -> Fails(x, "error_invalid_data")

StrictStep(v, x, s, t, code) ==
    IF Len(v) - x.at < 2 THEN x
    ELSE IF strict_crlf(v, x.at) THEN Gives(v, x, s, t, x.body_size, x.memo, code, 2)
    ELSE Fails(x, "error_invalid_data")

ByteStep(v, x, S, s, code) ==
    IF v[x.at + 1] \in S THEN Moves(v, x, s, code, 1) ELSE Fails(x, "error_invalid_data")

RunStep(v, x, S, s, code) ==
    LET e == RunEnd(S, v, x.at)
    IN  IF e = Len(v) THEN x ELSE Moves(v, x, s, code, e - x.at)

ScanStep(v, x, S, s, code) ==
    IF v[x.at + 1] \in S THEN RunStep(v, x, S, s, code) ELSE Fails(x, "error_invalid_data")

LiteralStep(v, x, literal, s) ==
    LET rest == Len(v) - x.at
        size == IF rest < Len(literal) THEN rest ELSE Len(literal)
    IN  IF \E k \in 1..size : v[x.at + k] # literal[k] THEN Fails(x, "error_invalid_data")
        ELSE IF size < Len(literal) THEN x
        ELSE Moves(v, x, s, "skip", size)

DecodeStep(v, x) ==
    LET e == RunEnd(is_field_value_char, v, x.at)
        value == decode_field_value(View(v, x.at, e))
        d == content_length_decode(value, 0, UintMax)
        res == decode_transfer_encoding(value)
        here(t, z) == Gives(v, x, "EXPECT_CRLF_AFTER_FIELD_VALUE", t, z, x.memo,
                            "field_value", e - x.at)
    IN  IF e = Len(v) THEN x
        ELSE IF x.body_type = "READING_CONTENT_LENGTH"
        THEN IF d.result = "ok" THEN here("CONTENT_LENGTH_READ", d.out)
             ELSE Fails(x, IF d.result = "invalid" THEN "error_invalid_content_length"
                           ELSE "error_content_length_overflow")
        ELSE IF x.body_type = "READING_ENCODING"
        THEN IF res = "CHUNKED_INVALID" THEN Fails(x, "error_invalid_transfer_encoding")
             ELSE here(IF res = "CHUNKED_AT_END" THEN "CHUNKED_ENCODING_READ"
                       ELSE "RANDOM_ENCODING_READ", x.body_size)
        ELSE here(x.body_type, x.body_size)

ChunkSizeStep(v, x) ==
    LET e == RunEnd(is_hexdigit, v, x.at)
        d == chunk_size_decode(View(v, x.at, e), 0, UintMax)
    IN  IF v[x.at + 1] \notin is_hexdigit THEN Fails(x, "error_invalid_data")
        ELSE IF e = Len(v) THEN x
        ELSE IF d.result = "ok"
        THEN Gives(v, x, "EXPECT_CHUNK_EXT", x.body_type, d.out, x.memo, "skip", e - x.at)
        ELSE Fails(x, IF d.result = "overflow" THEN "error_chunk_size_overflow"
                      ELSE "error_invalid_data")

ChunkExtStep(v, x) ==
    LET e == RunEnd(is_chunk_ext_char, v, x.at)
    IN  IF e = Len(v) THEN x
        ELSE IF v[e + 1] # CR THEN Fails(x, "error_invalid_data")
        ELSE Moves(v, x, "EXPEXT_CRLF_AFTER_CHUNK_EXT", "chunk_ext", e - x.at)

SharedStep(first, none, v, x) ==
    CASE x.state = "EXPECT_COLON" ->
            ByteStep(v, x, {COLON}, "EXPECT_OWS_AFTER_COLON", "skip")
      [] x.state = "EXPECT_FIELD_VALUE" -> DecodeStep(v, x)
      [] x.state = "EXPECT_CRLF_AFTER_FIELD_VALUE" -> LiberalStep(v, x, "EXPECT_FIELD_NAME")
      [] x.state = "EXPECT_CHUNK_SIZE" -> ChunkSizeStep(v, x)
      [] x.state = "EXPECT_CHUNK_EXT" -> ChunkExtStep(v, x)
      [] x.state = "EXPEXT_CRLF_AFTER_CHUNK_EXT" ->
            StrictStep(v, x, IF x.body_size # 0 THEN "EXPECT_CHUNK_DATA"
                             ELSE "EXPECT_TRAILER_NAME",
                       x.body_type, IF x.body_size # 0 THEN "skip" ELSE "end_of_body")
      [] x.state = "EXPECT_CRLF_AFTER_CHUNK_DATA" ->
            StrictStep(v, x, "EXPECT_CHUNK_SIZE", x.body_type, "skip")
      [] x.state = "EXPECT_TRAILER_NAME" ->
            RunStep(v, x, is_tchar, "EXPECT_TRAILER_COLON", "trailer_name")
      [] x.state = "EXPECT_TRAILER_COLON" ->
            ByteStep(v, x, {COLON}, "EXPECT_OWS_AFTER_TRAILER_COLON", "skip")
      [] x.state = "EXPECT_TRAILER_VALUE" ->
            RunStep(v, x, is_field_value_char, "EXPECT_CRLF_AFTER_TRAILER_VALUE",
                    "trailer_value")
      [] x.state = "EXPECT_CRLF_AFTER_TRAILER_VALUE" ->
            StrictStep(v, x, "EXPECT_TRAILER_NAME", x.body_type, "skip")
      [] x.state = "EXPECT_CRLF_AFTER_TRAILERS" ->
            StrictStep(v, x, first, none, "end_of_message")
      [] OTHER -> x

-----------------------------------------------------------------------------
(* The place of a reader before and after a case of next() that reads at    *)
(* offset p of the stream v; w is what else the reader remembers.          *)

Size == IF Sized(state, body_type) THEN body_size ELSE 0

(* The bytes that the current token or error has consumed. *)
Gone == IF state = "ERRORED" \/ code_ = INSUFFICIENT THEN 0 ELSE token_size_

Before(v, w, p, l) == At(v, state, body_type, Size, w, p, l)

After(v, w, p, l) == At(v, state', body_type', Size', w, p + Gone',
                        Record(l, code_', p, p + token_size_'))

(* x is the place before the case, which takes nothing without a decision. *)
Stands(x, v, w, p, l) == /\ x = Before(v, w, p, l)
                         /\ x.body_type = body_type /\ x.body_size = Size
                         /\ x.memo = w /\ x.at = p /\ x.log = l

(* A move to state s leaves what can be told of body_size as it is. *)
SameSize(s) == (IF Sized(s, body_type) THEN body_size ELSE 0) = Size

LEMMA SpotIs ==
    \A s, t, z, w, p, l : /\ Spot(s, t, z, w, p, l).state = s
                          /\ Spot(s, t, z, w, p, l).body_type = t
                          /\ Spot(s, t, z, w, p, l).body_size = z
                          /\ Spot(s, t, z, w, p, l).memo = w
                          /\ Spot(s, t, z, w, p, l).at = p
                          /\ Spot(s, t, z, w, p, l).log = l
BY DEF Spot

LEMMA SpotStands ==
    ASSUME NEW v, NEW w, NEW p, NEW l, NEW s,
           Before(v, w, p, l) = Spot(s, body_type, Size, w, p, l)
    PROVE  Stands(Before(v, w, p, l), v, w, p, l) /\ Before(v, w, p, l).state = s
BY SpotIs DEF Stands

LEMMA DecidesStands ==
    ASSUME NEW v, NEW w, NEW p, NEW l, Decides(v, state, p)
    PROVE  Stands(Before(v, w, p, l), v, w, p, l) /\ Before(v, w, p, l).state = state
<1>1. Before(v, w, p, l) = Spot(state, body_type, Size, w, p, l)
  BY AtDecides DEF Before
<1> QED
  BY <1>1, SpotStands

LEMMA AfterFails ==
    ASSUME NEW v, NEW w, NEW p \in Nat, NEW l, NEW x, Stands(x, v, w, p, l),
           NEW code \in ErrorCode \ {INSUFFICIENT}, NEW size, Fail(code, size)
    PROVE  After(v, w, p, l) = Fails(x, code)
<1>1. state' = "ERRORED" /\ code_' = code /\ Gone' = 0
  BY DEF Fail, Emit, Gone
<1>2. \A t : Record(l, code, p, t) = Record(l, code, p, p)
  BY DEF Record, symbol, ErrorCode, INSUFFICIENT
<1>3. After(v, w, p, l) = Spot("ERRORED", "none", 0, "none", p + 0, Record(l, code, p, p))
  BY <1>1, <1>2 DEF After, At
<1> QED
  BY <1>3 DEF Fails, Stands

LEMMA AfterGives ==
    ASSUME NEW v, NEW w, NEW p, NEW l, NEW x, Stands(x, v, w, p, l),
           NEW s, NEW code, NEW size, Emit(s, code, size),
           s # "ERRORED", code # INSUFFICIENT
    PROVE  After(v, w, p, l) = Gives(v, x, s, body_type', Size', w, code, size)
<1>1. state' = s /\ code_' = code /\ token_size_' = size /\ Gone' = size
  BY DEF Emit, Gone
<1> QED
  BY <1>1 DEF After, Gives, Stands

LEMMA AfterMoves ==
    ASSUME NEW v, NEW w, NEW p, NEW l, NEW x, Stands(x, v, w, p, l),
           NEW s, NEW code, NEW size, Emit(s, code, size),
           s # "ERRORED", code # INSUFFICIENT, UNCHANGED framing, SameSize(s)
    PROVE  After(v, w, p, l) = Moves(v, x, s, code, size)
<1>1. body_type' = body_type /\ Size' = Size
  BY DEF framing, Emit, Size, SameSize
<1>2. After(v, w, p, l) = Gives(v, x, s, body_type', Size', w, code, size)
  BY AfterGives
<1> QED
  BY <1>1, <1>2 DEF Moves, Stands

LEMMA AfterWaits ==
    ASSUME NEW v, NEW w, NEW p \in Nat, NEW l, NEW s, NEW size, Suspend(s, size),
           s # "ERRORED", UNCHANGED framing, SameSize(s)
    PROVE  After(v, w, p, l) = At(v, s, body_type, Size, w, p, l)
<1>1. state' = s /\ code_' = INSUFFICIENT /\ Gone' = 0
  BY DEF Suspend, Emit, Gone
<1>2. body_type' = body_type /\ Size' = Size
  BY <1>1 DEF framing, Size, SameSize
<1>3. \A t : Record(l, INSUFFICIENT, p, t) = l
  BY DEF Record, INSUFFICIENT
<1>4. p + Gone' = p
  BY <1>1
<1> QED
  BY <1>1, <1>2, <1>3, <1>4 DEF After

(* A reader that waits in its state is where it was. *)
LEMMA AfterStays ==
    ASSUME NEW v, NEW w, NEW p \in Nat, NEW l, NEW size, Suspend(state, size),
           UNCHANGED framing, state # "ERRORED"
    PROVE  After(v, w, p, l) = Before(v, w, p, l)
<1>1. SameSize(state)
  BY DEF SameSize, Size
<1> QED
  BY <1>1, AfterWaits DEF Before

(* The same where the case changes what else the reader remembers. *)
LEMMA AfterTells ==
    ASSUME NEW v, NEW w, NEW p, NEW l, NEW x, x.at = p, x.log = l,
           NEW s, NEW code, NEW size, Emit(s, code, size),
           s # "ERRORED", code # INSUFFICIENT
    PROVE  After(v, w, p, l) = Gives(v, x, s, body_type', Size', w, code, size)
BY DEF After, Gives, Emit, Gone

(* An error ends what a reader remembers. *)
LEMMA ErrorForgets ==
    ASSUME NEW v, NEW w, NEW u, NEW p, NEW l, state' = "ERRORED"
    PROVE  After(v, w, p, l) = After(v, u, p, l)
BY DEF After, At

LEMMA InvalidData == "error_invalid_data" \in ErrorCode \ {INSUFFICIENT}
BY DEF ErrorCode, INSUFFICIENT

(* A case that leaves the framing alone: a reader in state s or waiting. *)
Plainly(s, code) == /\ UNCHANGED framing /\ SameSize(s) /\ state # "ERRORED"
                    /\ s # "ERRORED" /\ code # INSUFFICIENT

LEMMA ByteTokenSteps ==
    ASSUME NEW v, NEW p, NEW buf, NEW i, NEW n, Sees(v, p, buf, i, n), NEW w, NEW l,
           NEW x, Stands(x, v, w, p, l),
           NEW S, NEW s, NEW code, Plainly(s, code), ByteToken(S, buf, i, n, s, code)
    PROVE  After(v, w, p, l) = ByteStep(v, x, S, s, code)
<1>1. v[p + 1] = buf[i + 1] /\ p \in Nat
  BY ONLY Sees(v, p, buf, i, n), SeesIs
<1>2. x.at = p
  BY DEF Stands
<1>3. CASE buf[i + 1] \in S /\ Emit(s, code, 1)
  BY <1>1, <1>2, <1>3, AfterMoves DEF ByteStep, Plainly
<1>4. CASE buf[i + 1] \notin S /\ Fail("error_invalid_data", n)
  BY <1>1, <1>2, <1>4, AfterFails, InvalidData DEF ByteStep
<1> QED
  BY <1>3, <1>4 DEF ByteToken

LEMMA LiberalCrlfSteps ==
    ASSUME NEW v, NEW p, NEW buf, NEW i, NEW n, Sees(v, p, buf, i, n), NEW w, NEW l,
           NEW x, Stands(x, v, w, p, l),
           NEW s, Plainly(s, "skip"), LiberalCrlf(buf, i, n, s)
    PROVE  After(v, w, p, l) = x \/ After(v, w, p, l) = LiberalStep(v, x, s)
<1>1. p \in Nat
  BY ONLY Sees(v, p, buf, i, n), SeesIs
<1>2. x.at = p /\ x = Before(v, w, p, l)
  BY DEF Stands
<1>3. liberal_crlf(buf, i) # "insufficient_data" => liberal_crlf(v, p) = liberal_crlf(buf, i)
  BY LiberalIsSeen
<1>4. CASE liberal_crlf(buf, i) = "crlf" /\ Emit(s, "skip", 2)
  BY <1>2, <1>3, <1>4, AfterMoves DEF LiberalStep, Plainly
<1>5. CASE liberal_crlf(buf, i) = "lf" /\ Emit(s, "skip", 1)
  BY <1>2, <1>3, <1>5, AfterMoves DEF LiberalStep, Plainly
<1>6. CASE Suspend(state, n)
  BY <1>1, <1>2, <1>6, AfterStays DEF Plainly
<1>7. CASE liberal_crlf(buf, i) = "invalid_data" /\ Fail("error_invalid_data", n)
  BY <1>1, <1>2, <1>3, <1>7, AfterFails, InvalidData DEF LiberalStep
<1> QED
  BY <1>4, <1>5, <1>6, <1>7 DEF LiberalCrlf

(* The line end may change body_type to t; here is its state. *)
LEMMA StrictCrlfSteps ==
    ASSUME NEW v, NEW p, NEW buf, NEW i, NEW n, Sees(v, p, buf, i, n), NEW w, NEW l,
           NEW x, Stands(x, v, w, p, l),
           NEW here, here # "ERRORED", SameSize(here),
           x = At(v, here, body_type, Size, w, p, l),
           NEW s, NEW t, NEW code, s # "ERRORED", code # INSUFFICIENT,
           (IF Sized(s, t) THEN body_size ELSE 0) = Size, body_size' = body_size,
           body_type' = IF code_' = code THEN t ELSE body_type,
           StrictCrlf(buf, i, n, here, s, code)
    PROVE  After(v, w, p, l) = x \/ After(v, w, p, l) = StrictStep(v, x, s, t, code)
<1>1. p \in Nat
  BY ONLY Sees(v, p, buf, i, n), SeesIs
<1>2. x.at = p /\ x.body_size = Size /\ x.memo = w
  BY DEF Stands
<1>3. Len(buf) - i >= 2 =>
         ~(Len(v) - p < 2) /\ (strict_crlf(v, p) <=> strict_crlf(buf, i))
  BY StrictIsSeen
<1>4. CASE Suspend(here, n)
  <2>1. UNCHANGED framing
    BY <1>4 DEF Suspend, Emit, framing
  <2> QED
    BY <1>1, <1>4, <2>1, AfterWaits
<1>5. CASE Len(buf) - i >= 2 /\ strict_crlf(buf, i) /\ Emit(s, code, 2)
  <2>1. body_type' = t /\ Size' = Size
    BY <1>5 DEF Emit, Size
  <2>2. After(v, w, p, l) = Gives(v, x, s, t, Size, w, code, 2)
    BY <1>5, <2>1, AfterGives
  <2> QED
    BY <1>2, <1>3, <1>5, <2>2 DEF StrictStep
<1>6. CASE Len(buf) - i >= 2 /\ ~strict_crlf(buf, i) /\ Fail("error_invalid_data", n)
  BY <1>1, <1>2, <1>3, <1>6, AfterFails, InvalidData DEF StrictStep
<1> QED
  BY <1>4, <1>5, <1>6 DEF StrictCrlf

(* A run that the buffer shows to its end, moved past at once. *)
LEMMA RunSteps ==
    ASSUME NEW v, NEW p, NEW buf, NEW i, NEW n, Sees(v, p, buf, i, n), NEW w, NEW l,
           NEW x, Stands(x, v, w, p, l), NEW S, NEW s, NEW code, Plainly(s, code),
           NEW size \in Nat, MaxRun(S, buf, i, size), Emit(s, code, size)
    PROVE  After(v, w, p, l) = RunStep(v, x, S, s, code)
<1>1. RunEnd(S, v, p) - p = size /\ RunEnd(S, v, p) # Len(v)
  <2>1. RunEnd(S, v, p) = p + size /\ p + size < Len(v) /\ RunEnd(S, v, p) - p = size
        /\ p + size \in Nat
    BY RunIsSeen
  <2>2. Len(v) \in Nat
    BY ONLY Sees(v, p, buf, i, n), SeesIs
  <2> QED
    BY <2>1, <2>2
<1>2. After(v, w, p, l) = Moves(v, x, s, code, size)
  BY AfterMoves DEF Plainly
<1> QED
  BY <1>1, <1>2 DEF RunStep, Stands

LEMMA RescanTokenSteps ==
    ASSUME NEW v, NEW p, NEW buf, NEW i, NEW n, Sees(v, p, buf, i, n), NEW w, NEW l,
           NEW x, Stands(x, v, w, p, l), NEW S, NEW s, NEW code, Plainly(s, code),
           NEW here, here # "ERRORED", SameSize(here),
           x = At(v, here, body_type, Size, w, p, l),
           RescanToken(S, buf, i, n, here, s, code)
    PROVE  After(v, w, p, l) = x \/ After(v, w, p, l) = RunStep(v, x, S, s, code)
<1>1. p \in Nat /\ buf \in Seq(Byte) /\ i \in Nat /\ Len(buf) \in Nat
  BY ONLY Sees(v, p, buf, i, n), SeesIs
<1>2. PICK e \in i..Len(buf) :
         /\ Run(S, buf, i, e)
         /\ \/ e = Len(buf) /\ Suspend(here, n)
            \/ e < Len(buf) /\ Emit(s, code, e - i)
  BY DEF RescanToken
<1>3. CASE Suspend(here, n)
  BY <1>1, <1>3, AfterWaits DEF Plainly
<1>4. CASE e < Len(buf) /\ Emit(s, code, e - i)
  <2>1. e - i \in Nat /\ MaxRun(S, buf, i, e - i)
    BY <1>1, <1>2, <1>4 DEF MaxRun, Run
  <2> QED
    BY <1>4, <2>1, RunSteps
<1> QED
  BY <1>2, <1>3, <1>4

LEMMA ScanTokenSteps ==
    ASSUME NEW v, NEW p, NEW buf, NEW i, NEW n, Sees(v, p, buf, i, n), NEW w, NEW l,
           NEW x, Stands(x, v, w, p, l), NEW S, NEW s, NEW code, Plainly(s, code),
           \A k \in 1..n : buf[i + k] \in S, ScanToken(S, buf, i, n, s, code)
    PROVE  After(v, w, p, l) = x \/ After(v, w, p, l) = ScanStep(v, x, S, s, code)
<1>1. /\ p \in Nat /\ buf \in Seq(Byte) /\ i \in Nat /\ n \in Nat /\ Len(buf) \in Nat
      /\ v[p + 1] = buf[i + 1]
  BY ONLY Sees(v, p, buf, i, n), SeesIs
<1>2. PICK e \in (i + n)..Len(buf) :
         /\ Run(S, buf, i + n, e)
         /\ \/ e = Len(buf) /\ Suspend(state, e - i)
            \/ e < Len(buf) /\ e > i /\ Emit(s, code, e - i)
            \/ e < Len(buf) /\ e = i /\ Fail("error_invalid_data", n)
  BY DEF ScanToken
<1>3. CASE Suspend(state, e - i)
  BY <1>1, <1>3, AfterStays DEF Plainly, Stands
<1>4. CASE e < Len(buf) /\ e > i /\ Emit(s, code, e - i)
  <2>1. ASSUME NEW k \in 1..(e - i) PROVE buf[i + k] \in S
    <3>1. CASE k <= n
      <4>1. k \in 1..n
        BY <1>1, <3>1
      <4> QED
        BY <4>1
    <3>2. CASE k > n
      <4>1. \A j \in (i + n + 1)..e : buf[j] \in S
        BY <1>2 DEF Run
      <4>2. i + k \in (i + n + 1)..e
        BY <1>1, <3>2
      <4> QED
        BY <4>1, <4>2
    <3> QED
      BY <1>1, <3>1, <3>2
  <2>2. e - i \in Nat /\ MaxRun(S, buf, i, e - i)
    BY <1>1, <1>2, <1>4, <2>1 DEF MaxRun, Run
  <2>3. v[p + 1] \in S
    BY <1>1, <1>2, <1>4, <2>1
  <2>4. After(v, w, p, l) = RunStep(v, x, S, s, code)
    BY <1>4, <2>2, RunSteps
  <2> QED
    BY <2>3, <2>4 DEF ScanStep, Stands
<1>5. CASE e < Len(buf) /\ e = i /\ Fail("error_invalid_data", n)
  <2>1. v[p + 1] \notin S
    BY <1>1, <1>2, <1>5 DEF Run
  <2>2. After(v, w, p, l) = Fails(x, "error_invalid_data")
    BY <1>1, <1>5, AfterFails, InvalidData
  <2> QED
    BY <2>1, <2>2 DEF ScanStep, Stands
<1> QED
  BY <1>2, <1>3, <1>4, <1>5

LEMMA LiteralTokenSteps ==
    ASSUME NEW v, NEW p, NEW buf, NEW i, NEW n, Sees(v, p, buf, i, n), NEW w, NEW l,
           NEW x, Stands(x, v, w, p, l), NEW s, Plainly(s, "skip"),
           NEW literal \in Seq(Byte), n <= Len(literal),
           \A k \in 1..n : buf[i + k] = literal[k], LiteralToken(literal, buf, i, n, s)
    PROVE  After(v, w, p, l) = x \/ After(v, w, p, l) = LiteralStep(v, x, literal, s)
<1>1. /\ p \in Nat /\ i \in Nat /\ n \in Nat /\ Len(buf) \in Nat /\ Len(v) \in Nat
      /\ Len(buf) - i <= Len(v) - p /\ i < Len(buf)
      /\ \A k \in 1..(Len(buf) - i) : v[p + k] = buf[i + k]
  BY ONLY Sees(v, p, buf, i, n), SeesIs
<1>2. x.at = p /\ Len(literal) \in Nat
  BY DEF Stands
<1> DEFINE avail == Len(buf) - i
           size == IF avail < Len(literal) THEN avail ELSE Len(literal)
           match == \A k \in (n + 1)..size : buf[i + k] = literal[k]
           rest == Len(v) - x.at
           all == IF rest < Len(literal) THEN rest ELSE Len(literal)
           fits == \E k \in 1..all : v[x.at + k] # literal[k]
<1>3. \/ match /\ size = Len(literal) /\ Emit(s, "skip", size)
      \/ match /\ size < Len(literal) /\ Suspend(state, size)
      \/ ~match /\ Fail("error_invalid_data", n)
  BY DEF LiteralToken
<1>4. /\ LiteralStep(v, x, literal, s) =
            IF fits THEN Fails(x, "error_invalid_data")
            ELSE IF all < Len(literal) THEN x ELSE Moves(v, x, s, "skip", all)
      /\ size \in Nat /\ all \in Nat /\ size <= all /\ size <= Len(buf) - i
      /\ size <= Len(literal) /\ all <= Len(literal)
  BY <1>1, <1>2 DEF LiteralStep
<1>5. match => \A k \in 1..size : v[x.at + k] = literal[k]
  <2> SUFFICES ASSUME match, NEW k \in 1..size PROVE v[x.at + k] = literal[k]
    OBVIOUS
  <2>0. k \in 1..(Len(buf) - i)
    BY <1>1, <1>4
  <2>1. v[p + k] = buf[i + k]
    BY <1>1, <2>0
  <2>2. CASE k <= n
    BY <1>1, <1>2, <2>1, <2>2
  <2>3. CASE k > n
    BY <1>1, <1>2, <1>4, <2>1, <2>3
  <2> QED
    BY <1>1, <1>4, <2>2, <2>3
<1>6. ~match => fits
  <2> SUFFICES ASSUME NEW k \in (n + 1)..size, buf[i + k] # literal[k] PROVE fits
    OBVIOUS
  <2>1. k \in 1..(Len(buf) - i) /\ k \in 1..all
    BY <1>1, <1>4
  <2>2. v[x.at + k] # literal[k]
    BY <1>1, <1>2, <2>1
  <2> QED
    BY <2>1, <2>2
<1> HIDE DEF size, match, all, fits, rest
<1>7. CASE match /\ size = Len(literal) /\ Emit(s, "skip", size)
  <2>1. all = size
    BY <1>2, <1>4, <1>7
  <2>2. ~fits
    BY <1>5, <1>7, <2>1 DEF fits
  <2>3. After(v, w, p, l) = Moves(v, x, s, "skip", size)
    BY <1>7, AfterMoves DEF Plainly
  <2> QED
    BY <1>2, <1>4, <1>7, <2>1, <2>2, <2>3
<1>8. CASE Suspend(state, size)
  BY <1>1, <1>8, AfterStays DEF Plainly, Stands
<1>9. CASE ~match /\ Fail("error_invalid_data", n)
  <2>1. After(v, w, p, l) = Fails(x, "error_invalid_data")
    BY <1>1, <1>9, AfterFails, InvalidData
  <2> QED
    BY <1>4, <1>6, <1>9, <2>1
<1> QED
  BY <1>3, <1>7, <1>8, <1>9

(* The OWS behind a colon may be skipped with it or later. *)
LEMMA ColonSteps ==
    ASSUME NEW v, NEW p, NEW buf, NEW i, NEW n, Sees(v, p, buf, i, n), NEW w, NEW l,
           NEW x, Stands(x, v, w, p, l), NEW ows \in OwsStates, NEW value,
           value = IF ows = "EXPECT_OWS_AFTER_COLON" THEN "EXPECT_FIELD_VALUE"
                   ELSE "EXPECT_TRAILER_VALUE",
           Plainly(ows, "skip"), SameSize(value), Colon(buf, i, n, ows, value)
    PROVE  After(v, w, p, l) = ByteStep(v, x, {COLON}, ows, "skip")
<1>1. /\ v \in Seq(Byte) /\ p \in Nat /\ i \in Nat /\ Len(buf) \in Nat /\ Len(v) \in Nat
      /\ Len(buf) - i <= Len(v) - p /\ i < Len(buf) /\ v[p + 1] = buf[i + 1]
  BY ONLY Sees(v, p, buf, i, n), SeesIs
<1>0. \A k \in 1..(Len(buf) - i) : v[p + k] = buf[i + k]
  BY ONLY Sees(v, p, buf, i, n), SeesIs
<1>2. x.at = p /\ x.log = l /\ x.body_type = body_type /\ x.body_size = Size /\ x.memo = w
  BY DEF Stands
<1>3. CASE buf[i + 1] # COLON /\ Fail("error_invalid_data", n)
  BY <1>1, <1>2, <1>3, AfterFails, InvalidData DEF ByteStep
<1>4. CASE buf[i + 1] = COLON /\ \E e \in (i + 1)..Len(buf) :
                /\ Run(is_ows, buf, i + 1, e)
                /\ Emit(IF e = Len(buf) THEN ows ELSE value, "skip", e - i)
  <2>1. PICK e \in (i + 1)..Len(buf) :
              /\ Run(is_ows, buf, i + 1, e)
              /\ Emit(IF e = Len(buf) THEN ows ELSE value, "skip", e - i)
    BY <1>4
  <2>2. PICK c : c = p + (e - i)
    OBVIOUS
  <2>3. c \in (p + 1)..Len(v) /\ c \in Nat /\ p + 1 \in 0..Len(v)
    BY <1>1, <2>2
  <2>4. ASSUME NEW k \in (p + 1 + 1)..c PROVE v[k] \in is_ows
    <3>1. k - p \in 1..(Len(buf) - i) /\ k - p + i \in (i + 1 + 1)..e
          /\ p + (k - p) = k /\ i + (k - p) = k - p + i
      BY <1>1, <2>2, <2>3
    <3>2. v[p + (k - p)] = buf[i + (k - p)]
      BY <1>0, <3>1
    <3>3. v[k] = buf[k - p + i]
      BY <3>1, <3>2
    <3> QED
      BY <2>1, <3>1, <3>3 DEF Run
  <2>5. At(v, ows, body_type, Size, w, p + 1, l) = At(v, ows, body_type, Size, w, c, l)
    BY <1>1, <2>3, <2>4, AtOws
  <2>6. ByteStep(v, x, {COLON}, ows, "skip") = At(v, ows, body_type, Size, w, p + 1, l)
    BY <1>1, <1>2, <1>4, SkipsAreLost DEF ByteStep, Moves, Gives
  <2>7. \A s : Moves(v, x, s, "skip", e - i) = At(v, s, body_type, Size, w, c, l)
    BY <1>2, <2>2, SkipsAreLost DEF Moves, Gives
  <2>8. CASE e = Len(buf)
    <3>1. After(v, w, p, l) = Moves(v, x, ows, "skip", e - i)
      BY <2>1, <2>8, AfterMoves DEF Plainly
    <3> QED
      BY <2>5, <2>6, <2>7, <3>1
  <2>9. CASE e < Len(buf)
    <3>1. Emit(value, "skip", e - i)
      <4>1. (IF e = Len(buf) THEN ows ELSE value) = value
        BY ONLY <1>1, <2>9, i \in Nat, e \in (i + 1)..Len(buf)
      <4> QED
        BY ONLY <2>1, <4>1
    <3>2. After(v, w, p, l) = Moves(v, x, value, "skip", e - i)
      BY <3>1, AfterMoves DEF Plainly, INSUFFICIENT
    <3>3. InkAt(v, c)
      <4>1. e + 1 - i \in 1..(Len(buf) - i) /\ p + (e + 1 - i) = c + 1 /\ i + (e + 1 - i) = e + 1
        BY <1>1, <2>2, <2>9
      <4>2. v[p + (e + 1 - i)] = buf[i + (e + 1 - i)]
        BY <1>0, <4>1
      <4>3. c < Len(v)
        BY <1>1, <2>2, <2>9
      <4> QED
        BY <2>1, <2>9, <4>1, <4>2, <4>3 DEF Run, InkAt
    <3>4. At(v, ows, body_type, Size, w, c, l) = At(v, value, body_type, Size, w, c, l)
      BY <1>1, <2>3, <3>3, AtInk
    <3> QED
      BY <2>5, <2>6, <2>7, <3>2, <3>4
  <2> QED
    BY <1>1, <2>8, <2>9
<1> QED
  BY <1>3, <1>4 DEF Colon

-----------------------------------------------------------------------------
(* The cases of next() that both readers share. *)

(* Whatever out holds, a view is decoded alike. *)
LEMMA DecodesAlike ==
    ASSUME NEW in, NEW a, NEW b, NEW max
    PROVE  /\ content_length_decode(in, a, max).result =
                  content_length_decode(in, b, max).result
           /\ content_length_decode(in, a, max).result = "ok" =>
                  content_length_decode(in, a, max).out = content_length_decode(in, b, max).out
           /\ chunk_size_decode(in, a, max).result = chunk_size_decode(in, b, max).result
           /\ chunk_size_decode(in, a, max).result = "ok" =>
                  chunk_size_decode(in, a, max).out = chunk_size_decode(in, b, max).out
BY DEF content_length_decode, chunk_size_decode, decode

(* A place where the value of a field starts. *)
LEMMA FieldValueSteps ==
    ASSUME NEW v, NEW p, NEW buf, NEW i, NEW n, Sees(v, p, buf, i, n), NEW w, NEW l,
           NEW x, Stands(x, v, w, p, l),
           x = At(v, "EXPECT_FIELD_VALUE", body_type, Size, w, p, l),
           state \in {"EXPECT_OWS_AFTER_COLON", "EXPECT_FIELD_VALUE"},
           FieldValue(buf, i, n)
    PROVE  After(v, w, p, l) = x \/ After(v, w, p, l) = DecodeStep(v, x)
<1>1. p \in Nat /\ i \in Nat /\ Len(buf) \in Nat /\ Len(v) \in Nat
  BY ONLY Sees(v, p, buf, i, n), SeesIs
<1>2. x.at = p /\ x.body_type = body_type /\ x.body_size = Size /\ x.memo = w
  BY DEF Stands
<1>3. SameSize("EXPECT_FIELD_VALUE") /\ SameSize("EXPECT_CRLF_AFTER_FIELD_VALUE")
  BY DEF SameSize, Size, Sized
<1> DEFINE done == "EXPECT_CRLF_AFTER_FIELD_VALUE"
           end == RunEnd(is_field_value_char, v, p)
<1>4. PICK e \in i..Len(buf) :
        /\ Run(is_field_value_char, buf, i, e)
        /\ \/ /\ e = Len(buf)
              /\ Suspend("EXPECT_FIELD_VALUE", n)
              /\ UNCHANGED framing
           \/ /\ e < Len(buf)
              /\ \E value \in {decode_field_value(View(buf, i, e))} :
                   \/ body_type = "READING_CONTENT_LENGTH"
                      /\ ContentLengthValue(value, e - i)
                   \/ body_type = "READING_ENCODING"
                      /\ TransferEncodingValue(value, e - i)
                   \/ /\ body_type \notin Reading
                      /\ Emit(done, "field_value", e - i)
                      /\ UNCHANGED framing
  BY DEF FieldValue
<1>5. CASE Suspend("EXPECT_FIELD_VALUE", n) /\ UNCHANGED framing
  BY <1>1, <1>3, <1>5, AfterWaits
<1>6. CASE e < Len(buf)
  <2>1. e - i \in Nat /\ i + (e - i) = e
    BY <1>1
  <2>2. MaxRun(is_field_value_char, buf, i, e - i)
    BY <1>1, <1>4, <1>6 DEF MaxRun, Run
  <2>3. /\ end = p + (e - i) /\ end - p = e - i /\ p + (e - i) < Len(v)
        /\ View(v, p, end) = View(buf, i, i + (e - i))
    BY <2>1, <2>2, RunIsSeen
  <2> DEFINE value == decode_field_value(View(buf, i, e))
             d == content_length_decode(value, 0, UintMax)
             c == content_length_decode(value, body_size, UintMax)
             res == decode_transfer_encoding(value)
             here(t, z) == Gives(v, x, done, t, z, w, "field_value", e - i)
  <2>4. DecodeStep(v, x) =
            IF body_type = "READING_CONTENT_LENGTH"
            THEN IF d.result = "ok" THEN here("CONTENT_LENGTH_READ", d.out)
                 ELSE Fails(x, IF d.result = "invalid" THEN "error_invalid_content_length"
                               ELSE "error_content_length_overflow")
            ELSE IF body_type = "READING_ENCODING"
            THEN IF res = "CHUNKED_INVALID"
                 THEN Fails(x, "error_invalid_transfer_encoding")
                 ELSE here(IF res = "CHUNKED_AT_END" THEN "CHUNKED_ENCODING_READ"
                           ELSE "RANDOM_ENCODING_READ", Size)
            ELSE here(body_type, Size)
    <3>1. end # Len(v)
      BY <1>1, <2>1, <2>3
    <3>2. View(v, p, end) = View(buf, i, e)
      BY <2>1, <2>3
    <3> QED
      BY <1>2, <2>3, <3>1, <3>2 DEF DecodeStep
  <2>5. c.result = d.result /\ (c.result = "ok" => c.out = d.out)
    BY DecodesAlike
  <2> HIDE DEF d, c, res, value
  <2>6. \/ body_type = "READING_CONTENT_LENGTH" /\ ContentLengthValue(value, e - i)
        \/ body_type = "READING_ENCODING" /\ TransferEncodingValue(value, e - i)
        \/ /\ body_type \notin Reading
           /\ Emit(done, "field_value", e - i)
           /\ UNCHANGED framing
    BY <1>1, <1>4, <1>6 DEF value
  <2>7. /\ "error_invalid_content_length" \in ErrorCode \ {INSUFFICIENT}
        /\ "error_content_length_overflow" \in ErrorCode \ {INSUFFICIENT}
        /\ "error_invalid_transfer_encoding" \in ErrorCode \ {INSUFFICIENT}
        /\ "field_value" # INSUFFICIENT
    BY DEF ErrorCode, INSUFFICIENT
  <2>8. ASSUME Emit(done, "field_value", e - i)
        PROVE  After(v, w, p, l) = here(body_type', Size')
    BY <2>7, <2>8, AfterGives
  <2>9. ASSUME NEW code \in ErrorCode \ {INSUFFICIENT}, Fail(code, e - i)
        PROVE  After(v, w, p, l) = Fails(x, code)
    BY <1>1, <2>9, AfterFails
  <2>10. CASE body_type = "READING_CONTENT_LENGTH" /\ ContentLengthValue(value, e - i)
    <3>1. /\ body_type' = "CONTENT_LENGTH_READ" /\ body_size' = c.out
          /\ \/ c.result = "ok" /\ Emit(done, "field_value", e - i)
             \/ c.result = "invalid" /\ Fail("error_invalid_content_length", e - i)
             \/ c.result = "overflow" /\ Fail("error_content_length_overflow", e - i)
      BY <2>10 DEF ContentLengthValue, c
    <3>2. Size' = c.out
      BY <3>1 DEF Size, Sized
    <3> HIDE DEF here
    <3> QED
      BY <2>4, <2>5, <2>7, <2>8, <2>9, <2>10, <3>1, <3>2
  <2>11. CASE body_type = "READING_ENCODING" /\ TransferEncodingValue(value, e - i)
    <3>1. \/ res = "CHUNKED_INVALID" /\ Fail("error_invalid_transfer_encoding", e - i)
          \/ /\ res # "CHUNKED_INVALID"
             /\ Emit(done, "field_value", e - i)
             /\ body_type' = IF res = "CHUNKED_AT_END" THEN "CHUNKED_ENCODING_READ"
                             ELSE "RANDOM_ENCODING_READ"
      BY <2>11 DEF TransferEncodingValue, res
    <3>2. CASE res = "CHUNKED_INVALID" /\ Fail("error_invalid_transfer_encoding", e - i)
      BY <2>4, <2>7, <2>9, <2>11, <3>2
    <3>3. CASE /\ res # "CHUNKED_INVALID"
               /\ Emit(done, "field_value", e - i)
               /\ body_type' = IF res = "CHUNKED_AT_END" THEN "CHUNKED_ENCODING_READ"
                               ELSE "RANDOM_ENCODING_READ"
      <4>1. Size' = 0 /\ Size = 0
        BY <2>11, <3>3 DEF Size, Sized, Emit
      <4> HIDE DEF here
      <4> QED
        BY <2>4, <2>8, <2>11, <3>3, <4>1
    <3> QED
      BY <3>1, <3>2, <3>3
  <2>12. CASE /\ body_type \notin Reading
              /\ Emit(done, "field_value", e - i)
              /\ UNCHANGED framing
    <3>1. body_type' = body_type /\ Size' = Size
      BY <1>3, <2>12 DEF framing, Emit, Size, SameSize
    <3> HIDE DEF here
    <3> QED
      BY <2>4, <2>8, <2>12, <3>1 DEF Reading
  <2> QED
    BY <2>6, <2>10, <2>11, <2>12
<1> QED
  BY <1>1, <1>4, <1>5, <1>6

(* The places from which SharedStep leads on. *)
SharedStates == InField \cup InChunks \cup InTrailers \cup {"EXPECT_CRLF_AFTER_FIELD_VALUE"}

(* The case leads from the place before it to the same or the next one. *)
Follows(first, none, v, w, p, l) ==
    \/ After(v, w, p, l) = Before(v, w, p, l)
    \/ /\ Before(v, w, p, l).state \in SharedStates
       /\ Before(v, w, p, l).at = p /\ Before(v, w, p, l).log = l
       /\ After(v, w, p, l) = SharedStep(first, none, v, Before(v, w, p, l))

(* A piece of OWS leads nowhere either. *)
LEMMA OwsFollows ==
    ASSUME NEW v, NEW p, NEW buf, NEW i, NEW n, Sees(v, p, buf, i, n), NEW w, NEW l,
           NEW first, NEW none, state \in OwsStates, NEW e \in i..Len(buf), e > i,
           Run(is_ows, buf, i, e), Emit(state, "skip", e - i), UNCHANGED framing
    PROVE  Follows(first, none, v, w, p, l)
<1>1. /\ v \in Seq(Byte) /\ p \in Nat /\ i \in Nat /\ Len(buf) \in Nat /\ Len(v) \in Nat
      /\ i < Len(buf) /\ p < Len(v) /\ Len(buf) - i <= Len(v) - p
  BY ONLY Sees(v, p, buf, i, n), SeesIs
<1>2. \A k \in 1..(Len(buf) - i) : v[p + k] = buf[i + k]
  BY ONLY Sees(v, p, buf, i, n), SeesIs
<1>3. PICK c : c = p + (e - i)
  OBVIOUS
<1>4. c \in p..Len(v) /\ p \in 0..Len(v)
  BY <1>1, <1>3
<1>5. ASSUME NEW k \in (p + 1)..c PROVE v[k] \in is_ows
  <2>1. k - p \in 1..(Len(buf) - i) /\ i + (k - p) \in (i + 1)..e /\ p + (k - p) = k
    BY <1>1, <1>3, <1>4
  <2>2. v[p + (k - p)] = buf[i + (k - p)]
    BY <1>2, <2>1
  <2> QED
    BY <2>1, <2>2 DEF Run
<1>6. At(v, state, body_type, Size, w, p, l) = At(v, state, body_type, Size, w, c, l)
  BY <1>1, <1>4, <1>5, AtOws
<1>7. state' = state /\ body_type' = body_type /\ Size' = Size /\ Gone' = e - i
      /\ code_' = "skip"
  BY DEF framing, Emit, Size, Gone, INSUFFICIENT, OwsStates
<1>8. After(v, w, p, l) = At(v, state, body_type, Size, w, c, l)
  BY <1>3, <1>7, SkipsAreLost DEF After
<1> QED
  BY <1>6, <1>8 DEF Follows, Before

LEMMA FieldFollows ==
    ASSUME NEW v, NEW p, NEW buf, NEW i, NEW n, Sees(v, p, buf, i, n), NEW w, NEW l,
           NEW first, NEW none, Ahead(n, buf, i), FieldCase(buf, i, n)
    PROVE  Follows(first, none, v, w, p, l)
<1>1. /\ v \in Seq(Byte) /\ p \in Nat /\ i \in Nat /\ Len(buf) \in Nat /\ Len(v) \in Nat
      /\ i < Len(buf) /\ p < Len(v) /\ v[p + 1] = buf[i + 1]
  BY ONLY Sees(v, p, buf, i, n), SeesIs
<1>3. PICK x : x = Before(v, w, p, l)
  OBVIOUS
<1>4. CASE ExpectColon(buf, i, n)
  <2>1. /\ state = "EXPECT_COLON" /\ UNCHANGED framing
        /\ Colon(buf, i, n, "EXPECT_OWS_AFTER_COLON", "EXPECT_FIELD_VALUE")
    BY <1>4 DEF ExpectColon
  <2>2. Decides(v, state, p)
    BY <2>1 DEF Decides, BodyStates, OwsStates
  <2>3. Stands(x, v, w, p, l) /\ x.state = "EXPECT_COLON"
    BY <1>3, <2>1, <2>2, DecidesStands
  <2>4. Plainly("EXPECT_OWS_AFTER_COLON", "skip") /\ SameSize("EXPECT_FIELD_VALUE")
    BY <2>1 DEF Plainly, SameSize, Size, Sized, INSUFFICIENT
  <2>5. After(v, w, p, l) = ByteStep(v, x, {COLON}, "EXPECT_OWS_AFTER_COLON", "skip")
    BY <2>1, <2>3, <2>4, ColonSteps DEF OwsStates
  <2> QED
    BY <1>3, <2>3, <2>5 DEF Follows, SharedStep, Stands, SharedStates, InField, InChunks, InTrailers
<1>5. CASE ExpectFieldValue(buf, i, n)
  <2>1. state = "EXPECT_FIELD_VALUE" /\ FieldValue(buf, i, n)
    BY <1>5 DEF ExpectFieldValue
  <2>2. Decides(v, state, p)
    BY <2>1 DEF Decides, BodyStates, OwsStates
  <2>3. Stands(x, v, w, p, l) /\ x.state = "EXPECT_FIELD_VALUE"
    BY <1>3, <2>1, <2>2, DecidesStands
  <2>4. x = At(v, "EXPECT_FIELD_VALUE", body_type, Size, w, p, l)
    BY <1>3, <2>1 DEF Before
  <2>5. After(v, w, p, l) = x \/ After(v, w, p, l) = DecodeStep(v, x)
    BY <2>1, <2>3, <2>4, FieldValueSteps
  <2> QED
    BY <1>3, <2>3, <2>5 DEF Follows, SharedStep, Stands, SharedStates, InField, InChunks, InTrailers
<1>6. CASE ExpectOwsAfterColon(buf, i, n)
  <2>1. PICK e \in i..Len(buf) :
         /\ state = "EXPECT_OWS_AFTER_COLON"
         /\ Run(is_ows, buf, i, e)
         /\ \/ e = i /\ FieldValue(buf, i, n)
            \/ e > i /\ Emit(state, "skip", e - i) /\ UNCHANGED framing
    BY <1>6 DEF ExpectOwsAfterColon
  <2>2. CASE e = i /\ FieldValue(buf, i, n)
    <3>1. InkAt(v, p)
      BY <1>1, <2>1, <2>2 DEF Run, InkAt
    <3>2. x = Spot("EXPECT_FIELD_VALUE", body_type, Size, w, p, l)
          /\ x = At(v, "EXPECT_FIELD_VALUE", body_type, Size, w, p, l)
      BY <1>1, <1>3, <2>1, <3>1, AtInk DEF Before, OwsStates
    <3>3. Stands(x, v, w, p, l) /\ x.state = "EXPECT_FIELD_VALUE"
      BY <1>3, <3>2, SpotStands
    <3>4. After(v, w, p, l) = x \/ After(v, w, p, l) = DecodeStep(v, x)
      BY <2>1, <2>2, <3>2, <3>3, FieldValueSteps
    <3> QED
      BY <1>3, <3>3, <3>4 DEF Follows, SharedStep, Stands, SharedStates, InField, InChunks, InTrailers
  <2>3. CASE e > i /\ Emit(state, "skip", e - i) /\ UNCHANGED framing
    BY <2>1, <2>3, OwsFollows DEF OwsStates
  <2> QED
    BY <2>1, <2>2, <2>3
<1>7. CASE ExpectCrlfAfterFieldValue(buf, i, n)
  <2>1. /\ state = "EXPECT_CRLF_AFTER_FIELD_VALUE" /\ UNCHANGED framing
        /\ LiberalCrlf(buf, i, n, "EXPECT_FIELD_NAME")
    BY <1>7 DEF ExpectCrlfAfterFieldValue
  <2>2. Decides(v, state, p)
    BY <2>1 DEF Decides, BodyStates, OwsStates
  <2>3. Stands(x, v, w, p, l) /\ x.state = "EXPECT_CRLF_AFTER_FIELD_VALUE"
    BY <1>3, <2>1, <2>2, DecidesStands
  <2>4. Plainly("EXPECT_FIELD_NAME", "skip")
    BY <2>1 DEF Plainly, SameSize, Size, Sized, INSUFFICIENT
  <2>5. After(v, w, p, l) = x \/ After(v, w, p, l) = LiberalStep(v, x, "EXPECT_FIELD_NAME")
    BY <2>1, <2>3, <2>4, LiberalCrlfSteps
  <2> QED
    BY <1>3, <2>3, <2>5 DEF Follows, SharedStep, Stands, SharedStates, InField, InChunks, InTrailers
<1> QED
  BY <1>4, <1>5, <1>6, <1>7 DEF FieldCase

(* A piece of a body leads nowhere: its end is known beforehand. *)
LEMMA BodyTokenFollows ==
    ASSUME NEW v, NEW p, NEW buf, NEW i, NEW n, Sees(v, p, buf, i, n), NEW w,
           NEW l \in Seq(Entry), NEW first, NEW none, NEW s,
           state \in {"EXPECT_BODY", "EXPECT_CHUNK_DATA"},
           s = BodyEnd(state),
           body_size \in Uint, Suitable(state), BodyToken(buf, i, s), UNCHANGED body_type
    PROVE  Follows(first, none, v, w, p, l)
<1>1. /\ v \in Seq(Byte) /\ buf \in Seq(Byte) /\ p \in Nat /\ i \in Nat
      /\ Len(buf) \in Nat /\ Len(v) \in Nat /\ i < Len(buf) /\ p \in 0..Len(v)
      /\ Len(buf) - i <= Len(v) - p
  BY ONLY Sees(v, p, buf, i, n), SeesIs
<1>2. body_size > 0 /\ Sized(state, body_type) /\ s # state /\ s # "ERRORED"
  BY DEF Suitable, BodySuits, Sized, BodyEnd
<1>3. i <= Len(buf) /\ i # Len(buf) /\ body_size \in Nat /\ UintMax \in Nat
  BY <1>1, UintMaxAssumption DEF Uint
<1>4. /\ code_' = "body_chunk"
      /\ token_size_' \in 1..body_size
      /\ body_size' = body_size - token_size_'
      /\ state' = IF body_size' = 0 THEN s ELSE state
  BY <1>1, <1>2, <1>3, BodyTokenEnds
<1>5. i + token_size_' <= Len(buf)
  BY <1>1, <1>2, <1>3, BodyTokenOutcome
<1>6. PICK k \in 1..body_size : k = token_size_'
  BY <1>4
<1>7. k \in Nat /\ p + k <= Len(v) /\ body_size - k \in Nat
  <2>1. i + k <= Len(buf)
    BY <1>5, <1>6
  <2> QED
    BY ONLY <1>1, <1>3, <2>1, k \in 1..body_size
<1>8. Gone' = k /\ body_size' = body_size - k /\ (body_size' = 0 <=> k = body_size)
  <2>1. Gone' = k
    BY <1>2, <1>4, <1>6 DEF Gone, INSUFFICIENT
  <2>2. body_size' = body_size - k
    BY <1>4, <1>6
  <2>3. body_size - k = 0 <=> k = body_size
    BY <1>3, <1>7
  <2> QED
    BY <2>1, <2>2, <2>3
<1>9. Size = body_size /\ Size' = body_size - k
      /\ state' = IF k = body_size THEN s ELSE state
  <2>1. Size = body_size
    BY <1>2 DEF Size
  <2>2. CASE k = body_size
    BY <1>3, <1>4, <1>8, <2>1, <2>2 DEF Size
  <2>3. CASE k # body_size
    <3>1. state' = state
      BY <1>4, <1>8, <2>3
    <3>2. Size' = body_size'
      BY <1>2, <3>1 DEF Size
    <3> QED
      BY <1>8, <2>1, <2>3, <3>1, <3>2
  <2> QED
    BY <2>2, <2>3
<1>10. At(v, state, body_type, body_size, w, p, l) =
          At(v, IF k = body_size THEN s ELSE state, body_type, body_size - k, w, p + k,
             Record(l, "body_chunk", p, p + k))
  <2>1. /\ v \in Seq(Byte) /\ state \in {"EXPECT_BODY", "EXPECT_CHUNK_DATA"}
        /\ body_size \in Nat /\ p \in 0..Len(v) /\ l \in Seq(Entry)
        /\ k \in 1..body_size /\ p + k <= Len(v) /\ s = BodyEnd(state)
    BY <1>1, <1>3, <1>7
  <2>2. At(v, state, body_type, body_size, w, p, l) =
           AtRest(v, state, body_type, body_size, w, p, l, k)
    BY ONLY <2>1, AtBody
  <2> QED
    BY <2>2 DEF AtRest
<1>11. After(v, w, p, l) = Before(v, w, p, l)
  BY <1>4, <1>6, <1>8, <1>9, <1>10 DEF After, Before
<1> QED
  BY <1>11 DEF Follows

LEMMA BodyFollows ==
    ASSUME NEW v, NEW p, NEW buf, NEW i, NEW n, Sees(v, p, buf, i, n), NEW w,
           NEW l \in Seq(Entry), NEW first, NEW none,
           body_size \in Uint, Suitable(state), ExpectBody(buf, i, n)
    PROVE  Follows(first, none, v, w, p, l)
<1>1. state = "EXPECT_BODY" /\ BodyToken(buf, i, "EXPECT_END_OF_BODY") /\ UNCHANGED body_type
  BY DEF ExpectBody
<1> QED
  BY <1>1, BodyTokenFollows DEF BodyEnd

LEMMA ChunkSizeSteps ==
    ASSUME NEW v, NEW p, NEW buf, NEW i, NEW n, Sees(v, p, buf, i, n), NEW w, NEW l,
           NEW x, Stands(x, v, w, p, l), ExpectChunkSize(buf, i, n)
    PROVE  After(v, w, p, l) = x \/ After(v, w, p, l) = ChunkSizeStep(v, x)
<1>1. p \in Nat /\ i \in Nat /\ Len(buf) \in Nat /\ Len(v) \in Nat /\ i < Len(buf)
      /\ v[p + 1] = buf[i + 1]
  BY ONLY Sees(v, p, buf, i, n), SeesIs
<1>2. x.at = p /\ x.body_type = body_type /\ x.memo = w /\ x = Before(v, w, p, l)
  BY DEF Stands
<1>3. PICK e \in i..Len(buf) :
         LET d == chunk_size_decode(View(buf, i, e), body_size, UintMax) IN
         /\ Run(is_hexdigit, buf, i, e)
         /\ \/ e = i /\ Fail("error_invalid_data", n) /\ UNCHANGED body_size
            \/ e > i /\ e = Len(buf) /\ Suspend(state, n) /\ UNCHANGED body_size
            \/ /\ e > i /\ e < Len(buf)
               /\ body_size' = d.out
               /\ \/ d.result = "ok" /\ Emit("EXPECT_CHUNK_EXT", "skip", e - i)
                  \/ d.result # "ok"
                     /\ Fail(IF d.result = "overflow" THEN "error_chunk_size_overflow"
                             ELSE "error_invalid_data", n)
  BY DEF ExpectChunkSize
<1>4. state = "EXPECT_CHUNK_SIZE" /\ body_type' = body_type
  BY DEF ExpectChunkSize
<1>5. CASE e = i /\ Fail("error_invalid_data", n)
  <2>1. v[p + 1] \notin is_hexdigit
    BY <1>1, <1>3, <1>5 DEF Run
  <2>2. After(v, w, p, l) = Fails(x, "error_invalid_data")
    BY <1>1, <1>5, AfterFails, InvalidData
  <2> QED
    BY <1>2, <2>1, <2>2 DEF ChunkSizeStep
<1>6. CASE e = Len(buf) /\ Suspend(state, n) /\ UNCHANGED body_size
  BY <1>1, <1>2, <1>4, <1>6, AfterStays DEF framing
<1>7. CASE e > i /\ e < Len(buf)
  <2> DEFINE end == RunEnd(is_hexdigit, v, p)
             c == chunk_size_decode(View(buf, i, e), body_size, UintMax)
             d == chunk_size_decode(View(buf, i, e), 0, UintMax)
  <2>1. e - i \in Nat /\ i + (e - i) = e
    BY <1>1
  <2>2. MaxRun(is_hexdigit, buf, i, e - i)
    BY <1>1, <1>3, <1>7 DEF MaxRun, Run
  <2>3. /\ end = p + (e - i) /\ end - p = e - i /\ p + (e - i) < Len(v)
        /\ View(v, p, end) = View(buf, i, i + (e - i))
    BY <2>1, <2>2, RunIsSeen
  <2>4. v[p + 1] \in is_hexdigit
    BY <1>1, <1>3, <1>7 DEF Run
  <2>5. ChunkSizeStep(v, x) =
           IF d.result = "ok"
           THEN Gives(v, x, "EXPECT_CHUNK_EXT", body_type, d.out, w, "skip", e - i)
           ELSE Fails(x, IF d.result = "overflow" THEN "error_chunk_size_overflow"
                         ELSE "error_invalid_data")
    <3>1. end # Len(v)
      BY <1>1, <2>1, <2>3
    <3>2. View(v, p, end) = View(buf, i, e)
      BY <2>1, <2>3
    <3> QED
      BY <1>2, <2>3, <2>4, <3>1, <3>2 DEF ChunkSizeStep
  <2>6. c.result = d.result /\ (c.result = "ok" => c.out = d.out)
    BY DecodesAlike
  <2>7. /\ body_size' = c.out
        /\ \/ c.result = "ok" /\ Emit("EXPECT_CHUNK_EXT", "skip", e - i)
           \/ c.result # "ok"
              /\ Fail(IF c.result = "overflow" THEN "error_chunk_size_overflow"
                      ELSE "error_invalid_data", n)
    BY <1>1, <1>3, <1>7
  <2> HIDE DEF c, d, end
  <2>8. CASE c.result = "ok" /\ Emit("EXPECT_CHUNK_EXT", "skip", e - i)
    <3>1. Size' = d.out
      BY <2>6, <2>7, <2>8 DEF Size, Sized, Emit
    <3>2. "EXPECT_CHUNK_EXT" # "ERRORED" /\ "skip" # INSUFFICIENT
      BY DEF INSUFFICIENT
    <3>3. After(v, w, p, l) =
             Gives(v, x, "EXPECT_CHUNK_EXT", body_type', Size', w, "skip", e - i)
      BY <2>8, <3>2, AfterGives
    <3> QED
      BY <1>4, <2>5, <2>6, <2>8, <3>1, <3>3
  <2>9. ASSUME c.result # "ok",
               Fail(IF c.result = "overflow" THEN "error_chunk_size_overflow"
                    ELSE "error_invalid_data", n)
        PROVE  After(v, w, p, l) = ChunkSizeStep(v, x)
    <3>1. PICK code \in ErrorCode \ {INSUFFICIENT} :
             code = IF c.result = "overflow" THEN "error_chunk_size_overflow"
                    ELSE "error_invalid_data"
      BY DEF ErrorCode, INSUFFICIENT
    <3>2. After(v, w, p, l) = Fails(x, code)
      BY <1>1, <2>9, <3>1, AfterFails
    <3> QED
      BY <2>5, <2>6, <2>9, <3>1, <3>2
  <2> QED
    BY <2>7, <2>8, <2>9
<1> QED
  BY <1>1, <1>3, <1>5, <1>6, <1>7

(* The line end of a chunk size, read in either of the two states. *)
LEMMA ChunkLineSteps ==
    ASSUME NEW v, NEW p, NEW buf, NEW i, NEW n, Sees(v, p, buf, i, n), NEW w, NEW l,
           NEW x, Stands(x, v, w, p, l), NEW first, NEW none,
           x = Spot("EXPEXT_CRLF_AFTER_CHUNK_EXT", body_type, Size, w, p, l),
           state \in {"EXPECT_CHUNK_EXT", "EXPEXT_CRLF_AFTER_CHUNK_EXT"},
           CrlfAfterChunkExt(buf, i, n), UNCHANGED framing
    PROVE  After(v, w, p, l) = x \/ After(v, w, p, l) = SharedStep(first, none, v, x)
<1> DEFINE here == "EXPEXT_CRLF_AFTER_CHUNK_EXT"
<1>1. Size = body_size /\ SameSize(here)
  BY DEF Size, Sized, SameSize
<1>2. x.state = here /\ x.body_size = body_size /\ x.body_type = body_type
  BY <1>1, SpotIs
<1>3. Decides(v, here, p)
  BY DEF Decides, BodyStates, OwsStates
<1>4. x = At(v, here, body_type, Size, w, p, l)
  BY <1>3, AtDecides
<1>5. PICK s : s = IF body_size # 0 THEN "EXPECT_CHUNK_DATA" ELSE "EXPECT_TRAILER_NAME"
  OBVIOUS
<1>6. PICK code : code = IF body_size # 0 THEN "skip" ELSE "end_of_body"
  OBVIOUS
<1>7. StrictCrlf(buf, i, n, here, s, code)
  BY <1>5, <1>6 DEF CrlfAfterChunkExt
<1>8. /\ here # "ERRORED" /\ s # "ERRORED" /\ code # INSUFFICIENT
      /\ body_size' = body_size /\ body_type' = IF code_' = code THEN body_type ELSE body_type
  BY <1>5, <1>6 DEF framing, INSUFFICIENT
<1>9. (IF Sized(s, body_type) THEN body_size ELSE 0) = Size
  BY <1>1, <1>5 DEF Sized
<1> HIDE DEF here
<1>10. After(v, w, p, l) = x \/ After(v, w, p, l) = StrictStep(v, x, s, body_type, code)
  BY <1>1, <1>4, <1>7, <1>8, <1>9, StrictCrlfSteps
<1>11. SharedStep(first, none, v, x) = StrictStep(v, x, s, body_type, code)
  BY <1>2, <1>5, <1>6 DEF SharedStep, here
<1> QED
  BY <1>10, <1>11

LEMMA ChunkExtFollows ==
    ASSUME NEW v, NEW p, NEW buf, NEW i, NEW n, Sees(v, p, buf, i, n), NEW w, NEW l,
           NEW first, NEW none, Ahead(n, buf, i), ExpectChunkExt(buf, i, n)
    PROVE  Follows(first, none, v, w, p, l)
<1>1. /\ v \in Seq(Byte) /\ p \in Nat /\ i \in Nat /\ n \in Nat /\ Len(buf) \in Nat
      /\ Len(v) \in Nat /\ i < Len(buf) /\ i + n <= Len(buf) /\ p < Len(v)
      /\ v[p + 1] = buf[i + 1]
  BY ONLY Sees(v, p, buf, i, n), SeesIs
<1>2. state = "EXPECT_CHUNK_EXT" /\ UNCHANGED framing
  BY DEF ExpectChunkExt
<1>3. \A k \in 1..n : buf[i + k] \in is_chunk_ext_char
  BY <1>2 DEF Ahead, Scanned
<1>4. PICK e \in (i + n)..Len(buf) :
         /\ Run(is_chunk_ext_char, buf, i + n, e)
         /\ \/ e = Len(buf) /\ Suspend(state, e - i)
            \/ e < Len(buf) /\ buf[e + 1] # CR /\ Fail("error_invalid_data", n)
            \/ e < Len(buf) /\ buf[e + 1] = CR /\ e = i /\ CrlfAfterChunkExt(buf, i, 0)
            \/ /\ e < Len(buf) /\ buf[e + 1] = CR /\ e > i
               /\ Emit("EXPEXT_CRLF_AFTER_CHUNK_EXT", "chunk_ext", e - i)
  BY DEF ExpectChunkExt
<1>5. ASSUME NEW k \in 1..(e - i) PROVE buf[i + k] \in is_chunk_ext_char
  <2>1. CASE k <= n
    <3>1. k \in 1..n
      BY <1>1, <2>1
    <3> QED
      BY <1>3, <3>1
  <2>2. CASE k > n
    <3>1. \A j \in (i + n + 1)..e : buf[j] \in is_chunk_ext_char
      BY <1>4 DEF Run
    <3>2. i + k \in (i + n + 1)..e
      BY <1>1, <2>2
    <3> QED
      BY <3>1, <3>2
  <2> QED
    BY <1>1, <2>1, <2>2
<1>6. PICK x : x = Before(v, w, p, l)
  OBVIOUS
<1>7. CASE v[p + 1] = CR
  <2>1. e = i /\ n = 0
    <3>1. CR \notin is_chunk_ext_char
      BY DEF is_chunk_ext_char, is_tchar, isalnum, isalpha, isdigit, is_obs_text, is_vchar, CR
    <3>2. ~(1 \in 1..(e - i))
      BY <1>1, <1>5, <1>7, <3>1
    <3> QED
      BY <1>1, <3>2
  <2>2. CrlfAfterChunkExt(buf, i, 0)
    <3>1. e < Len(buf) /\ ~(e > i) /\ e # Len(buf)
      BY ONLY <1>1, <2>1
    <3>2. buf[e + 1] = CR
      BY ONLY <1>1, <1>7, <2>1
    <3> QED
      BY ONLY <1>4, <3>1, <3>2
  <2>3. x = Spot("EXPEXT_CRLF_AFTER_CHUNK_EXT", body_type, Size, w, p, l)
    BY <1>1, <1>2, <1>6, <1>7 DEF Before, At
  <2>4. Stands(x, v, w, p, l) /\ x.state = "EXPEXT_CRLF_AFTER_CHUNK_EXT"
    BY <1>6, <2>3, SpotStands
  <2>5. After(v, w, p, l) = x \/ After(v, w, p, l) = SharedStep(first, none, v, x)
    BY <1>2, <2>1, <2>2, <2>3, <2>4, ChunkLineSteps
  <2> QED
    BY <1>6, <2>4, <2>5 DEF Follows, Stands, SharedStates, InField, InChunks, InTrailers
<1>8. CASE v[p + 1] # CR
  <2>1. Decides(v, state, p)
    BY <1>2, <1>8 DEF Decides, BodyStates, OwsStates
  <2>2. Stands(x, v, w, p, l) /\ x.state = "EXPECT_CHUNK_EXT"
    BY <1>2, <1>6, <2>1, DecidesStands
  <2>3. CASE Suspend(state, e - i)
    BY <1>1, <1>2, <2>3, AfterStays DEF Follows
  <2>4. CASE e < Len(buf)
    <3> DEFINE end == RunEnd(is_chunk_ext_char, v, p)
    <3>1. e - i \in Nat /\ i + (e - i) = e
      BY <1>1
    <3>2. MaxRun(is_chunk_ext_char, buf, i, e - i)
      <4>1. buf[e + 1] \notin is_chunk_ext_char
        BY <1>4, <2>4 DEF Run
      <4> QED
        BY ONLY <1>5, <2>4, <3>1, <4>1 DEF MaxRun
    <3>3. /\ end = p + (e - i) /\ end - p = e - i /\ p + (e - i) < Len(v)
          /\ v[p + (e - i) + 1] = buf[i + (e - i) + 1]
      BY <3>1, <3>2, RunIsSeen
    <3>4. end # Len(v) /\ v[end + 1] = buf[e + 1]
      <4> HIDE DEF end
      <4>0. p \in Nat
        BY <1>1
      <4>1. p + (e - i) \in Nat
        BY ONLY <3>1, <4>0
      <4>2. buf[i + (e - i) + 1] = buf[e + 1]
        BY ONLY <3>1
      <4>3. PICK q \in Nat : q = p + (e - i)
        BY ONLY <4>1
      <4>4. end = q /\ q < Len(v) /\ v[q + 1] = buf[e + 1]
        BY ONLY <3>3, <4>2, <4>3
      <4>5. Len(v) \in Nat
        BY <1>1
      <4> QED
        BY <4>4, <4>5
    <3>5. ChunkExtStep(v, x) =
             IF buf[e + 1] # CR THEN Fails(x, "error_invalid_data")
             ELSE Moves(v, x, "EXPEXT_CRLF_AFTER_CHUNK_EXT", "chunk_ext", e - i)
      BY <2>2, <3>3, <3>4 DEF ChunkExtStep, Stands
    <3>6. SharedStep(first, none, v, x) = ChunkExtStep(v, x)
      BY <2>2 DEF SharedStep
    <3> HIDE DEF end
    <3>7. CASE buf[e + 1] # CR /\ Fail("error_invalid_data", n)
      <4>1. After(v, w, p, l) = Fails(x, "error_invalid_data")
        BY <1>1, <2>2, <3>7, AfterFails, InvalidData
      <4> QED
        BY <1>6, <2>2, <3>5, <3>6, <3>7, <4>1 DEF Follows, Stands, SharedStates, InField, InChunks, InTrailers
    <3>8. CASE buf[e + 1] = CR /\ Emit("EXPEXT_CRLF_AFTER_CHUNK_EXT", "chunk_ext", e - i)
      <4>1. SameSize("EXPEXT_CRLF_AFTER_CHUNK_EXT") /\ "chunk_ext" # INSUFFICIENT
        BY <1>2 DEF SameSize, Size, Sized, INSUFFICIENT
      <4>2. After(v, w, p, l) =
               Moves(v, x, "EXPEXT_CRLF_AFTER_CHUNK_EXT", "chunk_ext", e - i)
        BY <1>2, <2>2, <3>8, <4>1, AfterMoves
      <4> QED
        BY <1>6, <2>2, <3>5, <3>6, <3>8, <4>2 DEF Follows, Stands, SharedStates, InField, InChunks, InTrailers
    <3> QED
      BY <1>1, <1>4, <1>8, <2>4, <3>7, <3>8
  <2> QED
    BY <1>1, <1>4, <2>3, <2>4
<1> QED
  BY <1>7, <1>8

(* A line end that is waited for and read in the same state. *)
LEMMA LineFollows ==
    ASSUME NEW v, NEW p, NEW buf, NEW i, NEW n, Sees(v, p, buf, i, n), NEW w, NEW l,
           NEW first, NEW none, NEW s, SameSize(s), s # "ERRORED", UNCHANGED framing,
           NEW x, Stands(x, v, w, p, l), x.state = state, Decides(v, state, p),
           state \in SharedStates,
           StrictCrlf(buf, i, n, state, s, "skip"),
           SharedStep(first, none, v, x) = StrictStep(v, x, s, body_type, "skip")
    PROVE  Follows(first, none, v, w, p, l)
<1>1. state # "ERRORED" /\ SameSize(state)
  BY DEF Decides, SameSize, Size
<1>2. x = At(v, state, body_type, Size, w, p, l)
  BY DEF Stands, Before
<1>3. /\ "skip" # INSUFFICIENT /\ body_size' = body_size
      /\ body_type' = IF code_' = "skip" THEN body_type ELSE body_type
  BY DEF framing, INSUFFICIENT
<1>4. (IF Sized(s, body_type) THEN body_size ELSE 0) = Size
  BY DEF SameSize
<1>5. After(v, w, p, l) = x \/ After(v, w, p, l) = StrictStep(v, x, s, body_type, "skip")
  BY <1>1, <1>2, <1>3, <1>4, StrictCrlfSteps
<1> QED
  BY <1>5 DEF Follows, Stands

LEMMA ChunkFollows ==
    ASSUME NEW v, NEW p, NEW buf, NEW i, NEW n, Sees(v, p, buf, i, n), NEW w,
           NEW l \in Seq(Entry), NEW first, NEW none,
           body_size \in Uint, Suitable(state), Ahead(n, buf, i), ChunkCase(buf, i, n)
    PROVE  Follows(first, none, v, w, p, l)
<1>1. PICK x : x = Before(v, w, p, l)
  OBVIOUS
<1>2. CASE ExpectChunkSize(buf, i, n)
  <2>1. state = "EXPECT_CHUNK_SIZE"
    BY <1>2 DEF ExpectChunkSize
  <2>2. Decides(v, state, p)
    BY <2>1 DEF Decides, BodyStates, OwsStates
  <2>3. Stands(x, v, w, p, l) /\ x.state = "EXPECT_CHUNK_SIZE"
    BY <1>1, <2>1, <2>2, DecidesStands
  <2>4. After(v, w, p, l) = x \/ After(v, w, p, l) = ChunkSizeStep(v, x)
    BY <1>2, <2>3, ChunkSizeSteps
  <2> QED
    BY <1>1, <2>3, <2>4 DEF Follows, SharedStep, Stands, SharedStates, InField, InChunks, InTrailers
<1>3. CASE ExpectChunkExt(buf, i, n)
  BY <1>3, ChunkExtFollows
<1>4. CASE ExpectCrlfAfterChunkExt(buf, i, n)
  <2>1. state = "EXPEXT_CRLF_AFTER_CHUNK_EXT" /\ CrlfAfterChunkExt(buf, i, n)
        /\ UNCHANGED framing
    BY <1>4 DEF ExpectCrlfAfterChunkExt
  <2>2. Decides(v, state, p)
    BY <2>1 DEF Decides, BodyStates, OwsStates
  <2>3. Stands(x, v, w, p, l) /\ x.state = state
    BY <1>1, <2>2, DecidesStands
  <2>4. x = Spot("EXPEXT_CRLF_AFTER_CHUNK_EXT", body_type, Size, w, p, l)
    BY <1>1, <2>1, <2>2, AtDecides DEF Before
  <2>5. After(v, w, p, l) = x \/ After(v, w, p, l) = SharedStep(first, none, v, x)
    BY <2>1, <2>3, <2>4, ChunkLineSteps
  <2> QED
    BY <1>1, <2>1, <2>3, <2>5 DEF Follows, Stands, SharedStates, InField, InChunks, InTrailers
<1>5. CASE ExpectChunkData(buf, i, n)
  <2>1. state = "EXPECT_CHUNK_DATA" /\ BodyToken(buf, i, "EXPECT_CRLF_AFTER_CHUNK_DATA")
        /\ UNCHANGED body_type
    BY <1>5 DEF ExpectChunkData
  <2> QED
    BY <2>1, BodyTokenFollows DEF BodyEnd
<1>6. CASE ExpectCrlfAfterChunkData(buf, i, n)
  <2>1. /\ state = "EXPECT_CRLF_AFTER_CHUNK_DATA" /\ UNCHANGED framing
        /\ StrictCrlf(buf, i, n, state, "EXPECT_CHUNK_SIZE", "skip")
    BY <1>6 DEF ExpectCrlfAfterChunkData
  <2>2. Decides(v, state, p)
    BY <2>1 DEF Decides, BodyStates, OwsStates
  <2>3. Stands(x, v, w, p, l) /\ x.state = state
    BY <1>1, <2>2, DecidesStands
  <2>4. SameSize("EXPECT_CHUNK_SIZE")
    BY <2>1 DEF SameSize, Size, Sized
  <2>5. SharedStep(first, none, v, x) =
           StrictStep(v, x, "EXPECT_CHUNK_SIZE", body_type, "skip")
    BY <2>1, <2>3 DEF SharedStep, Stands
  <2> QED
    BY <2>1, <2>2, <2>3, <2>4, <2>5, LineFollows DEF SharedStates, InChunks, InTrailers
<1> QED
  BY <1>2, <1>3, <1>4, <1>5, <1>6 DEF ChunkCase

(* The empty line behind the trailers, read in either of the two states. *)
LEMMA TrailersEndFollows ==
    ASSUME NEW v, NEW p, NEW buf, NEW i, NEW n, Sees(v, p, buf, i, n), NEW w, NEW l,
           NEW first, NEW none, ~Sized(first, none), first # "ERRORED",
           Before(v, w, p, l) = Spot("EXPECT_CRLF_AFTER_TRAILERS", body_type, Size, w, p, l),
           state \in {"EXPECT_TRAILER_NAME", "EXPECT_CRLF_AFTER_TRAILERS"},
           Suitable(state), CrlfAfterTrailers(buf, i, n, first, none)
    PROVE  Follows(first, none, v, w, p, l)
<1> DEFINE here == "EXPECT_CRLF_AFTER_TRAILERS"
<1>1. PICK x : x = Before(v, w, p, l)
  OBVIOUS
<1>2. Size = 0 /\ SameSize(here)
  BY DEF Size, Sized, SameSize, Suitable, BodySuits, InTrailers
<1>3. Stands(x, v, w, p, l) /\ x.state = here
  BY <1>1, SpotStands
<1>4. Decides(v, here, p)
  BY DEF Decides, BodyStates, OwsStates
<1>5. x = At(v, here, body_type, Size, w, p, l)
  BY <1>1, <1>4, AtDecides
<1>6. /\ StrictCrlf(buf, i, n, here, first, "end_of_message")
      /\ body_type' = IF code_' = "end_of_message" THEN none ELSE body_type
      /\ body_size' = body_size
  BY DEF CrlfAfterTrailers
<1>7. here # "ERRORED" /\ "end_of_message" # INSUFFICIENT
  BY DEF INSUFFICIENT
<1>8. (IF Sized(first, none) THEN body_size ELSE 0) = Size
  BY <1>2
<1> HIDE DEF here
<1>9. \/ After(v, w, p, l) = x
      \/ After(v, w, p, l) = StrictStep(v, x, first, none, "end_of_message")
  BY <1>2, <1>3, <1>5, <1>6, <1>7, <1>8, StrictCrlfSteps
<1>10. SharedStep(first, none, v, x) = StrictStep(v, x, first, none, "end_of_message")
  BY <1>3 DEF SharedStep, here
<1> QED
  BY <1>1, <1>3, <1>9, <1>10 DEF Follows, Stands, SharedStates, InField, InChunks, InTrailers, here

(* A place where the value of a trailer starts. *)
LEMMA TrailerValueFollows ==
    ASSUME NEW v, NEW p, NEW buf, NEW i, NEW n, Sees(v, p, buf, i, n), NEW w, NEW l,
           NEW first, NEW none,
           Before(v, w, p, l) = Spot("EXPECT_TRAILER_VALUE", body_type, Size, w, p, l),
           state \in {"EXPECT_OWS_AFTER_TRAILER_COLON", "EXPECT_TRAILER_VALUE"},
           TrailerValue(buf, i, n), UNCHANGED framing
    PROVE  Follows(first, none, v, w, p, l)
<1> DEFINE here == "EXPECT_TRAILER_VALUE"
           s == "EXPECT_CRLF_AFTER_TRAILER_VALUE"
<1>1. PICK x : x = Before(v, w, p, l)
  OBVIOUS
<1>2. Stands(x, v, w, p, l) /\ x.state = here
  BY <1>1, SpotStands
<1>3. Decides(v, here, p)
  BY DEF Decides, BodyStates, OwsStates
<1>4. x = At(v, here, body_type, Size, w, p, l)
  BY <1>1, <1>3, AtDecides
<1>5. SameSize(here) /\ Plainly(s, "trailer_value") /\ here # "ERRORED"
  BY DEF SameSize, Size, Sized, Plainly, INSUFFICIENT
<1>6. RescanToken(is_field_value_char, buf, i, n, here, s, "trailer_value")
  BY DEF TrailerValue
<1>7. SharedStep(first, none, v, x) = RunStep(v, x, is_field_value_char, s, "trailer_value")
  BY <1>2 DEF SharedStep
<1> HIDE DEF here, s
<1>8. \/ After(v, w, p, l) = x
      \/ After(v, w, p, l) = RunStep(v, x, is_field_value_char, s, "trailer_value")
  BY <1>2, <1>4, <1>5, <1>6, RescanTokenSteps
<1> QED
  BY <1>1, <1>2, <1>7, <1>8 DEF Follows, Stands, SharedStates, InField, InChunks, InTrailers, here

LEMMA TrailerFollows ==
    ASSUME NEW v, NEW p, NEW buf, NEW i, NEW n, Sees(v, p, buf, i, n), NEW w, NEW l,
           NEW first, NEW none, ~Sized(first, none), first # "ERRORED",
           Suitable(state), TrailerCase(buf, i, n, first, none)
    PROVE  Follows(first, none, v, w, p, l)
<1>1. /\ v \in Seq(Byte) /\ p \in Nat /\ i \in Nat /\ Len(buf) \in Nat /\ Len(v) \in Nat
      /\ i < Len(buf) /\ p < Len(v) /\ v[p + 1] = buf[i + 1]
  BY ONLY Sees(v, p, buf, i, n), SeesIs
<1>2. PICK x : x = Before(v, w, p, l)
  OBVIOUS
<1>3. CASE ExpectTrailerName(buf, i, n, first, none)
  <2>1. state = "EXPECT_TRAILER_NAME"
    BY <1>3 DEF ExpectTrailerName
  <2>2. CASE v[p + 1] \notin is_tchar
    <3>1. CrlfAfterTrailers(buf, i, n, first, none)
      BY <1>1, <1>3, <2>2 DEF ExpectTrailerName
    <3>2. Before(v, w, p, l) =
             Spot("EXPECT_CRLF_AFTER_TRAILERS", body_type, Size, w, p, l)
      BY <1>1, <2>1, <2>2 DEF Before, At
    <3> QED
      BY <2>1, <3>1, <3>2, TrailersEndFollows
  <2>3. CASE v[p + 1] \in is_tchar
    <3>1. /\ RescanToken(is_tchar, buf, i, n, state, "EXPECT_TRAILER_COLON", "trailer_name")
          /\ UNCHANGED framing
      BY <1>1, <1>3, <2>3 DEF ExpectTrailerName
    <3>2. Decides(v, state, p)
      BY <2>1, <2>3 DEF Decides, BodyStates, OwsStates
    <3>3. Stands(x, v, w, p, l) /\ x.state = "EXPECT_TRAILER_NAME"
      BY <1>2, <2>1, <3>2, DecidesStands
    <3>4. Plainly("EXPECT_TRAILER_COLON", "trailer_name") /\ SameSize(state)
          /\ state # "ERRORED"
      BY <2>1, <3>1 DEF SameSize, Size, Sized, Plainly, INSUFFICIENT
    <3>5. x = At(v, state, body_type, Size, w, p, l)
      BY <1>2 DEF Before
    <3>6. \/ After(v, w, p, l) = x
          \/ After(v, w, p, l) =
                RunStep(v, x, is_tchar, "EXPECT_TRAILER_COLON", "trailer_name")
      BY <3>1, <3>3, <3>4, <3>5, RescanTokenSteps
    <3> QED
      BY <1>2, <3>3, <3>6 DEF Follows, SharedStep, Stands, SharedStates, InField, InChunks, InTrailers
  <2> QED
    BY <2>2, <2>3
<1>4. CASE ExpectTrailerColon(buf, i, n)
  <2>1. /\ state = "EXPECT_TRAILER_COLON" /\ UNCHANGED framing
        /\ Colon(buf, i, n, "EXPECT_OWS_AFTER_TRAILER_COLON", "EXPECT_TRAILER_VALUE")
    BY <1>4 DEF ExpectTrailerColon
  <2>2. Decides(v, state, p)
    BY <2>1 DEF Decides, BodyStates, OwsStates
  <2>3. Stands(x, v, w, p, l) /\ x.state = "EXPECT_TRAILER_COLON"
    BY <1>2, <2>1, <2>2, DecidesStands
  <2>4. /\ Plainly("EXPECT_OWS_AFTER_TRAILER_COLON", "skip")
        /\ SameSize("EXPECT_TRAILER_VALUE")
    BY <2>1 DEF Plainly, SameSize, Size, Sized, INSUFFICIENT
  <2>5. After(v, w, p, l) =
           ByteStep(v, x, {COLON}, "EXPECT_OWS_AFTER_TRAILER_COLON", "skip")
    BY <2>1, <2>3, <2>4, ColonSteps DEF OwsStates
  <2> QED
    BY <1>2, <2>3, <2>5 DEF Follows, SharedStep, Stands, SharedStates, InField, InChunks, InTrailers
<1>5. CASE ExpectOwsAfterTrailerColon(buf, i, n)
  <2>1. PICK e \in i..Len(buf) :
         /\ state = "EXPECT_OWS_AFTER_TRAILER_COLON"
         /\ Run(is_ows, buf, i, e)
         /\ \/ e = i /\ TrailerValue(buf, i, n)
            \/ e > i /\ Emit(state, "skip", e - i)
         /\ UNCHANGED framing
    BY <1>5 DEF ExpectOwsAfterTrailerColon
  <2>2. CASE e = i /\ TrailerValue(buf, i, n)
    <3>1. InkAt(v, p)
      BY <1>1, <2>1, <2>2 DEF Run, InkAt
    <3>2. Before(v, w, p, l) = Spot("EXPECT_TRAILER_VALUE", body_type, Size, w, p, l)
      BY <1>1, <2>1, <3>1, AtInk DEF Before, OwsStates
    <3> QED
      BY <2>1, <2>2, <3>2, TrailerValueFollows
  <2>3. CASE e > i /\ Emit(state, "skip", e - i)
    BY <2>1, <2>3, OwsFollows DEF OwsStates
  <2> QED
    BY <2>1, <2>2, <2>3
<1>6. CASE ExpectTrailerValue(buf, i, n)
  <2>1. state = "EXPECT_TRAILER_VALUE" /\ TrailerValue(buf, i, n) /\ UNCHANGED framing
    BY <1>6 DEF ExpectTrailerValue
  <2>2. Decides(v, state, p)
    BY <2>1 DEF Decides, BodyStates, OwsStates
  <2>3. Before(v, w, p, l) = Spot("EXPECT_TRAILER_VALUE", body_type, Size, w, p, l)
    BY <2>1, <2>2, AtDecides DEF Before
  <2> QED
    BY <2>1, <2>3, TrailerValueFollows
<1>7. CASE ExpectCrlfAfterTrailerValue(buf, i, n)
  <2>1. /\ state = "EXPECT_CRLF_AFTER_TRAILER_VALUE" /\ UNCHANGED framing
        /\ StrictCrlf(buf, i, n, state, "EXPECT_TRAILER_NAME", "skip")
    BY <1>7 DEF ExpectCrlfAfterTrailerValue
  <2>2. Decides(v, state, p)
    BY <2>1 DEF Decides, BodyStates, OwsStates
  <2>3. Stands(x, v, w, p, l) /\ x.state = state
    BY <1>2, <2>2, DecidesStands
  <2>4. SameSize("EXPECT_TRAILER_NAME")
    BY <2>1 DEF SameSize, Size, Sized
  <2>5. SharedStep(first, none, v, x) =
           StrictStep(v, x, "EXPECT_TRAILER_NAME", body_type, "skip")
    BY <2>1, <2>3 DEF SharedStep, Stands
  <2> QED
    BY <2>1, <2>2, <2>3, <2>4, <2>5, LineFollows DEF SharedStates, InChunks, InTrailers
<1>8. CASE ExpectCrlfAfterTrailers(buf, i, n, first, none)
  <2>1. state = "EXPECT_CRLF_AFTER_TRAILERS" /\ CrlfAfterTrailers(buf, i, n, first, none)
    BY <1>8 DEF ExpectCrlfAfterTrailers
  <2>2. Decides(v, state, p)
    BY <2>1 DEF Decides, BodyStates, OwsStates
  <2>3. Before(v, w, p, l) = Spot("EXPECT_CRLF_AFTER_TRAILERS", body_type, Size, w, p, l)
    BY <2>1, <2>2, AtDecides DEF Before
  <2> QED
    BY <2>1, <2>3, TrailersEndFollows
<1> QED
  BY <1>3, <1>4, <1>5, <1>6, <1>7, <1>8 DEF TrailerCase

-----------------------------------------------------------------------------
(* A reader that waits at the end of the stream. *)

(* The run goes to the end of the stream. *)
LEMMA RestRuns ==
    ASSUME NEW v \in Seq(Byte), NEW p \in 0..Len(v), NEW S, RestIn(S, v, p)
    PROVE  RunEnd(S, v, p) = Len(v) /\ (p < Len(v) => v[p + 1] \in S)
<1>1. Len(v) \in Nat /\ p \in Nat /\ Len(v) \in p..Len(v)
  OBVIOUS
<1>2. ASSUME NEW k \in (p + 1)..Len(v) PROVE v[k] \in S
  <2>1. k - p \in 1..(Len(v) - p) /\ p + (k - p) = k
    BY <1>1
  <2>2. v[p + (k - p)] \in S
    BY <2>1 DEF RestIn
  <2> QED
    BY <2>1, <2>2
<1>3. Run(S, v, p, Len(v))
  BY <1>1, <1>2 DEF Run
<1>4. p < Len(v) => p + 1 \in (p + 1)..Len(v)
  BY <1>1
<1> QED
  BY <1>1, <1>2, <1>3, <1>4, RunEndOnly

LEMMA RunStepStays ==
    ASSUME NEW v \in Seq(Byte), NEW x, x.at \in 0..Len(v), NEW S, RestIn(S, v, x.at),
           NEW s, NEW code
    PROVE  RunStep(v, x, S, s, code) = x
BY RestRuns DEF RunStep

(* Of a state that waits, At makes no other. *)
LEMMA WaitingPlace ==
    ASSUME NEW v \in Seq(Byte), NEW p \in 0..Len(v), NEW s, NEW t, NEW z \in Nat, NEW w,
           NEW l, NEW n \in Nat, Waits(s, n, v, p),
           s \in {"EXPECT_BODY", "EXPECT_CHUNK_DATA"} => z > 0
    PROVE  At(v, s, t, z, w, p, l) = Spot(s, t, z, w, p, l)
<1>1. Len(v) \in Nat /\ p \in Nat /\ s # "ERRORED"
  BY DEF Waits
<1>2. CASE s \in OwsStates
  <2>1. p = Len(v)
    BY <1>2 DEF Waits, OwsStates
  <2>2. RunEnd(is_ows, v, p) = p
    BY <1>1, <2>1, RunEndIs
  <2>3. PICK e : e = RunEnd(is_ows, v, p)
    OBVIOUS
  <2>4. \E value : At(v, s, t, z, w, p, l) =
           Spot(IF e < Len(v) THEN value ELSE s, t, z, w, e, l)
    BY <1>2, <2>3 DEF At, PastOws, OwsStates
  <2> QED
    BY <1>1, <2>1, <2>2, <2>3, <2>4
<1>3. CASE s \in {"EXPECT_BODY", "EXPECT_CHUNK_DATA"}
  <2>1. p = Len(v)
    BY <1>3 DEF Waits
  <2>2. Taken(v, z, p) = 0 /\ z # 0
    BY <1>1, <1>3, <2>1 DEF Taken
  <2>3. PICK m : m = Taken(v, z, p)
    OBVIOUS
  <2>4. \E end : At(v, s, t, z, w, p, l) =
           Spot(IF m = z THEN end ELSE s, t, z - m, w, p + m, BodyLog(l, p, m))
    BY <1>3, <2>3 DEF At, PastData
  <2>5. m # z /\ z - m = z /\ p + m = p /\ BodyLog(l, p, m) = l
    BY <1>1, <2>2, <2>3 DEF BodyLog
  <2> QED
    BY <2>4, <2>5
<1>4. CASE s = "EXPECT_UNSAFE_BODY"
  <2>1. p = Len(v)
    BY <1>4 DEF Waits
  <2>2. At(v, s, t, z, w, p, l) = Spot(s, t, z, w, Len(v), BodyLog(l, p, Len(v) - p))
    BY <1>4 DEF At
  <2>3. BodyLog(l, p, Len(v) - p) = l
    BY <1>1, <2>1 DEF BodyLog
  <2> QED
    BY <2>1, <2>2, <2>3
<1>5. CASE s \notin BodyStates \cup OwsStates
  <2>1. s \in {"EXPECT_FIELD_NAME", "EXPECT_TRAILER_NAME"} /\ p < Len(v) =>
           v[p + 1] \in is_tchar
    BY RestRuns DEF Waits
  <2>2. s = "EXPECT_CHUNK_EXT" /\ p < Len(v) => v[p + 1] # CR
    <3>1. CR \notin is_chunk_ext_char
      BY DEF is_chunk_ext_char, is_tchar, isalnum, isalpha, isdigit, is_obs_text, is_vchar, CR
    <3>2. ASSUME s = "EXPECT_CHUNK_EXT", p < Len(v) PROVE v[p + 1] \in is_chunk_ext_char
      <4>1. n = Len(v) - p /\ \A k \in 1..n : v[p + k] \in is_chunk_ext_char
        BY <3>2 DEF Waits, Scanned, ScanState
      <4>2. 1 \in 1..n
        BY <1>1, <3>2, <4>1
      <4> QED
        BY <4>1, <4>2
    <3> QED
      BY <3>1, <3>2
  <2>3. Decides(v, s, p)
    BY <1>1, <1>5, <2>1, <2>2 DEF Decides
  <2> QED
    BY <2>3, AtDecides
<1> QED
  BY <1>2, <1>3, <1>4, <1>5 DEF BodyStates

(* A line end that has begun may be one yet. *)
LEMMA LiberalWaits ==
    ASSUME NEW v \in Seq(Byte), NEW p \in Nat, Len(v) = p + 1, v[p + 1] = CR
    PROVE  liberal_crlf(v, p) = "insufficient_data"
BY DEF liberal_crlf, CR, LF

(* No shared step leads on from where a reader waits at the end. *)
LEMMA WaitingStays ==
    ASSUME NEW v \in Seq(Byte), NEW s, NEW t, NEW z, NEW w, NEW p \in 0..Len(v), p < Len(v),
           NEW l, NEW n \in Nat, Waits(s, n, v, p), NEW first, NEW none, s \in SharedStates
    PROVE  SharedStep(first, none, v, Spot(s, t, z, w, p, l)) = Spot(s, t, z, w, p, l)
<1>1. PICK x : x = Spot(s, t, z, w, p, l)
  OBVIOUS
<1>2. x.state = s /\ x.at = p /\ Len(v) \in Nat /\ p \in Nat /\ p # Len(v)
  BY <1>1, SpotIs
<1>3. CASE s \in ValueState
  <2>1. RestIn(is_field_value_char, v, p)
    BY <1>3 DEF Waits
  <2>2. RunEnd(is_field_value_char, v, p) = Len(v)
    BY <2>1, RestRuns
  <2> QED
    BY <1>1, <1>2, <1>3, <2>2 DEF SharedStep, DecodeStep, RunStep, ValueState
<1>4. CASE s = "EXPECT_TRAILER_NAME"
  <2>1. RestIn(is_tchar, v, p)
    BY <1>4 DEF Waits
  <2>2. RunEnd(is_tchar, v, p) = Len(v)
    BY <2>1, RestRuns
  <2> QED
    BY <1>1, <1>2, <1>4, <2>2 DEF SharedStep, RunStep
<1>5. CASE s = "EXPECT_CHUNK_SIZE"
  <2>1. RestIn(is_hexdigit, v, p)
    BY <1>5 DEF Waits
  <2>2. RunEnd(is_hexdigit, v, p) = Len(v) /\ v[p + 1] \in is_hexdigit
    BY <2>1, RestRuns
  <2> QED
    BY <1>1, <1>2, <1>5, <2>2 DEF SharedStep, ChunkSizeStep
<1>6. CASE s = "EXPECT_CHUNK_EXT"
  <2>1. RestIn(is_chunk_ext_char, v, p)
    BY <1>6 DEF Waits, Scanned, ScanState, RestIn
  <2>2. RunEnd(is_chunk_ext_char, v, p) = Len(v)
    BY <2>1, RestRuns
  <2> QED
    BY <1>1, <1>2, <1>6, <2>2 DEF SharedStep, ChunkExtStep
<1>7. CASE s = "EXPECT_CRLF_AFTER_FIELD_VALUE"
  <2>1. liberal_crlf(v, p) = "insufficient_data"
    <3>1. Len(v) = p + 1 /\ v[p + 1] = CR
      BY <1>2, <1>7 DEF Waits
    <3> QED
      BY <1>2, <3>1, LiberalWaits
  <2> QED
    BY <1>1, <1>2, <1>7, <2>1 DEF SharedStep, LiberalStep
<1>8. CASE s \in {"EXPEXT_CRLF_AFTER_CHUNK_EXT", "EXPECT_CRLF_AFTER_CHUNK_DATA",
                  "EXPECT_CRLF_AFTER_TRAILER_VALUE", "EXPECT_CRLF_AFTER_TRAILERS"}
  <2>1. Len(v) - p < 2
    BY <1>8 DEF Waits
  <2> QED
    BY <1>1, <1>2, <1>8, <2>1 DEF SharedStep, StrictStep
<1>9. s \notin {"EXPECT_COLON", "EXPECT_OWS_AFTER_COLON", "EXPECT_TRAILER_COLON",
                "EXPECT_OWS_AFTER_TRAILER_COLON", "EXPECT_CHUNK_DATA"}
  BY <1>2 DEF Waits
<1> QED
  BY <1>1, <1>3, <1>4, <1>5, <1>6, <1>7, <1>8, <1>9
  DEF SharedStates, InField, InChunks, InTrailers, ValueState

-----------------------------------------------------------------------------
(* The log on the way. *)

LEMMA BodyLogAgrees ==
    ASSUME NEW l \in Seq(Entry), NEW at \in Nat, NEW m \in Nat
    PROVE  /\ BodyLog(l, at, m) \in Seq(Entry)
           /\ Behind(l, at) => Agrees(l, BodyLog(l, at, m), FALSE)
<1>1. at + m \in Nat /\ at <= at + m
  OBVIOUS
<1>4. "body_chunk" \in Code
  BY DEF Code, DataCode
<1>2. CASE m = 0
  BY <1>2, AgreesItself DEF BodyLog
<1>3. CASE m # 0
  BY <1>1, <1>3, <1>4, RecordTyped, RecordAgrees DEF BodyLog
<1> QED
  BY <1>2, <1>3

(* A place looks ahead in the log, too: only to the end of the body. *)
LEMMA AtLog ==
    ASSUME NEW v \in Seq(Byte), NEW s, NEW t, NEW z \in Nat, NEW w, NEW at \in 0..Len(v),
           NEW l \in Seq(Entry)
    PROVE  /\ At(v, s, t, z, w, at, l).log \in Seq(Entry)
           /\ Behind(l, at) => Agrees(l, At(v, s, t, z, w, at, l).log, FALSE)
<1>1. Len(v) \in Nat /\ at \in Nat /\ Len(v) - at \in Nat
  OBVIOUS
<1>2. Agrees(l, l, FALSE)
  BY AgreesItself
<1>3. Taken(v, z, at) \in Nat
  <2>1. Taken(v, z, at) \in 0..z
    BY TakenIs
  <2> QED
    BY <2>1
<1>4. \/ At(v, s, t, z, w, at, l).log = l
      \/ \E m \in Nat : At(v, s, t, z, w, at, l).log = BodyLog(l, at, m)
  <2>1. CASE s \in {"EXPECT_BODY", "EXPECT_CHUNK_DATA"}
    BY <1>3, <2>1, SpotIs DEF At, PastData
  <2>2. CASE s = "EXPECT_UNSAFE_BODY"
    BY <1>1, <2>2, SpotIs DEF At
  <2>3. CASE s \in OwsStates
    BY <2>3, SpotIs DEF At, PastOws, OwsStates
  <2>4. CASE s \notin BodyStates \cup OwsStates
    BY <2>4, SpotIs DEF At, BodyStates, OwsStates
  <2> QED
    BY <2>1, <2>2, <2>3, <2>4 DEF BodyStates
<1> QED
  BY <1>1, <1>2, <1>4, BodyLogAgrees

(* A recorded token stays behind the reader, and an error has no bytes. *)
LEMMA LogKeepsUp ==
    ASSUME NEW l \in Seq(Entry), NEW p \in Nat, Behind(l, p),
           code_' \in Code, token_size_' \in Nat,
           state' = "ERRORED" => code_' \in ErrorCode \ {INSUFFICIENT}
    PROVE  /\ Record(l, code_', p, p + token_size_') \in Seq(Entry)
           /\ Agrees(l, Record(l, code_', p, p + token_size_'), FALSE)
           /\ Behind(Record(l, code_', p, p + token_size_'), p + Gone')
<1>1. PICK c \in Code, n \in Nat : c = code_' /\ n = token_size_'
  OBVIOUS
<1>2. p + n \in Nat /\ p <= p + n /\ p + 0 = p
  OBVIOUS
<1>3. /\ Record(l, c, p, p + n) \in Seq(Entry)
      /\ Agrees(l, Record(l, c, p, p + n), FALSE)
      /\ Behind(Record(l, c, p, p + n), p + n)
  BY <1>2, RecordTyped, RecordAgrees
<1>4. CASE code_' = INSUFFICIENT
  <2>1. Gone' = 0
    BY <1>4 DEF Gone
  <2>2. Record(l, c, p, p + n) = l
    BY <1>1, <1>4 DEF Record, INSUFFICIENT, symbol, ErrorCode
  <2> QED
    BY <1>1, <1>2, <1>3, <2>1, <2>2
<1>5. CASE state' = "ERRORED"
  <2>1. Gone' = 0
    BY <1>5 DEF Gone
  <2>2. Record(l, c, p, p + n) = Record(l, c, p, p)
    BY <1>1, <1>5 DEF Record, INSUFFICIENT, symbol, ErrorCode
  <2>3. Behind(Record(l, c, p, p), p)
    <3>1. p <= p
      OBVIOUS
    <3> QED
      BY ONLY l \in Seq(Entry), p \in Nat, c \in Code, Behind(l, p), <3>1, RecordAgrees
  <2> QED
    BY <1>1, <1>2, <1>3, <2>1, <2>2, <2>3
<1>6. CASE state' # "ERRORED" /\ code_' # INSUFFICIENT
  <2>1. Gone' = n
    BY <1>1, <1>6 DEF Gone
  <2> QED
    BY <1>1, <1>3, <2>1
<1> QED
  BY <1>4, <1>5, <1>6

-----------------------------------------------------------------------------
(* The machine that reads a stream by the steps G on the places D; a step   *)
(* that leaves D or rewrites the log is none.                              *)

Machine(D, G) == [x \in D |-> IF G[x] \in D /\ Agrees(x.log, G[x].log, FALSE)
                              THEN G[x] ELSE x]

LEMMA MachineIs ==
    ASSUME NEW D, NEW G
    PROVE  /\ Machine(D, G) \in [D -> D]
           /\ \A x \in D : G[x] \in D /\ Agrees(x.log, G[x].log, FALSE) =>
                             Machine(D, G)[x] = G[x]
           /\ \A x \in D : G[x] = x => Machine(D, G)[x] = x
BY DEF Machine

(* A log only grows on the way. *)
LEMMA WayAgrees ==
    ASSUME NEW D, \A x \in D : x.log \in Seq(Entry), NEW G, NEW x \in D,
           NEW y \in Way(Machine(D, G), x)
    PROVE  Agrees(x.log, y.log, FALSE)
<1> DEFINE F == Machine(D, G)
           S == {u \in D : Agrees(x.log, u.log, FALSE)}
<1>1. F \in [D -> D]
  BY MachineIs
<1>2. x \in S
  BY AgreesItself
<1>3. ASSUME NEW u \in S PROVE F[u] \in S
  <2>1. u \in D /\ Agrees(x.log, u.log, FALSE)
    OBVIOUS
  <2>2. F[u] = u \/ (F[u] = G[u] /\ G[u] \in D /\ Agrees(u.log, G[u].log, FALSE))
    BY <2>1 DEF Machine
  <2>3. CASE F[u] = u
    BY <2>1, <2>3
  <2>4. CASE F[u] = G[u] /\ G[u] \in D /\ Agrees(u.log, G[u].log, FALSE)
    BY <2>1, <2>4, AgreesOn
  <2> QED
    BY <2>2, <2>3, <2>4
<1> HIDE DEF F, S
<1>4. S \in SUBSET D
  BY DEF S
<1>5. Way(F, x) \subseteq S
  BY <1>1, <1>2, <1>3, <1>4, WayWithin
<1>6. y \in S
  BY <1>5 DEF F
<1> QED
  BY <1>6 DEF S

(* The places of a stream. *)
Places(v, S, T, W) == {At(v, s, t, z, w, at, l) :
                          s \in S, t \in T, z \in Nat, w \in W, at \in 0..Len(v), l \in Seq(Entry)}

LEMMA PlaceIs ==
    ASSUME NEW v, NEW S, NEW T, NEW W, NEW s \in S, NEW t \in T, NEW z \in Nat, NEW w \in W,
           NEW at \in 0..Len(v), NEW l \in Seq(Entry)
    PROVE  At(v, s, t, z, w, at, l) \in Places(v, S, T, W)
BY DEF Places

LEMMA PlaceLogs ==
    ASSUME NEW v \in Seq(Byte), NEW S, NEW T, NEW W, NEW x \in Places(v, S, T, W)
    PROVE  x.log \in Seq(Entry)
<1>1. PICK s \in S, t \in T, z \in Nat, w \in W, at \in 0..Len(v), l \in Seq(Entry) :
         x = At(v, s, t, z, w, at, l)
  BY DEF Places
<1> QED
  BY <1>1, AtLog

-----------------------------------------------------------------------------
(* The course of a driver that reads a stream twice by the machine F: it is *)
(* on the way from the start, and in its second pass it will come to the   *)
(* place where the first one, whose log is a, stopped.                     *)

OnCourse(F, start, place, l, mode, a) ==
    /\ mode = "whole" => place \in Way(F, start)
    /\ mode # "whole" => \E z \in Way(F, place) : F[z] = z /\ z.log = a
    /\ mode = "done" => F[place] = place /\ place.log = l

LEMMA CourseGoesOn ==
    ASSUME NEW D, NEW F \in [D -> D], NEW start \in D, NEW x \in D, NEW y \in D,
           y = x \/ y = F[x], NEW l, NEW m, NEW mode, mode # "done", NEW a,
           OnCourse(F, start, x, l, mode, a)
    PROVE  OnCourse(F, start, y, m, mode, a)
<1>1. mode = "whole" => y \in Way(F, start)
  BY WayGoesOn DEF OnCourse
<1>2. ASSUME mode # "whole" PROVE \E z \in Way(F, y) : F[z] = z /\ z.log = a
  <2>1. PICK z \in Way(F, x) : F[z] = z /\ z.log = a
    BY <1>2 DEF OnCourse
  <2>2. z \in Way(F, y)
    BY <2>1, WayLeadsThere
  <2> QED
    BY <2>1, <2>2
<1> QED
  BY <1>1, <1>2 DEF OnCourse

LEMMA CourseTurns ==
    ASSUME NEW F, NEW start, NEW x, F[x] = x, NEW l, x.log = l, NEW a,
           OnCourse(F, start, x, l, "whole", a), NEW m
    PROVE  OnCourse(F, start, start, m, "pieces", l)
BY DEF OnCourse

LEMMA CourseEnds ==
    ASSUME NEW F, NEW start, NEW x, F[x] = x, NEW l, x.log = l, NEW a,
           OnCourse(F, start, x, l, "pieces", a)
    PROVE  OnCourse(F, start, x, l, "done", a)
BY DEF OnCourse

(* So the second log agrees with the first. *)
LEMMA CourseAgrees ==
    ASSUME NEW D, \A x \in D : x.log \in Seq(Entry), NEW G, NEW F, F = Machine(D, G),
           NEW start, NEW x \in D, NEW l \in Seq(Entry), Agrees(l, x.log, FALSE),
           NEW mode, mode # "whole", NEW a, OnCourse(F, start, x, l, mode, a)
    PROVE  Agrees(l, a, mode = "done")
<1>1. F \in [D -> D]
  BY MachineIs
<1>2. PICK z \in Way(F, x) : F[z] = z /\ z.log = a
  BY DEF OnCourse
<1>3. z \in D
  BY <1>1, WayStarts
<1>4. Agrees(x.log, a, FALSE)
  BY <1>2, WayAgrees
<1>5. Agrees(l, a, FALSE)
  BY <1>2, <1>3, <1>4, AgreesOn
<1>6. CASE mode = "done"
  <2>1. F[x] = x /\ x.log = l
    BY <1>6 DEF OnCourse
  <2>2. z = x
    BY <1>1, <2>1, WayStops
  <2>3. a = l
    BY <1>2, <2>1, <2>2
  <2> QED
    BY <1>5, <1>6, <2>3 DEF Agrees
<1> QED
  BY <1>5, <1>6 DEF Agrees

-----------------------------------------------------------------------------
(* What a driver shows the reader of the stream v. *)

LEMMA ShowsOn ==
    ASSUME NEW v, NEW j \in Nat, NEW q, NEW i \in Nat, NEW c \in Nat, Len(q) \in Nat,
           Len(v) \in Nat, Shows(v, j, q, i)
    PROVE  Shows(v, j + c, q, i + c)
<1>1. Len(q) - i <= Len(v) - j /\ \A k \in 1..(Len(q) - i) : v[j + k] = q[i + k]
  BY DEF Shows
<1>2. ASSUME NEW k \in 1..(Len(q) - (i + c)) PROVE v[(j + c) + k] = q[(i + c) + k]
  <2>1. c + k \in 1..(Len(q) - i)
    OBVIOUS
  <2>2. v[j + (c + k)] = q[i + (c + k)]
    BY <1>1, <2>1
  <2> QED
    BY <2>2
<1> QED
  BY <1>1, <1>2 DEF Shows

(* A part of what a buffer shows. *)
LEMMA ViewShows ==
    ASSUME NEW v \in Seq(Byte), NEW j \in Nat, NEW q \in Seq(Byte), NEW i \in Nat,
           Shows(v, j, q, i), NEW e \in i..Len(q)
    PROVE  /\ View(q, i, e) \in Seq(Byte) /\ Len(View(q, i, e)) = e - i
           /\ Shows(v, j, View(q, i, e), 0)
<1> DEFINE a == SubSeq(q, i + 1, e)
<1>1. a \in Seq(Byte) /\ Len(a) = e - i /\ \A k \in 1..(e - i) : a[k] = q[i + k]
  OBVIOUS
<1>2. View(q, i, e) = a
  BY DEF View
<1> HIDE DEF a
<1>3. Len(q) - i <= Len(v) - j /\ \A k \in 1..(Len(q) - i) : v[j + k] = q[i + k]
  BY DEF Shows
<1>4. \A k \in 1..(e - i) : v[j + k] = a[k]
  BY <1>1, <1>3
<1>5. Len(a) - 0 <= Len(v) - j /\ \A k \in 1..(Len(a) - 0) : v[j + k] = a[0 + k]
  BY <1>1, <1>3, <1>4
<1> QED
  BY <1>1, <1>2, <1>5 DEF Shows

(* The reader stays within the stream. *)
LEMMA Inside ==
    ASSUME NEW v \in Seq(Byte), NEW b \in Nat, NEW q \in Seq(Byte), Shows(v, b, q, 0),
           NEW i \in Nat, NEW n \in Nat, i + n <= Len(q), NEW g \in {0, n}
    PROVE  b + i + g \in 0..Len(v)
<1>1. Len(q) - 0 <= Len(v) - b /\ Len(v) \in Nat /\ Len(q) \in Nat
  BY DEF Shows
<1> QED
  BY <1>1
=============================================================================
