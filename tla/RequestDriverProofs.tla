------------------------ MODULE RequestDriverProofs -------------------------
(***************************************************************************)
(* That the pieces in which a stream of requests arrives do not matter.    *)
(*                                                                         *)
(* Step is the machine of PlaceProofs for requests.  Every call of next()  *)
(* leads from the place of the reader to the same or to the next one       *)
(* (NextOnLeads), and a reader that waits with all the bytes in its buffer *)
(* is at a place where the machine stops (WaitingStops).  The invariant    *)
(* DInv says that the reader is on the machine's way and that the log of   *)
(* the first pass is the one at its end; PiecesDoNotMatter follows.        *)
(***************************************************************************)
EXTENDS RequestProofs, RequestDriver, PlaceProofs

-----------------------------------------------------------------------------
(* The steps of the machine that are a request's own. *)

(* What can be told of version: elsewhere it is never read again. *)
Memo == IF state \in InHeaders \cup {"EXPECT_CRLF_AFTER_VERSION"} THEN version ELSE "none"

VersionStep(v, x) ==
    IF v[x.at + 1] \in isdigit
    THEN Gives(v, x, "EXPECT_CRLF_AFTER_VERSION", x.body_type, x.body_size,
               IF v[x.at + 1] = 48 THEN "HTTP_1_0" ELSE "NOT_HTTP_1_0_AND_HOST_NOT_READ",
               "version", 1)
    ELSE Fails(x, "error_invalid_data")

NameStep(v, x) ==
    LET e == RunEnd(is_tchar, v, x.at)
        name == View(v, x.at, e)
        here(t, z, w) == Gives(v, x, "EXPECT_COLON", t, z, w, "field_name", e - x.at)
    IN  IF e = Len(v) THEN x
        ELSE IF iequals(name, Host)
        THEN IF x.memo = "NOT_HTTP_1_0_AND_HOST_READ" THEN Fails(x, "error_no_host")
             ELSE here(x.body_type, x.body_size,
                       IF x.memo = "HTTP_1_0" THEN x.memo ELSE "NOT_HTTP_1_0_AND_HOST_READ")
        ELSE IF iequals(name, TransferEncodingName)
        THEN IF x.body_type = "CHUNKED_ENCODING_READ"
             THEN Fails(x, "error_invalid_transfer_encoding")
             ELSE here("READING_ENCODING", 0, x.memo)
        ELSE IF iequals(name, ContentLength)
        THEN IF x.body_type = "CONTENT_LENGTH_READ"
             THEN Fails(x, "error_invalid_content_length")
             ELSE here(IF x.body_type = "NO_BODY" THEN "READING_CONTENT_LENGTH"
                       ELSE x.body_type, x.body_size, x.memo)
        ELSE here(x.body_type, x.body_size, x.memo)

HeadersEnd(v, x, size) ==
    IF x.memo = "NOT_HTTP_1_0_AND_HOST_NOT_READ" THEN Fails(x, "error_no_host")
    ELSE IF x.body_type = "RANDOM_ENCODING_READ"
    THEN Fails(x, "error_invalid_transfer_encoding")
    ELSE Gives(v, x,
               IF x.body_type = "CHUNKED_ENCODING_READ" THEN "EXPECT_CHUNK_SIZE"
               ELSE IF x.body_type = "CONTENT_LENGTH_READ" /\ x.body_size # 0
               THEN "EXPECT_BODY" ELSE "EXPECT_END_OF_BODY",
               x.body_type, x.body_size, "none", "end_of_headers", size)

EmptyLineStep(v, x) ==
    CASE liberal_crlf(v, x.at) = "crlf" -> HeadersEnd(v, x, 2)
      [] liberal_crlf(v, x.at) = "lf" -> HeadersEnd(v, x, 1)
      [] liberal_crlf(v, x.at) = "insufficient_data" -> x
      [] OTHER -> Fails(x, "error_invalid_data")

StartStep(v, x) ==
    CASE x.state = "EXPECT_METHOD" ->
            ScanStep(v, x, is_tchar, "EXPECT_SP_AFTER_METHOD", "method")
      [] x.state = "EXPECT_SP_AFTER_METHOD" ->
            ByteStep(v, x, {SP}, "EXPECT_REQUEST_TARGET", "skip")
      [] x.state = "EXPECT_REQUEST_TARGET" ->
            ScanStep(v, x, is_request_target_char, "EXPECT_STATIC_STR_AFTER_TARGET",
                     "request_target")
      [] x.state = "EXPECT_STATIC_STR_AFTER_TARGET" ->
            LiteralStep(v, x, StaticStr, "EXPECT_VERSION")
      [] x.state = "EXPECT_VERSION" -> VersionStep(v, x)
      [] x.state = "EXPECT_CRLF_AFTER_VERSION" -> LiberalStep(v, x, "EXPECT_FIELD_NAME")
      [] x.state = "EXPECT_FIELD_NAME" -> NameStep(v, x)
      [] x.state = "EXPECT_CRLF_AFTER_HEADERS" -> EmptyLineStep(v, x)
      [] OTHER -> x

StartStates == StartLine \cup {"EXPECT_FIELD_NAME", "EXPECT_CRLF_AFTER_HEADERS"}

(* The tokens without bytes come also at the end of the stream. *)
Step(v, x) ==
    IF x.state = "EXPECT_END_OF_BODY"
    THEN Moves(v, x, "EXPECT_END_OF_MESSAGE", "end_of_body", 0)
    ELSE IF x.state = "EXPECT_END_OF_MESSAGE"
    THEN Gives(v, x, "EXPECT_METHOD", "NO_BODY", 0, x.memo, "end_of_message", 0)
    ELSE IF x.at = Len(v) THEN x
    ELSE IF x.state \in SharedStates THEN SharedStep("EXPECT_METHOD", "NO_BODY", v, x)
    ELSE StartStep(v, x)

-----------------------------------------------------------------------------
(* Every case of next() leads from the place before it to the same or the   *)
(* next one.                                                               *)

LeadsOn(v, p, l) ==
    LET x == Before(v, Memo, p, l)
    IN  \/ After(v, Memo', p, l) = x
        \/ x.at = p /\ x.log = l /\ After(v, Memo', p, l) = Step(v, x)

LEMMA StepIs ==
    ASSUME NEW v, NEW x, x.at # Len(v)
    PROVE  /\ x.state \in SharedStates =>
                 Step(v, x) = SharedStep("EXPECT_METHOD", "NO_BODY", v, x)
           /\ x.state \in StartStates =>
                 Step(v, x) = StartStep(v, x)
BY DEF Step, SharedStates, InField, InChunks, InTrailers, StartLine, StartStates

(* The cases that both readers share. *)
LEMMA SharedLeads ==
    ASSUME ReaderOK, FramingConsistent, NEW v, NEW p, NEW buf, NEW i, NEW n,
           Sees(v, p, buf, i, n), NEW l \in Seq(Entry), Ahead(n, buf, i), version' = version,
           \/ FieldCase(buf, i, n)
           \/ ExpectBody(buf, i, n)
           \/ ChunkCase(buf, i, n)
           \/ TrailerCase(buf, i, n, "EXPECT_METHOD", "NO_BODY")
    PROVE  LeadsOn(v, p, l)
<1>1. /\ v \in Seq(Byte) /\ buf \in Seq(Byte) /\ p \in Nat /\ i \in Nat /\ n \in Nat
      /\ i + n <= Len(buf) /\ i # Len(buf) /\ p # Len(v)
  BY ONLY Sees(v, p, buf, i, n), SeesIs
<1>2. body_size \in Uint /\ Suitable(state)
  BY DEF ReaderOK, FramingConsistent, FramingSuits, Suitable
<1>3. ~Sized("EXPECT_METHOD", "NO_BODY") /\ "EXPECT_METHOD" # "ERRORED"
  BY DEF Sized
<1>4. Follows("EXPECT_METHOD", "NO_BODY", v, Memo, p, l)
  BY <1>2, <1>3, FieldFollows, BodyFollows, ChunkFollows, TrailerFollows
<1>5. Memo' = Memo \/ state' = "ERRORED"
  <2>1. CASE FieldCase(buf, i, n)
    <3>1. state \in InHeaders
      BY <2>1 DEF FieldCase, ExpectColon, ExpectOwsAfterColon, ExpectFieldValue,
                  ExpectCrlfAfterFieldValue, InHeaders, InField
    <3>2. state' \in InHeaders \cup {"ERRORED"}
      BY <1>1, <1>2, <2>1, FieldReached DEF Reached
    <3> QED
      BY <3>1, <3>2 DEF Memo
  <2>2. CASE \/ ExpectBody(buf, i, n) \/ ChunkCase(buf, i, n)
             \/ TrailerCase(buf, i, n, "EXPECT_METHOD", "NO_BODY")
    <3> DEFINE S == InChunks \cup InTrailers
                      \cup {"EXPECT_BODY", "EXPECT_END_OF_BODY", "EXPECT_METHOD", "ERRORED"}
    <3>1. state \in S
      BY <2>2 DEF ExpectBody, ChunkCase, TrailerCase, InChunks, InTrailers, ExpectChunkSize,
                  ExpectChunkExt, ExpectCrlfAfterChunkExt, ExpectChunkData,
                  ExpectCrlfAfterChunkData, ExpectTrailerName, ExpectTrailerColon,
                  ExpectOwsAfterTrailerColon, ExpectTrailerValue,
                  ExpectCrlfAfterTrailerValue, ExpectCrlfAfterTrailers
    <3>2. "EXPECT_METHOD" \notin InChunks \cup InTrailers \cup {"EXPECT_BODY"}
          /\ "NO_BODY" \notin Reading
      BY DEF InChunks, InTrailers, Reading
    <3>3. ASSUME ExpectBody(buf, i, n) PROVE state' \in S
      BY <1>1, <1>2, <3>3, BodyReached DEF Reached
    <3>4. ASSUME ChunkCase(buf, i, n) PROVE state' \in S
      <4>1. state' \in InChunks \cup {"EXPECT_TRAILER_NAME", "ERRORED"}
        BY <1>1, <1>2, <3>4, ChunkReached DEF Reached
      <4> QED
        BY <4>1 DEF InTrailers
    <3>5. ASSUME TrailerCase(buf, i, n, "EXPECT_METHOD", "NO_BODY") PROVE state' \in S
      <4>1. state' \in InTrailers \cup {"ERRORED", "EXPECT_METHOD"}
        BY <1>1, <1>2, <3>2, <3>5, TrailerReached DEF Reached
      <4> QED
        BY <4>1
    <3>6. state' \in S
      BY <2>2, <3>3, <3>4, <3>5
    <3>7. \A s \in S : s \notin InHeaders \cup {"EXPECT_CRLF_AFTER_VERSION"}
      BY DEF InHeaders, InField, InChunks, InTrailers
    <3> QED
      BY <3>1, <3>6, <3>7 DEF Memo
  <2> QED
    BY <2>1, <2>2
<1>6. After(v, Memo', p, l) = After(v, Memo, p, l)
  BY <1>5, ErrorForgets
<1> QED
  BY <1>1, <1>4, <1>6, StepIs DEF Follows, LeadsOn

(* A case that stays in the start line leaves no memo. *)
LEMMA NoMemo ==
    ASSUME state \in StartLine \ {"EXPECT_CRLF_AFTER_VERSION"},
           state' \in (StartLine \ {"EXPECT_CRLF_AFTER_VERSION"}) \cup {"ERRORED"}
    PROVE  Memo = "none" /\ Memo' = "none"
<1>1. \A s \in (StartLine \ {"EXPECT_CRLF_AFTER_VERSION"}) \cup {"ERRORED"} :
         s \notin InHeaders \cup {"EXPECT_CRLF_AFTER_VERSION"}
  BY DEF StartLine, InHeaders, InField
<1>2. state \notin InHeaders \cup {"EXPECT_CRLF_AFTER_VERSION"}
      /\ state' \notin InHeaders \cup {"EXPECT_CRLF_AFTER_VERSION"}
  BY <1>1
<1> QED
  BY <1>2 DEF Memo

LEMMA StartStands ==
    ASSUME FramingConsistent, state \in StartLine, NEW v, NEW w, NEW p, NEW l
    PROVE  /\ Stands(Before(v, w, p, l), v, w, p, l) /\ Before(v, w, p, l).state = state
           /\ body_type = "NO_BODY"
           /\ \A s \in StartLine \cup {"EXPECT_FIELD_NAME"} : SameSize(s)
<1>1. body_type = "NO_BODY"
  BY DEF FramingConsistent, FramingSuits
<1>2. Decides(v, state, p)
  BY DEF Decides, BodyStates, OwsStates, StartLine
<1>3. \A s \in StartLine \cup {"EXPECT_FIELD_NAME"} : SameSize(s)
  BY <1>1 DEF SameSize, Size, Sized, StartLine
<1> QED
  BY <1>1, <1>2, <1>3, DecidesStands

(* The start line but for the version. *)
LEMMA StartLeads ==
    ASSUME ReaderOK, FramingConsistent, NEW v, NEW p, NEW buf, NEW i, NEW n,
           Sees(v, p, buf, i, n), NEW l, Ahead(n, buf, i), version' = version,
           \/ ExpectMethod(buf, i, n)
           \/ ExpectSpAfterMethod(buf, i, n)
           \/ ExpectRequestTarget(buf, i, n)
           \/ ExpectStaticStrAfterTarget(buf, i, n)
           \/ ExpectCrlfAfterVersion(buf, i, n)
    PROVE  LeadsOn(v, p, l)
<1>1. /\ p \in Nat /\ buf \in Seq(Byte) /\ i \in Nat /\ n \in Nat
      /\ i + n <= Len(buf) /\ i # Len(buf) /\ p # Len(v)
  BY ONLY Sees(v, p, buf, i, n), SeesIs
<1>2. PICK x : x = Before(v, Memo, p, l)
  OBVIOUS
<1>3. state \in StartLine /\ UNCHANGED framing /\ state # "ERRORED"
  BY DEF ExpectMethod, ExpectSpAfterMethod, ExpectRequestTarget,
         ExpectStaticStrAfterTarget, ExpectCrlfAfterVersion, StartLine
<1>4. /\ Stands(x, v, Memo, p, l) /\ x.state = state
      /\ \A s \in StartLine \cup {"EXPECT_FIELD_NAME"} : SameSize(s)
  BY <1>2, <1>3, StartStands
<1>5. /\ x.at = p /\ x.log = l
      /\ \A s \in StartLine \cup {"EXPECT_FIELD_NAME"}, c \in Code \ {INSUFFICIENT} :
            Plainly(s, c)
  BY <1>3, <1>4 DEF Plainly, Stands, StartLine
<1>6. {"method", "skip", "request_target"} \subseteq Code \ {INSUFFICIENT}
  BY DEF Code, DataCode, INSUFFICIENT
<1>7. Step(v, x) = StartStep(v, x)
  BY <1>1, <1>3, <1>4, <1>5, StepIs DEF StartStates
<1>8. ASSUME After(v, Memo, p, l) = x \/ After(v, Memo, p, l) = StartStep(v, x),
             Memo' = Memo \/ state' = "ERRORED"
      PROVE  LeadsOn(v, p, l)
  <2>1. After(v, Memo', p, l) = After(v, Memo, p, l)
    BY <1>8, ErrorForgets
  <2> QED
    BY <1>2, <1>5, <1>7, <1>8, <2>1 DEF LeadsOn
<1>9. CASE ExpectMethod(buf, i, n)
  <2>1. /\ state = "EXPECT_METHOD"
        /\ ScanToken(is_tchar, buf, i, n, "EXPECT_SP_AFTER_METHOD", "method")
    BY <1>9 DEF ExpectMethod
  <2>2. Memo' = Memo
    BY <2>1, NoMemo DEF ScanToken, Suspend, Fail, Emit, StartLine
  <2>3. \A k \in 1..n : buf[i + k] \in is_tchar
    BY <2>1 DEF Ahead, Scanned
  <2>4. Plainly("EXPECT_SP_AFTER_METHOD", "method")
    BY <1>5, <1>6 DEF StartLine
  <2>5. \/ After(v, Memo, p, l) = x
        \/ After(v, Memo, p, l) = ScanStep(v, x, is_tchar, "EXPECT_SP_AFTER_METHOD", "method")
    BY <1>4, <2>1, <2>3, <2>4, ScanTokenSteps
  <2> QED
    BY <1>4, <1>8, <2>1, <2>2, <2>5 DEF StartStep
<1>10. CASE ExpectSpAfterMethod(buf, i, n)
  <2>1. /\ state = "EXPECT_SP_AFTER_METHOD"
        /\ ByteToken({SP}, buf, i, n, "EXPECT_REQUEST_TARGET", "skip")
    BY <1>10 DEF ExpectSpAfterMethod
  <2>2. Memo' = Memo
    BY <2>1, NoMemo DEF ByteToken, Fail, Emit, StartLine
  <2>3. Plainly("EXPECT_REQUEST_TARGET", "skip")
    BY <1>5, <1>6 DEF StartLine
  <2>4. After(v, Memo, p, l) = ByteStep(v, x, {SP}, "EXPECT_REQUEST_TARGET", "skip")
    BY <1>4, <2>1, <2>3, ByteTokenSteps
  <2> QED
    BY <1>4, <1>8, <2>1, <2>2, <2>4 DEF StartStep
<1>11. CASE ExpectRequestTarget(buf, i, n)
  <2>1. /\ state = "EXPECT_REQUEST_TARGET"
        /\ ScanToken(is_request_target_char, buf, i, n,
                     "EXPECT_STATIC_STR_AFTER_TARGET", "request_target")
    BY <1>11 DEF ExpectRequestTarget
  <2>2. Memo' = Memo
    BY <2>1, NoMemo DEF ScanToken, Suspend, Fail, Emit, StartLine
  <2>3. \A k \in 1..n : buf[i + k] \in is_request_target_char
    BY <2>1 DEF Ahead, Scanned
  <2>4. Plainly("EXPECT_STATIC_STR_AFTER_TARGET", "request_target")
    BY <1>5, <1>6 DEF StartLine
  <2>5. \/ After(v, Memo, p, l) = x
        \/ After(v, Memo, p, l) =
              ScanStep(v, x, is_request_target_char, "EXPECT_STATIC_STR_AFTER_TARGET",
                       "request_target")
    BY <1>4, <2>1, <2>3, <2>4, ScanTokenSteps
  <2> QED
    BY <1>4, <1>8, <2>1, <2>2, <2>5 DEF StartStep
<1>12. CASE ExpectStaticStrAfterTarget(buf, i, n)
  <2>1. /\ state = "EXPECT_STATIC_STR_AFTER_TARGET"
        /\ LiteralToken(StaticStr, buf, i, n, "EXPECT_VERSION")
    BY <1>12 DEF ExpectStaticStrAfterTarget
  <2>2. Memo' = Memo
    BY <2>1, NoMemo DEF LiteralToken, Suspend, Fail, Emit, StartLine
  <2>3. n <= Len(StaticStr) /\ \A k \in 1..n : buf[i + k] = StaticStr[k]
    BY <2>1 DEF Ahead, Scanned, LiteralState
  <2>4. Plainly("EXPECT_VERSION", "skip") /\ StaticStr \in Seq(Byte)
    BY <1>5, <1>6, LiteralsAssumption DEF StartLine
  <2>5. \/ After(v, Memo, p, l) = x
        \/ After(v, Memo, p, l) = LiteralStep(v, x, StaticStr, "EXPECT_VERSION")
    BY <1>4, <2>1, <2>3, <2>4, LiteralTokenSteps
  <2> QED
    BY <1>4, <1>8, <2>1, <2>2, <2>5 DEF StartStep
<1>13. CASE ExpectCrlfAfterVersion(buf, i, n)
  <2>1. /\ state = "EXPECT_CRLF_AFTER_VERSION"
        /\ LiberalCrlf(buf, i, n, "EXPECT_FIELD_NAME")
    BY <1>13 DEF ExpectCrlfAfterVersion
  <2>2. state' \in {"EXPECT_CRLF_AFTER_VERSION", "EXPECT_FIELD_NAME", "ERRORED"}
    BY <2>1 DEF LiberalCrlf, Suspend, Fail, Emit
  <2>3. Memo' = Memo \/ state' = "ERRORED"
    BY <2>1, <2>2 DEF Memo, InHeaders
  <2>4. Plainly("EXPECT_FIELD_NAME", "skip")
    BY <1>5, <1>6
  <2>5. After(v, Memo, p, l) = x \/ After(v, Memo, p, l) = LiberalStep(v, x, "EXPECT_FIELD_NAME")
    BY <1>4, <2>1, <2>4, LiberalCrlfSteps
  <2> QED
    BY <1>4, <1>8, <2>1, <2>3, <2>5 DEF StartStep
<1> QED
  BY <1>9, <1>10, <1>11, <1>12, <1>13

(* A refusal leads to the place of an error. *)
LEMMA RefusalLeads ==
    ASSUME NEW v, NEW p \in Nat, NEW l, NEW x, Stands(x, v, Memo, p, l),
           NEW code \in ErrorCode \ {INSUFFICIENT}, NEW size, Fail(code, size),
           Step(v, x) = Fails(x, code)
    PROVE  LeadsOn(v, p, l)
<1>1. After(v, Memo, p, l) = Fails(x, code)
  BY AfterFails
<1>2. After(v, Memo', p, l) = After(v, Memo, p, l)
  BY ErrorForgets DEF Fail, Emit
<1> QED
  BY <1>1, <1>2 DEF LeadsOn, Stands

(* The version of a request is what the reader remembers of it. *)
LEMMA VersionLeads ==
    ASSUME ReaderOK, FramingConsistent, NEW v, NEW p, NEW buf, NEW i, NEW n,
           Sees(v, p, buf, i, n), NEW l, ExpectVersion(buf, i, n)
    PROVE  LeadsOn(v, p, l)
<1>1. p \in Nat /\ v[p + 1] = buf[i + 1] /\ p # Len(v)
  BY ONLY Sees(v, p, buf, i, n), SeesIs
<1>2. PICK x : x = Before(v, Memo, p, l)
  OBVIOUS
<1>3. /\ state = "EXPECT_VERSION" /\ UNCHANGED framing
      /\ ByteToken(isdigit, buf, i, n, "EXPECT_CRLF_AFTER_VERSION", "version")
      /\ version' = CASE buf[i + 1] \notin isdigit -> version
                      [] buf[i + 1] = 48 -> "HTTP_1_0"
                      [] OTHER -> "NOT_HTTP_1_0_AND_HOST_NOT_READ"
  BY DEF ExpectVersion
<1>4. Stands(x, v, Memo, p, l) /\ x.state = "EXPECT_VERSION" /\ body_type = "NO_BODY"
  BY <1>2, <1>3, StartStands DEF StartLine
<1>5. x.at = p /\ x.log = l /\ x.body_type = body_type /\ x.body_size = Size
  BY <1>4 DEF Stands
<1>6. Step(v, x) = VersionStep(v, x)
  <2>1. Step(v, x) = StartStep(v, x)
    BY <1>1, <1>4, <1>5, StepIs DEF StartLine, StartStates
  <2> QED
    BY <1>4, <2>1 DEF StartStep
<1>7. CASE buf[i + 1] \in isdigit
  <2>1. Emit("EXPECT_CRLF_AFTER_VERSION", "version", 1)
    BY <1>3, <1>7 DEF ByteToken
  <2>2. Memo' = IF v[p + 1] = 48 THEN "HTTP_1_0" ELSE "NOT_HTTP_1_0_AND_HOST_NOT_READ"
    BY <1>1, <1>3, <1>7, <2>1 DEF Memo, Emit
  <2>3. body_type' = body_type /\ Size' = Size
    BY <1>3, <1>4, <2>1 DEF framing, Size, Sized, Emit
  <2>4. "version" # INSUFFICIENT
    BY DEF INSUFFICIENT
  <2>5. PICK w : w = Memo'
    OBVIOUS
  <2>6. After(v, w, p, l) =
           Gives(v, x, "EXPECT_CRLF_AFTER_VERSION", body_type', Size', w, "version", 1)
    BY <1>5, <2>1, <2>4, AfterTells
  <2>7. After(v, Memo', p, l) = VersionStep(v, x)
    BY <1>1, <1>5, <1>7, <2>2, <2>3, <2>5, <2>6 DEF VersionStep
  <2> QED
    BY <1>2, <1>5, <1>6, <2>7 DEF LeadsOn
<1>8. CASE buf[i + 1] \notin isdigit
  <2>1. Fail("error_invalid_data", n)
    BY <1>3, <1>8 DEF ByteToken
  <2>2. Step(v, x) = Fails(x, "error_invalid_data") => LeadsOn(v, p, l)
    BY <1>1, <1>2, <1>4, <2>1, InvalidData, RefusalLeads
  <2> QED
    BY <1>1, <1>5, <1>6, <1>8, <2>2 DEF VersionStep
<1> QED
  BY <1>7, <1>8

(* The empty line behind the header fields, read in either of two states. *)
LEMMA HeadersEndLeads ==
    ASSUME NEW v, NEW p, NEW buf, NEW i, NEW n, Sees(v, p, buf, i, n), NEW l,
           state \in {"EXPECT_FIELD_NAME", "EXPECT_CRLF_AFTER_HEADERS"},
           Before(v, Memo, p, l) =
               Spot("EXPECT_CRLF_AFTER_HEADERS", body_type, Size, Memo, p, l),
           CrlfAfterHeaders(buf, i, n)
    PROVE  LeadsOn(v, p, l)
<1>1. p \in Nat /\ p # Len(v)
  BY ONLY Sees(v, p, buf, i, n), SeesIs
<1>2. PICK x : x = Before(v, Memo, p, l)
  OBVIOUS
<1>3. Stands(x, v, Memo, p, l) /\ x.state = "EXPECT_CRLF_AFTER_HEADERS"
  BY <1>2, SpotStands
<1>4. x.at = p /\ x.log = l /\ x.body_type = body_type /\ x.body_size = Size /\ x.memo = Memo
  BY <1>3 DEF Stands
<1>5. Step(v, x) = EmptyLineStep(v, x)
  <2>1. Step(v, x) = StartStep(v, x)
    BY <1>1, <1>3, <1>4, StepIs DEF StartStates
  <2> QED
    BY <1>3, <2>1 DEF StartStep
<1>6. liberal_crlf(buf, i) # "insufficient_data" => liberal_crlf(v, p) = liberal_crlf(buf, i)
  BY LiberalIsSeen
<1>7. Memo = version /\ version' = version /\ UNCHANGED framing
  BY DEF Memo, InHeaders, CrlfAfterHeaders
<1>8. Size = IF body_type = "CONTENT_LENGTH_READ" THEN body_size ELSE 0
  BY DEF Size, Sized
<1>9. ASSUME NEW size, EndOfHeaders(size), Step(v, x) = HeadersEnd(v, x, size)
      PROVE  LeadsOn(v, p, l)
  <2>1. {"error_no_host", "error_invalid_transfer_encoding"} \subseteq ErrorCode \ {INSUFFICIENT}
    BY DEF ErrorCode, INSUFFICIENT
  <2>2. CASE version = "NOT_HTTP_1_0_AND_HOST_NOT_READ"
    <3>1. Fail("error_no_host", size)
      BY <1>9, <2>2 DEF EndOfHeaders
    <3>2. Step(v, x) = Fails(x, "error_no_host")
      BY <1>4, <1>7, <1>9, <2>2 DEF HeadersEnd
    <3> QED
      BY <1>1, <1>3, <2>1, <3>1, <3>2, RefusalLeads
  <2>3. CASE version # "NOT_HTTP_1_0_AND_HOST_NOT_READ" /\ body_type = "RANDOM_ENCODING_READ"
    <3>1. Fail("error_invalid_transfer_encoding", size)
      BY <1>9, <2>3 DEF EndOfHeaders
    <3>2. Step(v, x) = Fails(x, "error_invalid_transfer_encoding")
      BY <1>4, <1>7, <1>9, <2>3 DEF HeadersEnd
    <3> QED
      BY <1>1, <1>3, <2>1, <3>1, <3>2, RefusalLeads
  <2>4. CASE version # "NOT_HTTP_1_0_AND_HOST_NOT_READ" /\ body_type # "RANDOM_ENCODING_READ"
    <3>1. PICK s : s = IF body_type = "CHUNKED_ENCODING_READ" THEN "EXPECT_CHUNK_SIZE"
                       ELSE IF body_type = "CONTENT_LENGTH_READ" /\ Size # 0
                       THEN "EXPECT_BODY" ELSE "EXPECT_END_OF_BODY"
      OBVIOUS
    <3>2. Emit(s, "end_of_headers", size)
      BY <1>8, <1>9, <2>4, <3>1 DEF EndOfHeaders
    <3>3. /\ s # "ERRORED" /\ "end_of_headers" # INSUFFICIENT
          /\ s \in {"EXPECT_CHUNK_SIZE", "EXPECT_BODY", "EXPECT_END_OF_BODY"}
      BY <3>1 DEF INSUFFICIENT
    <3>4. Memo' = "none"
      BY <3>2, <3>3 DEF Emit, Memo, InHeaders, InField
    <3>5. body_type' = body_type /\ Size' = Size
      BY <1>7, <1>8, <3>2, <3>3 DEF Emit, framing, Size, Sized
    <3>6. After(v, "none", p, l) =
              Gives(v, x, s, body_type', Size', "none", "end_of_headers", size)
      BY <1>4, <3>2, <3>3, AfterTells
    <3>7. HeadersEnd(v, x, size) =
              Gives(v, x, s, body_type, Size, "none", "end_of_headers", size)
      BY <1>4, <1>7, <2>4, <3>1 DEF HeadersEnd
    <3>8. After(v, Memo', p, l) = Step(v, x)
      BY <1>9, <3>4, <3>5, <3>6, <3>7
    <3> QED
      BY <1>2, <1>4, <3>8 DEF LeadsOn
  <2> QED
    BY <2>2, <2>3, <2>4
<1>10. CASE liberal_crlf(buf, i) = "crlf" /\ EndOfHeaders(2)
  BY <1>4, <1>5, <1>6, <1>9, <1>10 DEF EmptyLineStep
<1>11. CASE liberal_crlf(buf, i) = "lf" /\ EndOfHeaders(1)
  BY <1>4, <1>5, <1>6, <1>9, <1>11 DEF EmptyLineStep
<1>12. CASE Suspend("EXPECT_CRLF_AFTER_HEADERS", n)
  <2>1. Memo' = Memo
    BY <1>7, <1>12 DEF Suspend, Emit, Memo, InHeaders
  <2>2. SameSize("EXPECT_CRLF_AFTER_HEADERS")
    BY <1>8 DEF SameSize, Sized
  <2>3. After(v, Memo, p, l) =
            At(v, "EXPECT_CRLF_AFTER_HEADERS", body_type, Size, Memo, p, l)
    BY <1>1, <1>7, <1>12, <2>2, AfterWaits
  <2>4. Decides(v, "EXPECT_CRLF_AFTER_HEADERS", p)
    BY DEF Decides, BodyStates, OwsStates
  <2>5. After(v, Memo, p, l) = Before(v, Memo, p, l)
    BY <2>3, <2>4, AtDecides
  <2> QED
    BY <2>1, <2>5 DEF LeadsOn
<1>13. CASE liberal_crlf(buf, i) = "invalid_data" /\ Fail("error_invalid_data", n)
  <2>1. Step(v, x) = Fails(x, "error_invalid_data")
    BY <1>4, <1>5, <1>6, <1>13 DEF EmptyLineStep
  <2> QED
    BY <1>1, <1>3, <1>13, <2>1, InvalidData, RefusalLeads
<1> QED
  BY <1>10, <1>11, <1>12, <1>13 DEF CrlfAfterHeaders

(* A field name sets what is remembered, or is refused. *)
LEMMA NameSteps ==
    ASSUME NEW v, NEW p, NEW buf, NEW i, NEW n, Sees(v, p, buf, i, n), NEW l,
           state = "EXPECT_FIELD_NAME", body_type \in BodyType \ Reading,
           NEW x, Stands(x, v, Memo, p, l), x = Before(v, Memo, p, l), x.state = state,
           NEW size \in Nat, MaxRun(is_tchar, buf, i, size),
           FieldName(View(buf, i, i + size), size)
    PROVE  LeadsOn(v, p, l)
<1>1. p \in Nat /\ p # Len(v) /\ Len(v) \in Nat
  BY ONLY Sees(v, p, buf, i, n), SeesIs
<1>2. x.at = p /\ x.log = l /\ x.body_type = body_type /\ x.body_size = Size /\ x.memo = Memo
  BY DEF Stands
<1>3. PICK name : name = View(buf, i, i + size)
  OBVIOUS
<1>4. /\ RunEnd(is_tchar, v, p) # Len(v) /\ RunEnd(is_tchar, v, p) - p = size
      /\ View(v, p, RunEnd(is_tchar, v, p)) = name
  <2>1. /\ RunEnd(is_tchar, v, p) = p + size /\ p + size < Len(v)
        /\ RunEnd(is_tchar, v, p) - p = size /\ p + size \in Nat
        /\ View(v, p, p + size) = View(buf, i, i + size)
    BY RunIsSeen
  <2> QED
    BY <1>1, <1>3, <2>1
<1>5. Memo = version
  BY DEF Memo, InHeaders
<1>6. Size = IF body_type = "CONTENT_LENGTH_READ" THEN body_size ELSE 0
  BY DEF Size, Sized
<1> DEFINE here(t, z, w) == Gives(v, x, "EXPECT_COLON", t, z, w, "field_name", size)
<1>7. Step(v, x) =
        IF iequals(name, Host)
        THEN IF version = "NOT_HTTP_1_0_AND_HOST_READ" THEN Fails(x, "error_no_host")
             ELSE here(body_type, Size, IF version = "HTTP_1_0" THEN version
                                        ELSE "NOT_HTTP_1_0_AND_HOST_READ")
        ELSE IF iequals(name, TransferEncodingName)
        THEN IF body_type = "CHUNKED_ENCODING_READ"
             THEN Fails(x, "error_invalid_transfer_encoding")
             ELSE here("READING_ENCODING", 0, version)
        ELSE IF iequals(name, ContentLength)
        THEN IF body_type = "CONTENT_LENGTH_READ"
             THEN Fails(x, "error_invalid_content_length")
             ELSE here(IF body_type = "NO_BODY" THEN "READING_CONTENT_LENGTH"
                       ELSE body_type, Size, version)
        ELSE here(body_type, Size, version)
  <2>1. Step(v, x) = NameStep(v, x)
    <3>1. Step(v, x) = StartStep(v, x)
      BY <1>1, <1>2, StepIs DEF StartStates
    <3> QED
      BY <3>1 DEF StartStep
  <2> QED
    BY <1>2, <1>4, <1>5, <2>1 DEF NameStep
<1> HIDE DEF here
<1>8. ASSUME NEW code \in {"error_no_host", "error_invalid_transfer_encoding",
                           "error_invalid_content_length"},
             Fail(code, size), Step(v, x) = Fails(x, code)
      PROVE  LeadsOn(v, p, l)
  <2>1. code \in ErrorCode \ {INSUFFICIENT}
    BY <1>8 DEF ErrorCode, INSUFFICIENT
  <2> QED
    BY <1>1, <1>8, <2>1, RefusalLeads
<1>9. ASSUME Emit("EXPECT_COLON", "field_name", size), Step(v, x) = here(body_type', Size', version')
      PROVE  LeadsOn(v, p, l)
  <2>1. Memo' = version'
    BY <1>9 DEF Emit, Memo, InHeaders, InField
  <2>2. PICK w : w = Memo'
    OBVIOUS
  <2>3. After(v, w, p, l) = Gives(v, x, "EXPECT_COLON", body_type', Size', w, "field_name", size)
    BY <1>2, <1>9, AfterTells DEF INSUFFICIENT
  <2> QED
    BY <1>2, <1>9, <2>1, <2>2, <2>3 DEF LeadsOn, here
<1>10. Emit("EXPECT_COLON", "field_name", size) =>
          Size' = IF body_type' = "CONTENT_LENGTH_READ" THEN body_size' ELSE 0
  BY DEF Emit, Size, Sized
<1>11. CASE iequals(name, Host) /\ HostName(size)
  <2>1. CASE version = "NOT_HTTP_1_0_AND_HOST_READ"
    BY <1>7, <1>8, <1>11, <2>1 DEF HostName
  <2>2. CASE version # "NOT_HTTP_1_0_AND_HOST_READ"
    <3>1. /\ Emit("EXPECT_COLON", "field_name", size) /\ UNCHANGED framing
          /\ version' = IF version = "HTTP_1_0" THEN version ELSE "NOT_HTTP_1_0_AND_HOST_READ"
      BY <1>11, <2>2 DEF HostName
    <3>2. body_type' = body_type /\ Size' = Size
      BY <1>6, <1>10, <3>1 DEF framing
    <3> QED
      BY <1>7, <1>9, <1>11, <2>2, <3>1, <3>2
  <2> QED
    BY <2>1, <2>2
<1>12. CASE /\ ~iequals(name, Host) /\ version' = version
            /\ iequals(name, TransferEncodingName) /\ TransferEncodingField(size, "NO_BODY")
  <2>1. CASE body_type = "CHUNKED_ENCODING_READ"
    BY <1>7, <1>8, <1>12, <2>1 DEF TransferEncodingField
  <2>2. CASE body_type # "CHUNKED_ENCODING_READ"
    <3>1. Emit("EXPECT_COLON", "field_name", size) /\ body_type' = "READING_ENCODING"
      BY <1>12, <2>2 DEF TransferEncodingField
    <3>2. Size' = 0
      BY <1>10, <3>1
    <3> QED
      BY <1>7, <1>9, <1>12, <2>2, <3>1, <3>2
  <2> QED
    BY <2>1, <2>2
<1>13. CASE /\ ~iequals(name, Host) /\ version' = version
            /\ iequals(name, ContentLength) /\ ContentLengthField(size, "NO_BODY")
            /\ ~iequals(name, TransferEncodingName)
  <2>1. CASE body_type = "CONTENT_LENGTH_READ"
    BY <1>7, <1>8, <1>13, <2>1 DEF ContentLengthField
  <2>2. CASE body_type # "CONTENT_LENGTH_READ"
    <3>1. /\ Emit("EXPECT_COLON", "field_name", size)
          /\ body_type' = IF body_type = "NO_BODY" THEN "READING_CONTENT_LENGTH" ELSE body_type
      BY <1>13, <2>2 DEF ContentLengthField
    <3>2. Size' = Size
      BY <1>6, <1>10, <2>2, <3>1
    <3> QED
      BY <1>7, <1>9, <1>13, <2>2, <3>1, <3>2
  <2> QED
    BY <2>1, <2>2
<1>14. CASE /\ ~iequals(name, Host) /\ version' = version
            /\ \A known \in {TransferEncodingName, ContentLength} : ~iequals(name, known)
            /\ OtherField(size)
  <2>1. Emit("EXPECT_COLON", "field_name", size) /\ UNCHANGED framing
    BY <1>14 DEF OtherField
  <2>2. body_type' = body_type /\ Size' = Size
    BY <1>6, <1>10, <2>1 DEF framing
  <2> QED
    BY <1>7, <1>9, <1>14, <2>1, <2>2
<1>15. ~(iequals(name, TransferEncodingName) /\ iequals(name, ContentLength))
  BY LiteralsAssumption, SameName
<1> QED
  BY <1>3, <1>11, <1>12, <1>13, <1>14, <1>15 DEF FieldName

(* A field name, or the empty line in its place. *)
LEMMA NameLeads ==
    ASSUME ReaderOK, FramingConsistent, NEW v, NEW p, NEW buf, NEW i, NEW n,
           Sees(v, p, buf, i, n), NEW l,
           ExpectFieldName(buf, i, n) \/ ExpectCrlfAfterHeaders(buf, i, n)
    PROVE  LeadsOn(v, p, l)
<1>1. /\ p \in Nat /\ p < Len(v) /\ Len(v) \in Nat /\ v[p + 1] = buf[i + 1]
      /\ i \in Nat /\ Len(buf) \in Nat /\ i < Len(buf)
  BY ONLY Sees(v, p, buf, i, n), SeesIs
<1>2. CASE ExpectCrlfAfterHeaders(buf, i, n)
  <2>1. state = "EXPECT_CRLF_AFTER_HEADERS" /\ CrlfAfterHeaders(buf, i, n)
    BY <1>2 DEF ExpectCrlfAfterHeaders
  <2>2. Before(v, Memo, p, l) =
           Spot("EXPECT_CRLF_AFTER_HEADERS", body_type, Size, Memo, p, l)
    BY <2>1 DEF Before, At
  <2> QED
    BY <2>1, <2>2, HeadersEndLeads
<1>3. CASE ExpectFieldName(buf, i, n)
  <2>1. PICK e \in i..Len(buf) :
         /\ state = "EXPECT_FIELD_NAME"
         /\ Run(is_tchar, buf, i, e)
         /\ \/ e = i /\ CrlfAfterHeaders(buf, i, n)
            \/ e > i /\ e = Len(buf) /\ Suspend(state, n) /\ UNCHANGED <<framing, version>>
            \/ e > i /\ e < Len(buf) /\ FieldName(View(buf, i, e), e - i)
    BY <1>3 DEF ExpectFieldName
  <2>2. CASE e = i /\ CrlfAfterHeaders(buf, i, n)
    <3>1. v[p + 1] \notin is_tchar
      BY <1>1, <2>1, <2>2 DEF Run
    <3>2. Before(v, Memo, p, l) =
             Spot("EXPECT_CRLF_AFTER_HEADERS", body_type, Size, Memo, p, l)
      BY <1>1, <2>1, <3>1 DEF Before, At
    <3> QED
      BY <2>1, <2>2, <3>2, HeadersEndLeads
  <2>3. CASE e > i /\ Suspend(state, n) /\ UNCHANGED <<framing, version>>
    <3>1. Memo' = Memo
      BY <2>3 DEF Suspend, Emit, Memo
    <3>2. After(v, Memo, p, l) = Before(v, Memo, p, l)
      BY <1>1, <2>1, <2>3, AfterStays
    <3> QED
      BY <3>1, <3>2 DEF LeadsOn
  <2>4. CASE e > i /\ e < Len(buf) /\ FieldName(View(buf, i, e), e - i)
    <3>1. PICK size : size = e - i
      OBVIOUS
    <3>2. size \in Nat /\ i + size = e /\ MaxRun(is_tchar, buf, i, size)
      <4>1. size \in Nat /\ i + size = e /\ \A k \in 1..size : i + k \in (i + 1)..e
        BY <1>1, <2>1, <2>4, <3>1
      <4>2. buf[e + 1] \notin is_tchar /\ \A k \in (i + 1)..e : buf[k] \in is_tchar
        BY <1>1, <2>1, <2>4 DEF Run
      <4> QED
        BY <2>4, <4>1, <4>2 DEF MaxRun
    <3>3. v[p + 1] \in is_tchar
      BY <1>1, <2>1, <2>4 DEF Run
    <3>4. Decides(v, state, p)
      BY <2>1, <3>3 DEF Decides, BodyStates, OwsStates
    <3>5. /\ Stands(Before(v, Memo, p, l), v, Memo, p, l)
          /\ Before(v, Memo, p, l).state = state
      BY <3>4, DecidesStands
    <3>6. body_type \in BodyType \ Reading
      BY <2>1 DEF ReaderOK, FramingConsistent, FramingSuits, BodySuits, InField
    <3> QED
      BY <2>1, <2>4, <3>1, <3>2, <3>5, <3>6, NameSteps
  <2> QED
    BY <2>1, <2>2, <2>3, <2>4
<1> QED
  BY <1>2, <1>3

-----------------------------------------------------------------------------
(* next() leads from the place of the reader to the same or the next one. *)

LEMMA EndLeads ==
    ASSUME FramingConsistent, version' = version, NEW v, NEW p \in Nat, NEW l,
           EndOfBody \/ EndOfMessage
    PROVE  LeadsOn(v, p, l)
<1>1. PICK x : x = Before(v, Memo, p, l)
  OBVIOUS
<1>2. state \in {"EXPECT_END_OF_BODY", "EXPECT_END_OF_MESSAGE"}
  BY DEF EndOfBody, EndOfMessage
<1>3. Decides(v, state, p)
  BY <1>2 DEF Decides, BodyStates, OwsStates
<1>4. Stands(x, v, Memo, p, l) /\ x.state = state
  BY <1>1, <1>3, DecidesStands
<1>5. Memo = "none" /\ "end_of_body" # INSUFFICIENT /\ "end_of_message" # INSUFFICIENT
  BY <1>2 DEF Memo, InHeaders, InField, INSUFFICIENT
<1>6. x.at = p /\ x.log = l /\ x.memo = "none"
  BY <1>4, <1>5 DEF Stands
<1>7. CASE EndOfBody
  <2>1. /\ Emit("EXPECT_END_OF_MESSAGE", "end_of_body", 0) /\ UNCHANGED framing
        /\ state = "EXPECT_END_OF_BODY"
    BY <1>7 DEF EndOfBody
  <2>2. Memo' = "none"
    BY <2>1 DEF Emit, Memo, InHeaders, InField
  <2>3. SameSize("EXPECT_END_OF_MESSAGE")
    BY <2>1 DEF SameSize, Size, Sized
  <2>4. After(v, Memo, p, l) = Moves(v, x, "EXPECT_END_OF_MESSAGE", "end_of_body", 0)
    BY <1>4, <1>5, <2>1, <2>3, AfterMoves
  <2>5. Step(v, x) = Moves(v, x, "EXPECT_END_OF_MESSAGE", "end_of_body", 0)
    BY <1>4, <2>1 DEF Step
  <2> QED
    BY <1>1, <1>5, <1>6, <2>2, <2>4, <2>5 DEF LeadsOn
<1>8. CASE EndOfMessage
  <2>1. /\ Emit("EXPECT_METHOD", "end_of_message", 0) /\ body_type' = "NO_BODY"
        /\ state = "EXPECT_END_OF_MESSAGE"
    BY <1>8 DEF EndOfMessage
  <2>2. Memo' = "none" /\ Size' = 0
    BY <2>1 DEF Emit, Memo, InHeaders, InField, Size, Sized
  <2>3. After(v, Memo, p, l) =
            Gives(v, x, "EXPECT_METHOD", body_type', Size', Memo, "end_of_message", 0)
    BY <1>4, <1>5, <2>1, AfterGives
  <2>4. Step(v, x) = Gives(v, x, "EXPECT_METHOD", "NO_BODY", 0, x.memo, "end_of_message", 0)
    BY <1>4, <2>1 DEF Step
  <2> QED
    BY <1>1, <1>5, <1>6, <2>1, <2>2, <2>3, <2>4 DEF LeadsOn
<1> QED
  BY <1>7, <1>8

LEMMA NextOnLeads ==
    ASSUME ReaderOK, TokenInsideBuffer, FramingConsistent, state # "ERRORED",
           NEW v \in Seq(Byte), NEW j \in Nat, Known(v, j), Shows(v, j, ibuffer, idx),
           NEW buf \in Seq(Byte), NEW pos \in Nat, pos + token_size_ <= Len(buf),
           Shows(v, j, buf, pos), NextOn(buf, pos), NEW l \in Seq(Entry)
    PROVE  Consumed \in Nat /\ idx' = pos + Consumed /\ LeadsOn(v, j + Consumed, l)
<1> DEFINE i == pos + Consumed
           n == token_size_ - Consumed
           p == j + Consumed
<1>1. Len(buf) \in Nat /\ token_size_ \in Nat /\ idx \in Nat /\ ibuffer \in Seq(Byte)
      /\ Len(v) \in Nat
  BY DEF ReaderOK
<1>2. /\ i \in Nat /\ n \in Nat /\ i + n = pos + token_size_ /\ Consumed \in Nat
      /\ p \in Nat
  BY <1>1 DEF Consumed
<1>3. CASE /\ idx' = pos + token_size_ /\ (EndOfBody \/ EndOfMessage)
           /\ UNCHANGED version
  <2>1. Consumed = token_size_
    BY <1>3 DEF Known, Waits, EndOfBody, EndOfMessage, Consumed
  <2> HIDE DEF p
  <2>2. LeadsOn(v, p, l)
    BY <1>2, <1>3, EndLeads
  <2> QED
    BY <1>2, <1>3, <2>1, <2>2 DEF p
<1>4. CASE idx' = i /\ i = Len(buf) /\ Suspend(state, n) /\ UNCHANGED <<framing, version>>
  <2> HIDE DEF p, n
  <2>1. After(v, Memo, p, l) = Before(v, Memo, p, l)
    BY <1>2, <1>4, AfterStays
  <2>2. Memo' = Memo
    BY <1>4 DEF Suspend, Emit, Memo
  <2>3. LeadsOn(v, p, l)
    BY <2>1, <2>2 DEF LeadsOn
  <2> QED
    BY <1>2, <1>4, <2>3 DEF p
<1>5. CASE idx' = i /\ i # Len(buf) /\ ReadToken(buf, i, n)
  <2>1. i + n <= Len(buf) /\ i < Len(buf)
    BY <1>1, <1>2, <1>5
  <2>2. Ahead(n, buf, i)
    BY <1>1, <2>1, BytesAhead DEF TokenInsideBuffer
  <2>3. Shows(v, p, buf, i)
    BY <1>1, <1>2, ShowsOn
  <2> HIDE DEF i, n, p
  <2>4. Sees(v, p, buf, i, n)
    BY <1>2, <2>1, <2>3 DEF Sees
  <2>5. LeadsOn(v, p, l)
    <3>1. CASE ExpectVersion(buf, i, n)
      BY <2>4, <3>1, VersionLeads
    <3>2. CASE ExpectFieldName(buf, i, n) \/ ExpectCrlfAfterHeaders(buf, i, n)
      BY <2>4, <3>2, NameLeads
    <3>3. CASE /\ \/ ExpectMethod(buf, i, n)
                  \/ ExpectSpAfterMethod(buf, i, n)
                  \/ ExpectRequestTarget(buf, i, n)
                  \/ ExpectStaticStrAfterTarget(buf, i, n)
                  \/ ExpectCrlfAfterVersion(buf, i, n)
               /\ UNCHANGED version
      BY <2>2, <2>4, <3>3, StartLeads
    <3>4. CASE /\ \/ FieldCase(buf, i, n)
                  \/ ExpectBody(buf, i, n)
                  \/ ChunkCase(buf, i, n)
                  \/ TrailerCase(buf, i, n, "EXPECT_METHOD", "NO_BODY")
               /\ UNCHANGED version
      BY <2>2, <2>4, <3>4, SharedLeads
    <3> QED
      BY <1>5, <3>1, <3>2, <3>3, <3>4 DEF ReadToken
  <2> QED
    BY <1>2, <1>5, <2>5 DEF p, i
<1> QED
  BY <1>3, <1>4, <1>5 DEF NextOn

-----------------------------------------------------------------------------
(* A reader that waits at the end of the stream does not go on. *)

LEMMA StartLineStays ==
    ASSUME NEW v \in Seq(Byte), NEW s, NEW t, NEW z, NEW w, NEW p \in 0..Len(v), p < Len(v),
           NEW l, NEW n \in Nat, Waits(s, n, v, p),
           s \in StartStates
    PROVE  StartStep(v, Spot(s, t, z, w, p, l)) = Spot(s, t, z, w, p, l)
<1>1. PICK x : x = Spot(s, t, z, w, p, l)
  OBVIOUS
<1>2. x.state = s /\ x.at = p /\ Len(v) \in Nat /\ p \in Nat /\ p # Len(v)
  BY <1>1, SpotIs
<1>3. CASE s = "EXPECT_METHOD"
  <2>1. RestIn(is_tchar, v, p)
    BY <1>3 DEF Waits, Scanned, ScanState, RestIn
  <2>2. RunEnd(is_tchar, v, p) = Len(v) /\ v[p + 1] \in is_tchar
    BY <2>1, RestRuns
  <2> QED
    BY <1>1, <1>2, <1>3, <2>2 DEF StartStep, ScanStep, RunStep
<1>4. CASE s = "EXPECT_REQUEST_TARGET"
  <2>1. RestIn(is_request_target_char, v, p)
    BY <1>4 DEF Waits, Scanned, ScanState, RestIn
  <2>2. RunEnd(is_request_target_char, v, p) = Len(v) /\ v[p + 1] \in is_request_target_char
    BY <2>1, RestRuns
  <2> QED
    BY <1>1, <1>2, <1>4, <2>2 DEF StartStep, ScanStep, RunStep
<1>5. CASE s = "EXPECT_STATIC_STR_AFTER_TARGET"
  <2>1. /\ n = Len(v) - p /\ n < Len(StaticStr) /\ \A k \in 1..n : v[p + k] = StaticStr[k]
    BY <1>5 DEF Waits, Scanned, LiteralState
  <2>2. LiteralStep(v, x, StaticStr, "EXPECT_VERSION") = x
    BY <1>2, <2>1 DEF LiteralStep
  <2> QED
    BY <1>1, <1>2, <1>5, <2>2 DEF StartStep
<1>6. CASE s = "EXPECT_FIELD_NAME"
  <2>1. RestIn(is_tchar, v, p)
    BY <1>6 DEF Waits
  <2>2. RunEnd(is_tchar, v, p) = Len(v)
    BY <2>1, RestRuns
  <2> QED
    BY <1>1, <1>2, <1>6, <2>2 DEF StartStep, NameStep
<1>7. CASE s \in {"EXPECT_CRLF_AFTER_VERSION", "EXPECT_CRLF_AFTER_HEADERS"}
  <2>1. Len(v) = p + 1 /\ v[p + 1] = CR
    BY <1>2, <1>7 DEF Waits
  <2>2. liberal_crlf(v, p) = "insufficient_data"
    BY <1>2, <2>1, LiberalWaits
  <2> QED
    BY <1>1, <1>2, <1>7, <2>2 DEF StartStep, LiberalStep, EmptyLineStep
<1>8. s \notin {"EXPECT_SP_AFTER_METHOD", "EXPECT_VERSION"}
  BY <1>2 DEF Waits
<1> QED
  BY <1>3, <1>4, <1>5, <1>6, <1>7, <1>8 DEF StartLine, StartStates

LEMMA WaitingStops ==
    ASSUME NEW v \in Seq(Byte), NEW s \in State, NEW t, NEW z, NEW w, NEW p \in 0..Len(v),
           NEW l, NEW n \in Nat, Waits(s, n, v, p)
    PROVE  Step(v, Spot(s, t, z, w, p, l)) = Spot(s, t, z, w, p, l)
<1>1. PICK x : x = Spot(s, t, z, w, p, l)
  OBVIOUS
<1>2. x.state = s /\ x.at = p /\ Len(v) \in Nat /\ p \in Nat
  BY <1>1, SpotIs
<1>3. s \notin {"ERRORED", "EXPECT_END_OF_BODY", "EXPECT_END_OF_MESSAGE"}
  BY DEF Waits
<1>4. CASE p = Len(v)
  BY <1>1, <1>2, <1>3, <1>4 DEF Step
<1>5. CASE p < Len(v)
  <2>1. s # "EXPECT_BODY"
    BY <1>2, <1>5 DEF Waits
  <2>2. \/ s \in SharedStates
        \/ s \in StartStates
    BY <1>3, <2>1 DEF State, MessageState, InHeaders, SharedStates, StartStates
  <2>3. CASE s \in SharedStates
    <3>1. SharedStep("EXPECT_METHOD", "NO_BODY", v, x) = x
      BY <1>1, <1>5, <2>3, WaitingStays
    <3> QED
      BY <1>1, <1>2, <1>5, <2>3, <3>1, StepIs
  <2>4. CASE s \in StartStates
    <3>1. StartStep(v, x) = x
      BY <1>1, <1>5, <2>4, StartLineStays
    <3> QED
      BY <1>1, <1>2, <1>5, <2>4, <3>1, StepIs
  <2> QED
    BY <2>2, <2>3, <2>4
<1> QED
  BY <1>2, <1>4, <1>5

-----------------------------------------------------------------------------
(* The driver. *)

PlacesOf(v) == Places(v, State, BodyType, Version \cup {"none"})

(* The machine that reads the stream v without a buffer. *)
Course(v) == Machine(PlacesOf(v), [x \in PlacesOf(v) |-> Step(v, x)])

StartPlace == Spot("EXPECT_METHOD", "NO_BODY", 0, "none", 0, <<>>)

(* How far the reader has come in the stream, and its place there. *)
Where == base + idx + Gone

Place == At(stream, state, body_type, Size, Memo, Where, log)

(* The buffer shows the stream at base, and the log is that of the bytes    *)
(* before the reader.                                                      *)
DriverOK == /\ ReaderOK /\ TokenInsideBuffer /\ FramingConsistent
            /\ stream \in Seq(Byte) /\ base \in Nat /\ received \in Nat
            /\ log \in Seq(Entry)
            /\ Shows(stream, base, ibuffer, 0)
            /\ Known(stream, base + idx)
            /\ Behind(log, Where)

DInv == DriverOK /\ OnCourse(Course(stream), StartPlace, Place, log, pass, whole)

LEMMA CourseIs ==
    ASSUME NEW v \in Seq(Byte)
    PROVE  /\ Course(v) \in [PlacesOf(v) -> PlacesOf(v)]
           /\ StartPlace \in PlacesOf(v)
           /\ \A x \in PlacesOf(v) : x.log \in Seq(Entry)
           /\ \A x \in PlacesOf(v) : Step(v, x) = x => Course(v)[x] = x
           /\ \A x \in PlacesOf(v) :
                 Step(v, x) \in PlacesOf(v) /\ Agrees(x.log, Step(v, x).log, FALSE) =>
                     Course(v)[x] = Step(v, x)
<1> DEFINE D == PlacesOf(v)
           G == [x \in D |-> Step(v, x)]
<1>1. \A x \in D : x.log \in Seq(Entry)
  BY PlaceLogs DEF PlacesOf
<1>2. StartPlace \in D
  <2>1. Decides(v, "EXPECT_METHOD", 0)
    BY DEF Decides, BodyStates, OwsStates
  <2>2. At(v, "EXPECT_METHOD", "NO_BODY", 0, "none", 0, <<>>) = StartPlace
    BY <2>1, AtDecides DEF StartPlace
  <2>3. /\ "EXPECT_METHOD" \in State /\ "NO_BODY" \in BodyType /\ 0 \in 0..Len(v)
        /\ "none" \in Version \cup {"none"} /\ <<>> \in Seq(Entry)
    BY DEF State, StartLine, BodyType
  <2>4. At(v, "EXPECT_METHOD", "NO_BODY", 0, "none", 0, <<>>)
          \in Places(v, State, BodyType, Version \cup {"none"})
    BY <2>3, PlaceIs
  <2> QED
    BY <2>2, <2>4 DEF PlacesOf
<1> HIDE DEF D
<1>3. \A x \in D : G[x] = Step(v, x)
  OBVIOUS
<1>4. Course(v) = Machine(D, G)
  BY DEF Course, D
<1> HIDE DEF G
<1>5. /\ Course(v) \in [D -> D]
      /\ \A x \in D : G[x] \in D /\ Agrees(x.log, G[x].log, FALSE) => Course(v)[x] = G[x]
      /\ \A x \in D : G[x] = x => Course(v)[x] = x
  <2>1. /\ Machine(D, G) \in [D -> D]
        /\ \A x \in D : G[x] \in D /\ Agrees(x.log, G[x].log, FALSE) =>
                          Machine(D, G)[x] = G[x]
        /\ \A x \in D : G[x] = x => Machine(D, G)[x] = x
    BY ONLY MachineIs
  <2> QED
    BY ONLY <1>4, <2>1
<1>6. \A x \in D : Step(v, x) = x => Course(v)[x] = x
  BY <1>3, <1>5
<1>7. \A x \in D : Step(v, x) \in D /\ Agrees(x.log, Step(v, x).log, FALSE) =>
                     Course(v)[x] = Step(v, x)
  BY <1>3, <1>5
<1> QED
  BY <1>1, <1>2, <1>5, <1>6, <1>7 DEF D

LEMMA PlaceTyped ==
    ASSUME NEW v \in Seq(Byte), NEW s \in State, NEW t \in BodyType, NEW z \in Nat,
           NEW w \in Version \cup {"none"}, NEW at \in 0..Len(v), NEW l \in Seq(Entry),
           Behind(l, at)
    PROVE  /\ At(v, s, t, z, w, at, l) \in PlacesOf(v)
           /\ Agrees(l, At(v, s, t, z, w, at, l).log, FALSE)
BY PlaceIs, AtLog DEF PlacesOf

LEMMA PlaceOK ==
    ASSUME DriverOK
    PROVE  /\ Place \in PlacesOf(stream) /\ Agrees(log, Place.log, FALSE)
           /\ Where \in 0..Len(stream) /\ Size \in Nat /\ Memo \in Version \cup {"none"}
<1>1. Where \in 0..Len(stream)
  BY Inside DEF DriverOK, ReaderOK, TokenInsideBuffer, Where, Gone
<1>2. Size \in Nat
  BY DEF DriverOK, ReaderOK, Size, Uint
<1>3. Memo \in Version \cup {"none"}
  BY DEF DriverOK, ReaderOK, Memo
<1> QED
  BY <1>1, <1>2, <1>3, PlaceTyped DEF DriverOK, ReaderOK, Place

LEMMA PlaceOKNext ==
    ASSUME DriverOK'
    PROVE  Place' \in PlacesOf(stream') /\ Agrees(log', Place'.log, FALSE)
<1>1. Where' \in 0..Len(stream')
  BY Inside DEF DriverOK, ReaderOK, TokenInsideBuffer, Where, Gone
<1>2. Size' \in Nat
  BY DEF DriverOK, ReaderOK, Size, Uint
<1>3. Memo' \in Version \cup {"none"}
  BY DEF DriverOK, ReaderOK, Memo
<1> QED
  BY <1>1, <1>2, <1>3, PlaceTyped DEF DriverOK, ReaderOK, Place

(* next() on a buffer that shows the stream at base'. *)
LEMMA NextOnDrives ==
    ASSUME DriverOK, state # "ERRORED", stream' = stream, base' \in Nat, received' \in Nat,
           NEW buf \in Seq(Byte), NEW pos \in Nat, base' + pos = base + idx,
           pos + token_size_ <= Len(buf), Shows(stream, base', buf, 0),
           NextOn(buf, pos), RecordToken
    PROVE  DriverOK' /\ (Place' = Place \/ Place' = Course(stream)[Place])
<1>1. /\ ReaderOK /\ TokenInsideBuffer /\ FramingConsistent /\ stream \in Seq(Byte)
      /\ base \in Nat /\ log \in Seq(Entry) /\ idx \in Nat /\ token_size_ \in Nat
      /\ ibuffer \in Seq(Byte)
  BY DEF DriverOK, ReaderOK
<1>2. PICK j \in Nat : j = base + idx
  BY <1>1
<1>3. Known(stream, j)
  BY <1>2 DEF DriverOK
<1>4. Shows(stream, j, ibuffer, idx)
  <2>1. Shows(stream, base, ibuffer, 0) /\ Len(ibuffer) \in Nat /\ Len(stream) \in Nat
    BY <1>1 DEF DriverOK
  <2>2. Shows(stream, base + idx, ibuffer, 0 + idx)
    BY <1>1, <2>1, ShowsOn
  <2> QED
    BY <1>1, <1>2, <2>2
<1>5. Shows(stream, j, buf, pos)
  <2>0. /\ base' \in Nat /\ pos \in Nat /\ 0 \in Nat /\ Len(buf) \in Nat
        /\ Len(stream) \in Nat /\ Shows(stream, base', buf, 0)
    BY <1>1
  <2>1. Shows(stream, base' + pos, buf, 0 + pos)
    BY ONLY <2>0, ShowsOn
  <2>2. 0 + pos = pos /\ base' + pos = j
    BY <1>2
  <2> QED
    BY ONLY <2>1, <2>2
<1>6. ibuffer' = buf /\ idx' \in Nat /\ Post(buf, idx')
  BY <1>1, NextOnPost
<1>7. Consumed \in Nat /\ idx' = pos + Consumed /\ LeadsOn(stream, j + Consumed, log)
  BY <1>1, <1>3, <1>4, <1>5, NextOnLeads
<1>8. PICK p \in Nat : p = j + Consumed
  BY <1>7
<1>9. Where = p /\ base' + idx' = p
  <2>1. Gone = Consumed
    BY DEF Gone, Consumed
  <2>2. PICK b \in Nat, c \in Nat : b = base' /\ c = Consumed
    BY <1>7
  <2>3. b + pos = j /\ p = j + c
    BY <1>2, <1>8, <2>2
  <2>4. base' + idx' = b + (pos + c)
    BY <1>7, <2>2
  <2>5. b + (pos + c) = p
    BY <2>3
  <2>6. Where = p
    BY <1>2, <1>8, <2>1 DEF Where
  <2> QED
    BY <2>4, <2>5, <2>6
<1>10. Known(stream, base + idx)'
  <2>1. /\ idx' \in pos..Len(buf)
        /\ \/ Read(buf, idx')
           \/ /\ idx' = pos + Consumed /\ state' = state /\ code_' = INSUFFICIENT
              /\ Waits(state', token_size_', buf, idx')
    BY <1>1, <1>3, <1>4, <1>5, NextOnReads
  <2>2. Consumed' \in Nat
    BY <1>6 DEF Post, Consumed
  <2>3. p = j + (idx' - pos)
    BY <1>7, <1>8
  <2>4. /\ code_' = INSUFFICIENT => Waits(state', token_size_', ibuffer', idx')
        /\ state' \in ValueState => InkAt(stream, p + Consumed')
        /\ state' = "ERRORED" => code_' \in ErrorCode \ {INSUFFICIENT}
    BY <1>1, <1>3, <1>5, <1>6, <1>7, <2>1, <2>2, <2>3, KnownRead
  <2> QED
    BY <1>9, <2>4 DEF Known
<1>11. log' = Record(log, code_', p, p + token_size_')
  BY <1>9 DEF RecordToken
<1>12. /\ log' \in Seq(Entry) /\ Agrees(log, log', FALSE) /\ Behind(log', p + Gone')
  <2>1. code_' \in Code /\ token_size_' \in Nat
    BY <1>6 DEF Post, RequestCode
  <2>2. state' = "ERRORED" => code_' \in ErrorCode \ {INSUFFICIENT}
    BY <1>10 DEF Known
  <2>3. Behind(log, p)
    BY <1>9 DEF DriverOK
  <2> QED
    BY <1>1, <1>11, <2>1, <2>2, <2>3, LogKeepsUp
<1>13. Where' = p + Gone'
  BY <1>9 DEF Where
<1>14. DriverOK'
  <2>1. ReaderOK' /\ TokenInsideBuffer' /\ FramingConsistent'
    BY <1>6 DEF Post, ReaderOK, TokenInsideBuffer
  <2> QED
    BY <1>1, <1>6, <1>10, <1>12, <1>13, <2>1 DEF DriverOK
<1>15. Place = Before(stream, Memo, p, log)
  BY <1>9 DEF Place, Before
<1>16. Place' = After(stream, Memo', p, log)
  BY <1>11, <1>13 DEF Place, After
<1>17. CASE After(stream, Memo', p, log) = Before(stream, Memo, p, log)
  BY <1>14, <1>15, <1>16, <1>17
<1>18. CASE /\ Place.at = p /\ Place.log = log /\ Place' = Step(stream, Place)
  <2>1. Place \in PlacesOf(stream) /\ Place' \in PlacesOf(stream) /\ Agrees(log', Place'.log, FALSE)
    BY <1>14, PlaceOK, PlaceOKNext
  <2>2. Place'.log \in Seq(Entry)
    BY <1>1, <2>1, CourseIs
  <2>3. Agrees(Place.log, Place'.log, FALSE)
    BY <1>1, <1>12, <1>18, <2>1, <2>2, AgreesOn
  <2>4. Course(stream)[Place] = Place'
    BY <1>1, <1>18, <2>1, <2>3, CourseIs
  <2> QED
    BY <1>14, <2>4
<1> QED
  BY <1>7, <1>8, <1>15, <1>16, <1>17, <1>18 DEF LeadsOn

(* A driver that is finished has come to where the machine stops. *)
LEMMA FinishedStops ==
    ASSUME DriverOK, Finished
    PROVE  Course(stream)[Place] = Place /\ Place.log = log
<1>1. /\ ReaderOK /\ TokenInsideBuffer /\ FramingConsistent /\ stream \in Seq(Byte)
      /\ base \in Nat /\ log \in Seq(Entry) /\ idx \in Nat /\ token_size_ \in Nat
      /\ ibuffer \in Seq(Byte) /\ state \in State
  BY DEF DriverOK, ReaderOK
<1>2. /\ Place \in PlacesOf(stream) /\ Where \in 0..Len(stream) /\ Size \in Nat
  BY PlaceOK
<1>3. ASSUME Step(stream, Place) = Place PROVE Course(stream)[Place] = Place
  BY <1>1, <1>2, <1>3, CourseIs
<1>4. CASE state = "ERRORED"
  <2>1. Place = Spot("ERRORED", "none", 0, "none", Where, log)
    BY <1>4 DEF Place, At
  <2>2. Place.state = "ERRORED" /\ Place.log = log
    BY <2>1, SpotIs
  <2>3. Step(stream, Place) = Place
    BY <2>2 DEF Step, SharedStates, InField, InChunks, InTrailers, StartStep
  <2> QED
    BY <1>3, <2>2, <2>3
<1>5. CASE code_ = INSUFFICIENT /\ base + Len(ibuffer) = Len(stream)
  <2>1. Where = base + idx
    BY <1>1, <1>5 DEF Where, Gone
  <2>2. Waits(state, token_size_, ibuffer, idx)
    BY <1>5 DEF DriverOK, Known
  <2>3. PICK j \in Nat : j = base + idx
    BY <1>1
  <2>4. /\ Len(ibuffer) \in Nat /\ Len(stream) \in Nat /\ idx + token_size_ <= Len(ibuffer)
        /\ idx <= Len(ibuffer) /\ j <= Len(stream) /\ Len(stream) - j = Len(ibuffer) - idx
    BY <1>1, <1>5, <2>3 DEF TokenInsideBuffer
  <2>5. \A k \in 1..(Len(ibuffer) - idx) : stream[j + k] = ibuffer[idx + k]
    <3>1. Shows(stream, base + idx, ibuffer, 0 + idx)
      BY <1>1, <2>4, ShowsOn DEF DriverOK
    <3>2. Shows(stream, j, ibuffer, idx)
      BY <1>1, <2>3, <3>1
    <3> QED
      BY <3>2 DEF Shows
  <2>6. Waits(state, token_size_, stream, j)
    BY <1>1, <2>2, <2>4, <2>5, WaitsIsShown
  <2>7. state \in {"EXPECT_BODY", "EXPECT_CHUNK_DATA"} => Size > 0
    BY <1>1 DEF FramingConsistent, FramingSuits, BodySuits, Size, Sized, ReaderOK, Uint
  <2>8. j \in 0..Len(stream)
    BY <2>4
  <2>9. Place = Spot(state, body_type, Size, Memo, j, log)
    BY <1>1, <1>2, <2>1, <2>3, <2>6, <2>7, <2>8, WaitingPlace DEF Place
  <2>10. Step(stream, Place) = Place
    BY <1>1, <2>6, <2>8, <2>9, WaitingStops
  <2>11. Place.log = log
    BY <2>9, SpotIs
  <2> QED
    BY <1>3, <2>10, <2>11
<1> QED
  BY <1>4, <1>5 DEF Finished

(* Before the first byte. *)
LEMMA FreshOK ==
    ASSUME stream \in Seq(Byte), version \in Version, body_size \in Uint,
           state = "EXPECT_METHOD", body_type = "NO_BODY", code_ = INSUFFICIENT,
           idx = 0, token_size_ = 0, ibuffer = <<>>, base = 0, received = 0, log = <<>>
    PROVE  DriverOK /\ Place = StartPlace
<1>1. Waits("EXPECT_METHOD", 0, <<>>, 0)
  BY StartWaits
<1>2. Known(stream, base + idx)
  BY <1>1 DEF Known, ValueState
<1>3. ReaderOK
  BY DEF ReaderOK, State, StartLine, BodyType, RequestCode, Code, INSUFFICIENT, ErrorCode
<1>4. TokenInsideBuffer /\ Shows(stream, base, ibuffer, 0)
  BY DEF TokenInsideBuffer, Shows
<1>5. FramingConsistent
  BY DEF FramingConsistent, FramingSuits, BodySuits, Reading, InChunks, InTrailers
<1>6. Where = 0 /\ Behind(log, Where) /\ log \in Seq(Entry)
  BY DEF Where, Gone, Behind
<1>7. DriverOK
  BY <1>2, <1>3, <1>4, <1>5, <1>6 DEF DriverOK
<1>8. Size = 0 /\ Memo = "none"
  BY DEF Size, Sized, Memo, InHeaders, InField
<1>9. Place = At(stream, "EXPECT_METHOD", "NO_BODY", 0, "none", 0, <<>>)
  BY <1>6, <1>8 DEF Place
<1>10. Decides(stream, "EXPECT_METHOD", 0)
  BY DEF Decides, BodyStates, OwsStates
<1>11. Place = StartPlace
  BY <1>9, <1>10, AtDecides DEF StartPlace
<1> QED
  BY <1>7, <1>11

LEMMA FreshOKNext ==
    ASSUME (stream \in Seq(Byte))', (version \in Version)', (body_size \in Uint)',
           state' = "EXPECT_METHOD", body_type' = "NO_BODY", code_' = INSUFFICIENT,
           idx' = 0, token_size_' = 0, ibuffer' = <<>>, base' = 0, received' = 0, log' = <<>>
    PROVE  DriverOK' /\ Place' = StartPlace
<1>1. Waits("EXPECT_METHOD", 0, <<>>, 0)
  BY StartWaits
<1>2. Known(stream, base + idx)'
  BY <1>1 DEF Known, ValueState
<1>3. ReaderOK'
  BY DEF ReaderOK, State, StartLine, BodyType, RequestCode, Code, INSUFFICIENT, ErrorCode
<1>4. TokenInsideBuffer' /\ Shows(stream, base, ibuffer, 0)'
  BY DEF TokenInsideBuffer, Shows
<1>5. FramingConsistent'
  BY DEF FramingConsistent, FramingSuits, BodySuits, Reading, InChunks, InTrailers
<1>6. Where' = 0 /\ Behind(log, Where)' /\ log' \in Seq(Entry)
  BY DEF Where, Gone, Behind
<1>7. DriverOK'
  BY <1>2, <1>3, <1>4, <1>5, <1>6 DEF DriverOK
<1>8. Size' = 0 /\ Memo' = "none"
  BY DEF Size, Sized, Memo, InHeaders, InField
<1>9. Place' = At(stream', "EXPECT_METHOD", "NO_BODY", 0, "none", 0, <<>>)
  BY <1>6, <1>8 DEF Place
<1>10. Decides(stream, "EXPECT_METHOD", 0)'
  BY DEF Decides, BodyStates, OwsStates
<1>11. Place' = StartPlace
  BY <1>9, <1>10, AtDecides DEF StartPlace
<1> QED
  BY <1>7, <1>11

(* A step that changes nothing of the reader and its stream. *)
LEMMA SameOK ==
    ASSUME DriverOK, reader' = reader, stream' = stream, base' = base, received' = received,
           log' = log
    PROVE  DriverOK' /\ Place' = Place
<1>1. /\ state' = state /\ code_' = code_ /\ idx' = idx /\ token_size_' = token_size_
      /\ ibuffer' = ibuffer /\ body_type' = body_type /\ body_size' = body_size
      /\ version' = version
  BY DEF reader, framing
<1>2. Gone' = Gone /\ Size' = Size /\ Memo' = Memo /\ Consumed' = Consumed
  BY <1>1 DEF Gone, Size, Memo, Consumed
<1>3. Where' = Where
  BY <1>1, <1>2 DEF Where
<1>4. Known(stream, base + idx)'
  BY <1>1, <1>2 DEF DriverOK, Known
<1>5. ReaderOK' /\ TokenInsideBuffer' /\ FramingConsistent'
  BY <1>1 DEF DriverOK, ReaderOK, TokenInsideBuffer, FramingConsistent
<1>6. DriverOK'
  BY <1>1, <1>3, <1>4, <1>5 DEF DriverOK
<1>7. Place' = Place
  BY <1>1, <1>2, <1>3 DEF Place
<1> QED
  BY <1>6, <1>7

LEMMA InitDInv == ASSUME DriverInit PROVE DInv
<1>1. stream \in Seq(Byte)
  BY DriverAssumption DEF DriverInit
<1>2. version \in Version /\ body_size \in Uint
  BY DEF DriverInit, ReaderInit
<1>3. DriverOK /\ Place = StartPlace
  BY <1>1, <1>2, FreshOK DEF DriverInit, ReaderInit
<1>4. StartPlace \in Way(Course(stream), StartPlace)
  BY <1>1, CourseIs, WayStarts
<1>5. pass = "whole"
  BY DEF DriverInit
<1> QED
  BY <1>3, <1>4, <1>5 DEF DInv, OnCourse

(* One step of the loop. *)
LEMMA LoopGoesOn ==
    ASSUME DInv, pass # "done", DriverOK', stream' = stream, pass' = pass, whole' = whole,
           Place' = Place \/ Place' = Course(stream)[Place]
    PROVE  DInv'
<1>1. stream \in Seq(Byte) /\ DriverOK
  BY DEF DInv, DriverOK
<1>2. /\ Course(stream) \in [PlacesOf(stream) -> PlacesOf(stream)]
      /\ StartPlace \in PlacesOf(stream)
  BY <1>1, CourseIs
<1>3. Place \in PlacesOf(stream) /\ Place' \in PlacesOf(stream)
  BY <1>1, PlaceOK, PlaceOKNext
<1>4. PICK F, D, x, y : F = Course(stream) /\ D = PlacesOf(stream) /\ x = Place /\ y = Place'
  OBVIOUS
<1>5. OnCourse(F, StartPlace, x, log, pass, whole)
  BY <1>4 DEF DInv
<1>6. OnCourse(F, StartPlace, y, log', pass, whole)
  <2>1. /\ F \in [D -> D] /\ StartPlace \in D /\ x \in D /\ y \in D /\ (y = x \/ y = F[x])
        /\ pass # "done"
    BY <1>2, <1>3, <1>4
  <2> QED
    BY ONLY <1>5, <2>1, CourseGoesOn
<1> QED
  BY <1>4, <1>6 DEF DInv

LEMMA ReadyReadDInv == ASSUME DInv, pass # "done", ReadyRead PROVE DInv'
<1>1. /\ DriverOK /\ stream \in Seq(Byte) /\ base \in Nat /\ received \in Nat
      /\ idx \in Nat /\ token_size_ \in Nat /\ ibuffer \in Seq(Byte)
      /\ idx + token_size_ <= Len(ibuffer)
  BY DEF DInv, DriverOK, ReaderOK, TokenInsideBuffer
<1>2. PICK k \in 0..(Len(stream) - received) :
         /\ received + k > base + Len(ibuffer)
         /\ received' = received + k
         /\ set_buffer(View(stream, base + idx, received + k))
         /\ base' = base + idx
         /\ RecordToken
  BY DEF ReadyRead
<1>3. code_ = INSUFFICIENT /\ stream' = stream /\ pass' = pass /\ whole' = whole
  BY DEF ReadyRead
<1>4. state # "ERRORED"
  BY <1>1, <1>3 DEF DriverOK, Known
<1>5. PICK j \in Nat, e \in Nat : j = base + idx /\ e = received + k
  BY <1>1, <1>2
<1>6. Len(stream) \in Nat /\ Len(ibuffer) \in Nat /\ e \in j..Len(stream) /\ token_size_ <= e - j
  BY <1>1, <1>2, <1>5
<1>7. Shows(stream, j, stream, j)
  BY DEF Shows
<1>8. PICK buf : buf = View(stream, j, e)
  OBVIOUS
<1>9. buf \in Seq(Byte) /\ Len(buf) = e - j /\ Shows(stream, j, buf, 0)
  BY <1>1, <1>6, <1>7, <1>8, ViewShows
<1>10. NextOn(buf, 0)
  BY <1>2, <1>3, <1>5, <1>8 DEF set_buffer
<1>11. base' = j /\ base' + 0 = base + idx /\ received' \in Nat /\ 0 + token_size_ <= Len(buf)
  BY <1>1, <1>2, <1>5, <1>6, <1>9
<1>12. DriverOK' /\ (Place' = Place \/ Place' = Course(stream)[Place])
  BY <1>1, <1>2, <1>3, <1>4, <1>9, <1>10, <1>11, NextOnDrives
<1> QED
  BY <1>3, <1>12, LoopGoesOn

LEMMA TakeTokenDInv == ASSUME DInv, pass # "done", TakeToken PROVE DInv'
<1>1. /\ DriverOK /\ stream \in Seq(Byte) /\ base \in Nat /\ received \in Nat
      /\ idx \in Nat /\ token_size_ \in Nat /\ ibuffer \in Seq(Byte)
      /\ idx + token_size_ <= Len(ibuffer) /\ Shows(stream, base, ibuffer, 0)
  BY DEF DInv, DriverOK, ReaderOK, TokenInsideBuffer
<1>2. /\ symbol(code_) # "error" /\ NextOn(ibuffer, idx) /\ base' = base /\ RecordToken
      /\ stream' = stream /\ received' = received /\ pass' = pass /\ whole' = whole
  BY DEF TakeToken, next
<1>3. state # "ERRORED"
  BY <1>1, <1>2 DEF DriverOK, Known, symbol
<1>4. DriverOK' /\ (Place' = Place \/ Place' = Course(stream)[Place])
  BY <1>1, <1>2, <1>3, NextOnDrives
<1> QED
  BY <1>2, <1>4, LoopGoesOn

LEMMA CutDInv == ASSUME DInv, pass # "done", CutAtEndOfMessage PROVE DInv'
<1>1. /\ DriverOK /\ stream \in Seq(Byte) /\ base \in Nat /\ received \in Nat
      /\ idx \in Nat /\ token_size_ \in Nat /\ ibuffer \in Seq(Byte)
      /\ idx + token_size_ <= Len(ibuffer) /\ Shows(stream, base, ibuffer, 0)
      /\ Len(ibuffer) \in Nat /\ Len(stream) \in Nat
  BY DEF DInv, DriverOK, ReaderOK, TokenInsideBuffer
<1>2. code_ # INSUFFICIENT
  BY DEF CutAtEndOfMessage, INSUFFICIENT
<1>3. /\ ibuffer' = TokenBytes /\ idx' = 0 /\ base' = base + idx
      /\ state' = state /\ code_' = code_ /\ token_size_' = token_size_
      /\ body_type' = body_type /\ body_size' = body_size /\ version' = version
  BY <1>2 DEF CutAtEndOfMessage, set_buffer, framing
<1>4. stream' = stream /\ received' = received /\ log' = log /\ pass' = pass /\ whole' = whole
  BY DEF CutAtEndOfMessage
<1>5. Shows(stream, base + idx, ibuffer, 0 + idx)
  BY <1>1, ShowsOn
<1>6. PICK j \in Nat, e \in Nat : j = base + idx /\ e = idx + token_size_
  BY <1>1
<1>7. Shows(stream, j, ibuffer, idx) /\ e \in idx..Len(ibuffer) /\ e - idx = token_size_
  BY <1>1, <1>5, <1>6
<1>8. /\ ibuffer' \in Seq(Byte) /\ Len(ibuffer') = token_size_
      /\ Shows(stream, j, ibuffer', 0)
  BY <1>1, <1>3, <1>6, <1>7, ViewShows DEF TokenBytes
<1>9. base' = j /\ base' + idx' = base + idx
  BY <1>3, <1>6
<1>10. Gone' = Gone /\ Size' = Size /\ Memo' = Memo /\ Consumed' = Consumed
  BY <1>3 DEF Gone, Size, Memo, Consumed
<1>11. Where' = Where
  BY <1>9, <1>10 DEF Where
<1>12. Known(stream, base + idx)'
  <2>1. /\ state \in ValueState => InkAt(stream, base + idx + Consumed)
        /\ state = "ERRORED" => code_ \in ErrorCode \ {INSUFFICIENT}
    BY <1>1 DEF DriverOK, Known
  <2> QED
    BY <1>2, <1>3, <1>4, <1>9, <1>10, <2>1 DEF Known
<1>13. ReaderOK' /\ TokenInsideBuffer' /\ FramingConsistent'
  <2>1. ReaderOK'
    BY <1>1, <1>3, <1>8 DEF DriverOK, ReaderOK
  <2>2. TokenInsideBuffer'
    BY <1>1, <1>3, <1>8 DEF TokenInsideBuffer
  <2>3. FramingConsistent'
    BY <1>1, <1>3 DEF DriverOK, FramingConsistent
  <2> QED
    BY <2>1, <2>2, <2>3
<1>14. DriverOK'
  BY <1>1, <1>4, <1>8, <1>9, <1>11, <1>12, <1>13 DEF DriverOK
<1>15. Place' = Place
  BY <1>3, <1>4, <1>10, <1>11 DEF Place
<1> QED
  BY <1>4, <1>14, <1>15, LoopGoesOn

LEMMA SecondPassDInv == ASSUME DInv, SecondPass PROVE DInv'
<1>1. DriverOK /\ stream \in Seq(Byte) /\ version \in Version /\ body_size \in Uint
  BY DEF DInv, DriverOK, ReaderOK
<1>2. /\ stream' = stream /\ version' = version /\ body_size' = body_size
      /\ state' = "EXPECT_METHOD" /\ body_type' = "NO_BODY" /\ code_' = INSUFFICIENT
      /\ idx' = 0 /\ token_size_' = 0 /\ ibuffer' = <<>>
      /\ base' = 0 /\ received' = 0 /\ log' = <<>>
      /\ pass = "whole" /\ pass' = "pieces" /\ whole' = log /\ Finished
  BY DEF SecondPass, reset
<1>3. (stream \in Seq(Byte))' /\ (version \in Version)' /\ (body_size \in Uint)'
  BY <1>1, <1>2
<1>4. DriverOK' /\ Place' = StartPlace
  BY <1>2, <1>3, FreshOKNext
<1>5. Course(stream)[Place] = Place /\ Place.log = log
  BY <1>1, <1>2, FinishedStops
<1>6. OnCourse(Course(stream), StartPlace, Place, log, "whole", whole)
  BY <1>2 DEF DInv
<1>7. OnCourse(Course(stream), StartPlace, StartPlace, log', "pieces", log)
  BY ONLY <1>5, <1>6, CourseTurns
<1> QED
  BY <1>2, <1>4, <1>7 DEF DInv

LEMMA DoneDInv == ASSUME DInv, Done PROVE DInv'
<1>1. /\ reader' = reader /\ stream' = stream /\ base' = base /\ received' = received
      /\ log' = log /\ whole' = whole /\ pass = "pieces" /\ pass' = "done" /\ Finished
  BY DEF Done
<1>2. DriverOK' /\ Place' = Place
  BY <1>1, SameOK DEF DInv
<1>3. Course(stream)[Place] = Place /\ Place.log = log
  BY <1>1, FinishedStops DEF DInv
<1>4. OnCourse(Course(stream), StartPlace, Place, log, "pieces", whole)
  BY <1>1 DEF DInv
<1>5. OnCourse(Course(stream), StartPlace, Place, log, "done", whole)
  BY ONLY <1>3, <1>4, CourseEnds
<1> QED
  BY <1>1, <1>2, <1>5 DEF DInv

LEMMA NextDInv == ASSUME DInv, [DriverNext]_driver PROVE DInv'
<1>1. CASE Loop
  <2>1. pass # "done"
    BY <1>1 DEF Loop
  <2> QED
    BY <1>1, <2>1, ReadyReadDInv, CutDInv, TakeTokenDInv DEF Loop
<1>2. CASE SecondPass
  BY <1>2, SecondPassDInv
<1>3. CASE Done
  BY <1>3, DoneDInv
<1>4. CASE UNCHANGED driver
  <2>1. /\ reader' = reader /\ stream' = stream /\ base' = base /\ received' = received
        /\ log' = log /\ whole' = whole /\ pass' = pass
    BY <1>4 DEF driver
  <2>2. DriverOK' /\ Place' = Place
    BY <2>1, SameOK DEF DInv
  <2> QED
    BY <2>1, <2>2 DEF DInv
<1> QED
  BY <1>1, <1>2, <1>3, <1>4 DEF DriverNext

LEMMA CourseDecides == ASSUME DInv PROVE PiecesDoNotMatter
<1>1. DriverOK /\ stream \in Seq(Byte) /\ log \in Seq(Entry)
  BY DEF DInv, DriverOK
<1>2. PICK D, G, F, x : /\ D = PlacesOf(stream) /\ G = [y \in D |-> Step(stream, y)]
                        /\ F = Course(stream) /\ x = Place
  OBVIOUS
<1>3. F = Machine(D, G)
  BY <1>2 DEF Course
<1>4. \A y \in D : y.log \in Seq(Entry)
  BY <1>1, <1>2, CourseIs
<1>5. x \in D /\ Agrees(log, x.log, FALSE)
  BY <1>1, <1>2, PlaceOK
<1>6. OnCourse(F, StartPlace, x, log, pass, whole)
  BY <1>2 DEF DInv
<1>7. ASSUME pass # "whole" PROVE Agrees(log, whole, pass = "done")
  BY ONLY <1>1, <1>3, <1>4, <1>5, <1>6, <1>7, CourseAgrees
<1> QED
  BY <1>7 DEF PiecesDoNotMatter

(* "The strucutral and data tokens will always be emitted the same": for    *)
(* every stream, and whatever the pieces in which the socket hands it out, *)
(* a request reader gives the tokens, the bytes of each and the error that *)
(* it gives when the whole stream lies in one buffer.                      *)
THEOREM PiecesGiveTheSame == DriverSpec => []PiecesDoNotMatter
<1>1. DriverInit => DInv
  BY InitDInv
<1>2. DInv /\ [DriverNext]_driver => DInv'
  BY NextDInv
<1>3. DInv => PiecesDoNotMatter
  BY CourseDecides
<1> QED
  BY <1>1, <1>2, <1>3, PTL DEF DriverSpec
=============================================================================
