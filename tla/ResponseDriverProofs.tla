------------------------ MODULE ResponseDriverProofs ------------------------
(***************************************************************************)
(* That the pieces in which the responses of a connection arrive do not    *)
(* matter, and that the end of the connection is reported.                 *)
(*                                                                         *)
(* The argument is that of RequestDriverProofs.  Step is the machine of    *)
(* PlaceProofs for the responses to requests with method m.  It reads a    *)
(* stream that ends: at the last byte it does what the reader does when    *)
(* puteof() has told it so, and the client's answer to the token           *)
(* status_code is a step of the machine as well.                           *)
(***************************************************************************)
EXTENDS ResponseProofs, ResponseDriver, PlaceProofs

-----------------------------------------------------------------------------
(* The steps of the machine that are a response's own. *)

Memo == IF "HTTP_1_0" \in connection_flags THEN "HTTP_1_0" ELSE "HTTP_1_1"

(* What set_method(m) makes of the status code that ends at offset at. *)
Told(m, v, at) ==
    LET status == status_code_decode(View(v, at - 3, at))
    IN  IF status \div 100 = 1 \/ status \in {204, 304} \/ m = HEAD THEN "FORCE_NO_BODY"
        ELSE IF status \div 100 = 2 /\ m = CONNECT THEN "FORCE_NO_BODY_AND_STOP"
        ELSE "CONNECTION_DELIMITED"

VersionStep(v, x) ==
    IF v[x.at + 1] \in isdigit
    THEN Gives(v, x, "EXPECT_SP_AFTER_VERSION", x.body_type, x.body_size,
               IF v[x.at + 1] = 48 THEN "HTTP_1_0" ELSE x.memo, "version", 1)
    ELSE Fails(x, "error_invalid_data")

StatusStep(v, x) ==
    IF Len(v) - x.at < 3 THEN x
    ELSE IF status_code_match(v, x.at)
    THEN Moves(v, x, "EXPECT_SP_AFTER_STATUS_CODE", "status_code", 3)
    ELSE Fails(x, "error_invalid_data")

NameStep(v, x) ==
    LET e == RunEnd(is_tchar, v, x.at)
        name == View(v, x.at, e)
        here(t, z) == Gives(v, x, "EXPECT_COLON", t, z, x.memo, "field_name", e - x.at)
    IN  IF e = Len(v) THEN x
        ELSE IF x.body_type \in Forced THEN here(x.body_type, x.body_size)
        ELSE IF iequals(name, TransferEncodingName) /\ x.memo # "HTTP_1_0"
        THEN IF x.body_type = "CHUNKED_ENCODING_READ"
             THEN Fails(x, "error_invalid_transfer_encoding")
             ELSE here("READING_ENCODING", 0)
        ELSE IF iequals(name, ContentLength)
        THEN IF x.body_type = "CONTENT_LENGTH_READ"
             THEN Fails(x, "error_invalid_content_length")
             ELSE here(IF x.body_type = "CONNECTION_DELIMITED" THEN "READING_CONTENT_LENGTH"
                       ELSE x.body_type, x.body_size)
        ELSE here(x.body_type, x.body_size)

HeadersEnd(v, x, size) ==
    IF x.body_type \in {"RANDOM_ENCODING_READ", "CONNECTION_DELIMITED"}
    THEN Gives(v, x, "EXPECT_UNSAFE_BODY", "FORCE_NO_BODY_AND_STOP", 0, x.memo,
               "end_of_headers", size)
    ELSE Moves(v, x,
               IF x.body_type = "CHUNKED_ENCODING_READ" THEN "EXPECT_CHUNK_SIZE"
               ELSE IF x.body_type = "CONTENT_LENGTH_READ" /\ x.body_size # 0
               THEN "EXPECT_BODY" ELSE "EXPECT_END_OF_BODY",
               "end_of_headers", size)

EmptyLineStep(v, x) ==
    CASE liberal_crlf(v, x.at) = "crlf" -> HeadersEnd(v, x, 2)
      [] liberal_crlf(v, x.at) = "lf" -> HeadersEnd(v, x, 1)
      [] liberal_crlf(v, x.at) = "insufficient_data" -> x
      [] OTHER -> Fails(x, "error_invalid_data")

StartStep(v, x) ==
    CASE x.state = "EXPECT_VERSION_STATIC_STR" ->
            LiteralStep(v, x, StaticStr, "EXPECT_VERSION")
      [] x.state = "EXPECT_VERSION" -> VersionStep(v, x)
      [] x.state = "EXPECT_SP_AFTER_VERSION" ->
            ByteStep(v, x, {SP}, "EXPECT_STATUS_CODE", "skip")
      [] x.state = "EXPECT_STATUS_CODE" -> StatusStep(v, x)
      [] x.state = "EXPECT_SP_AFTER_STATUS_CODE" ->
            ByteStep(v, x, {SP}, "EXPECT_REASON_PHRASE", "skip")
      [] x.state = "EXPECT_REASON_PHRASE" ->
            RunStep(v, x, is_reason_phrase_char, "EXPECT_CRLF_AFTER_REASON_PHRASE",
                    "reason_phrase")
      [] x.state = "EXPECT_CRLF_AFTER_REASON_PHRASE" ->
            LiberalStep(v, x, "EXPECT_FIELD_NAME")
      [] x.state = "EXPECT_FIELD_NAME" -> NameStep(v, x)
      [] x.state = "EXPECT_CRLF_AFTER_HEADERS" -> EmptyLineStep(v, x)
      [] OTHER -> x

StatusStates == BeforeStatusCode \cup {"EXPECT_SP_AFTER_STATUS_CODE"} \cup AfterStatusCode

StartStates == StatusStates \cup {"EXPECT_FIELD_NAME", "EXPECT_CRLF_AFTER_HEADERS"}

(* The states in which a token or an error comes without a byte. *)
EndStates == {"EXPECT_END_OF_BODY", "EXPECT_END_OF_MESSAGE", "EXPECT_END_OF_CONNECTION_ERROR"}

EndsStep(v, x) ==
    CASE x.state = "EXPECT_END_OF_BODY" ->
            Moves(v, x, "EXPECT_END_OF_MESSAGE", "end_of_body", 0)
      [] x.state = "EXPECT_END_OF_MESSAGE" ->
            Gives(v, x, IF x.body_type = "FORCE_NO_BODY_AND_STOP" \/ x.memo = "HTTP_1_0"
                        THEN "EXPECT_END_OF_CONNECTION_ERROR" ELSE "EXPECT_VERSION_STATIC_STR",
                  "UNKNOWN_BODY", 0, x.memo, "end_of_message", 0)
      [] OTHER -> Fails(x, "error_use_another_connection")

(* The connection ends in front of x. *)
ClosedStep(v, x) ==
    IF x.body_type = "CONTENT_LENGTH_READ" /\ x.body_size # 0 THEN x
    ELSE IF x.state = "EXPECT_UNSAFE_BODY"
    THEN Moves(v, x, "EXPECT_END_OF_MESSAGE", "end_of_body", 0)
    ELSE Fails(x, "error_use_another_connection")

(* The client has not answered the status code yet. *)
Unanswered(s, t) == s = "EXPECT_SP_AFTER_STATUS_CODE" /\ t = "UNKNOWN_BODY"

Step(m, v, x) ==
    IF x.state = "ERRORED" THEN x
    ELSE IF x.state \in EndStates THEN EndsStep(v, x)
    ELSE IF Unanswered(x.state, x.body_type)
    THEN Spot(x.state, Told(m, v, x.at), x.body_size, x.memo, x.at, x.log)
    ELSE IF x.at = Len(v) THEN ClosedStep(v, x)
    ELSE IF x.state \in SharedStates
    THEN SharedStep("EXPECT_VERSION_STATIC_STR", "UNKNOWN_BODY", v, x)
    ELSE StartStep(v, x)
-----------------------------------------------------------------------------
(* Every case of next() leads from the place before it to the same or the   *)
(* next one.                                                               *)

LeadsOn(m, v, p, l) ==
    LET x == Before(v, Memo, p, l)
    IN  \/ After(v, Memo', p, l) = x
        \/ x.at = p /\ x.log = l /\ After(v, Memo', p, l) = Step(m, v, x)

LEMMA StepIs ==
    ASSUME NEW m, NEW v, NEW x, x.at # Len(v)
    PROVE  /\ x.state \in SharedStates =>
                 Step(m, v, x) = SharedStep("EXPECT_VERSION_STATIC_STR", "UNKNOWN_BODY", v, x)
           /\ x.state \in StartStates /\ ~Unanswered(x.state, x.body_type) =>
                 Step(m, v, x) = StartStep(v, x)
BY DEF Step, EndStates, Unanswered, SharedStates, InField, InChunks, InTrailers,
       StartStates, StatusStates, BeforeStatusCode, AfterStatusCode

(* What is remembered of the connection changes with the version only. *)
LEMMA SameMemo == ASSUME connection_flags' = connection_flags PROVE Memo' = Memo
BY DEF Memo

(* The cases that both readers share. *)
LEMMA SharedLeads ==
    ASSUME ReaderOK, FramingConsistent, NEW m, NEW v, NEW p, NEW buf, NEW i, NEW n,
           Sees(v, p, buf, i, n), NEW l \in Seq(Entry), Ahead(n, buf, i),
           connection_flags' = connection_flags,
           \/ FieldCase(buf, i, n)
           \/ ExpectBody(buf, i, n)
           \/ ChunkCase(buf, i, n)
           \/ TrailerCase(buf, i, n, "EXPECT_VERSION_STATIC_STR", "UNKNOWN_BODY")
    PROVE  LeadsOn(m, v, p, l)
<1>1. p # Len(v)
  <2>1. p < Len(v) /\ p \in Nat /\ Len(v) \in Nat
    BY ONLY Sees(v, p, buf, i, n), SeesIs
  <2> QED
    BY <2>1
<1>2. body_size \in Uint /\ Suitable(state)
  BY DEF ReaderOK, FramingConsistent, FramingSuits, Suitable
<1>3. /\ ~Sized("EXPECT_VERSION_STATIC_STR", "UNKNOWN_BODY")
      /\ "EXPECT_VERSION_STATIC_STR" # "ERRORED"
  BY DEF Sized
<1>4. Follows("EXPECT_VERSION_STATIC_STR", "UNKNOWN_BODY", v, Memo, p, l)
  BY <1>2, <1>3, FieldFollows, BodyFollows, ChunkFollows, TrailerFollows
<1>5. Memo' = Memo
  BY SameMemo
<1> QED
  BY <1>1, <1>4, <1>5, StepIs DEF Follows, LeadsOn

LEMMA StatusStands ==
    ASSUME FramingConsistent, state \in StatusStates, NEW v, NEW w, NEW p, NEW l
    PROVE  /\ Stands(Before(v, w, p, l), v, w, p, l) /\ Before(v, w, p, l).state = state
           /\ \A s \in StatusStates \cup {"EXPECT_FIELD_NAME"} : SameSize(s)
<1>1. body_type # "CONTENT_LENGTH_READ"
  BY DEF FramingConsistent, FramingSuits, OwnSuits, StatusStates, Forced
<1>2. Decides(v, state, p)
  BY DEF Decides, BodyStates, OwsStates, StatusStates, BeforeStatusCode, AfterStatusCode
<1>3. \A s \in StatusStates \cup {"EXPECT_FIELD_NAME"} : SameSize(s)
  BY <1>1 DEF SameSize, Size, Sized, StatusStates, BeforeStatusCode, AfterStatusCode
<1> QED
  BY <1>2, <1>3, DecidesStands

(* The three digits, when they are there, are those of the stream. *)
LEMMA StatusCodeSteps ==
    ASSUME NEW v, NEW p, NEW buf, NEW i, NEW n, Sees(v, p, buf, i, n), NEW w, NEW l,
           NEW x, Stands(x, v, w, p, l), Plainly("EXPECT_SP_AFTER_STATUS_CODE", "status_code"),
           ExpectStatusCode(buf, i, n)
    PROVE  After(v, w, p, l) = x \/ After(v, w, p, l) = StatusStep(v, x)
<1>1. /\ p \in Nat /\ i \in Nat /\ Len(buf) \in Nat /\ Len(v) \in Nat
      /\ Len(buf) - i <= Len(v) - p
      /\ \A k \in 1..(Len(buf) - i) : v[p + k] = buf[i + k]
  BY ONLY Sees(v, p, buf, i, n), SeesIs
<1>2. x.at = p /\ x = Before(v, w, p, l)
  BY DEF Stands
<1>3. CASE Suspend(state, n)
  BY <1>1, <1>2, <1>3, AfterStays DEF Plainly
<1>4. CASE Len(buf) - i >= 3
  <2>1. ~(Len(v) - p < 3) /\ \A k \in 1..3 : v[p + k] = buf[i + k]
    <3>1. ~(Len(v) - p < 3) /\ \A k \in 1..3 : k \in 1..(Len(buf) - i)
      BY <1>1, <1>4
    <3> QED
      BY <1>1, <3>1
  <2>2. status_code_match(v, p) <=> status_code_match(buf, i)
    <3>1. Len(v) - p >= 3 /\ Len(buf) - i >= 3
      BY <1>1, <1>4
    <3>2. (\A k \in 1..3 : v[p + k] \in isdigit) <=> (\A k \in 1..3 : buf[i + k] \in isdigit)
      BY ONLY <2>1
    <3> QED
      BY ONLY <3>1, <3>2 DEF status_code_match
  <2>3. CASE /\ status_code_match(buf, i)
             /\ Emit("EXPECT_SP_AFTER_STATUS_CODE", "status_code", 3)
    <3>1. After(v, w, p, l) = Moves(v, x, "EXPECT_SP_AFTER_STATUS_CODE", "status_code", 3)
      BY <2>3, AfterMoves DEF Plainly
    <3> QED
      BY <1>2, <2>1, <2>2, <2>3, <3>1 DEF StatusStep
  <2>4. CASE ~status_code_match(buf, i) /\ Fail("error_invalid_data", n)
    <3>1. After(v, w, p, l) = Fails(x, "error_invalid_data")
      BY <1>1, <2>4, InvalidData, AfterFails
    <3> QED
      BY <1>2, <2>1, <2>2, <2>4, <3>1 DEF StatusStep
  <2> QED
    BY <1>3, <2>3, <2>4 DEF ExpectStatusCode
<1> QED
  BY <1>1, <1>3, <1>4 DEF ExpectStatusCode

(* The status line but for the version. *)
LEMMA StatusLeads ==
    ASSUME ReaderOK, FramingConsistent, NEW m, NEW v, NEW p, NEW buf, NEW i, NEW n,
           Sees(v, p, buf, i, n), NEW l, Ahead(n, buf, i),
           connection_flags' = connection_flags, ~Unanswered(state, body_type),
           \/ ExpectVersionStaticStr(buf, i, n)
           \/ ExpectSpAfterVersion(buf, i, n)
           \/ ExpectStatusCode(buf, i, n)
           \/ ExpectSpAfterStatusCode(buf, i, n)
           \/ ExpectReasonPhrase(buf, i, n)
           \/ ExpectCrlfAfterReasonPhrase(buf, i, n)
    PROVE  LeadsOn(m, v, p, l)
<1>1. p # Len(v) /\ p \in Nat
  <2>1. p < Len(v) /\ p \in Nat /\ Len(v) \in Nat
    BY ONLY Sees(v, p, buf, i, n), SeesIs
  <2> QED
    BY <2>1
<1>2. PICK x : x = Before(v, Memo, p, l)
  OBVIOUS
<1>3. state \in StatusStates /\ UNCHANGED framing /\ state # "ERRORED"
  BY DEF ExpectVersionStaticStr, ExpectSpAfterVersion, ExpectStatusCode,
         ExpectSpAfterStatusCode, ExpectReasonPhrase, ExpectCrlfAfterReasonPhrase,
         StatusStates, BeforeStatusCode, AfterStatusCode
<1>4. /\ Stands(x, v, Memo, p, l) /\ x.state = state
      /\ \A s \in StatusStates \cup {"EXPECT_FIELD_NAME"} : SameSize(s)
  BY <1>2, <1>3, StatusStands
<1>5. /\ x.at = p /\ x.log = l /\ x.body_type = body_type
      /\ \A s \in StatusStates \cup {"EXPECT_FIELD_NAME"}, c \in Code \ {INSUFFICIENT} :
            Plainly(s, c)
  BY <1>3, <1>4 DEF Plainly, Stands, StatusStates, BeforeStatusCode, AfterStatusCode
<1>6. {"skip", "status_code", "reason_phrase"} \subseteq Code \ {INSUFFICIENT}
  BY DEF Code, DataCode, INSUFFICIENT
<1>7. Step(m, v, x) = StartStep(v, x)
  BY <1>1, <1>3, <1>4, <1>5, StepIs DEF StartStates
<1>8. ASSUME After(v, Memo, p, l) = x \/ After(v, Memo, p, l) = StartStep(v, x)
      PROVE  LeadsOn(m, v, p, l)
  <2>1. Memo' = Memo
    BY SameMemo
  <2> QED
    BY <1>2, <1>5, <1>7, <1>8, <2>1 DEF LeadsOn
<1>9. CASE ExpectVersionStaticStr(buf, i, n)
  <2>1. /\ state = "EXPECT_VERSION_STATIC_STR"
        /\ LiteralToken(StaticStr, buf, i, n, "EXPECT_VERSION")
    BY <1>9 DEF ExpectVersionStaticStr
  <2>2. n <= Len(StaticStr) /\ \A k \in 1..n : buf[i + k] = StaticStr[k]
    BY <2>1 DEF Ahead, Scanned, LiteralState
  <2>3. Plainly("EXPECT_VERSION", "skip") /\ StaticStr \in Seq(Byte)
    BY <1>5, <1>6, LiteralsAssumption DEF StatusStates, BeforeStatusCode
  <2>4. \/ After(v, Memo, p, l) = x
        \/ After(v, Memo, p, l) = LiteralStep(v, x, StaticStr, "EXPECT_VERSION")
    BY <1>4, <2>1, <2>2, <2>3, LiteralTokenSteps
  <2> QED
    BY <1>4, <1>8, <2>1, <2>4 DEF StartStep
<1>10. CASE ExpectSpAfterVersion(buf, i, n)
  <2>1. /\ state = "EXPECT_SP_AFTER_VERSION"
        /\ ByteToken({SP}, buf, i, n, "EXPECT_STATUS_CODE", "skip")
    BY <1>10 DEF ExpectSpAfterVersion
  <2>2. Plainly("EXPECT_STATUS_CODE", "skip")
    BY <1>5, <1>6 DEF StatusStates, BeforeStatusCode
  <2>3. After(v, Memo, p, l) = ByteStep(v, x, {SP}, "EXPECT_STATUS_CODE", "skip")
    BY <1>4, <2>1, <2>2, ByteTokenSteps
  <2> QED
    BY <1>4, <1>8, <2>1, <2>3 DEF StartStep
<1>11. CASE ExpectStatusCode(buf, i, n)
  <2>1. state = "EXPECT_STATUS_CODE"
    BY <1>11 DEF ExpectStatusCode
  <2>2. Plainly("EXPECT_SP_AFTER_STATUS_CODE", "status_code")
    BY <1>5, <1>6 DEF StatusStates
  <2>3. After(v, Memo, p, l) = x \/ After(v, Memo, p, l) = StatusStep(v, x)
    BY <1>4, <1>11, <2>2, StatusCodeSteps
  <2> QED
    BY <1>4, <1>8, <2>1, <2>3 DEF StartStep
<1>12. CASE ExpectSpAfterStatusCode(buf, i, n)
  <2>1. /\ state = "EXPECT_SP_AFTER_STATUS_CODE"
        /\ ByteToken({SP}, buf, i, n, "EXPECT_REASON_PHRASE", "skip")
    BY <1>12 DEF ExpectSpAfterStatusCode, Unanswered
  <2>2. Plainly("EXPECT_REASON_PHRASE", "skip")
    BY <1>5, <1>6 DEF StatusStates, AfterStatusCode
  <2>3. After(v, Memo, p, l) = ByteStep(v, x, {SP}, "EXPECT_REASON_PHRASE", "skip")
    BY <1>4, <2>1, <2>2, ByteTokenSteps
  <2> QED
    BY <1>4, <1>8, <2>1, <2>3 DEF StartStep
<1>13. CASE ExpectReasonPhrase(buf, i, n)
  <2>1. /\ state = "EXPECT_REASON_PHRASE"
        /\ RescanToken(is_reason_phrase_char, buf, i, n, state,
                       "EXPECT_CRLF_AFTER_REASON_PHRASE", "reason_phrase")
    BY <1>13 DEF ExpectReasonPhrase
  <2>2. Plainly("EXPECT_CRLF_AFTER_REASON_PHRASE", "reason_phrase")
    BY <1>5, <1>6 DEF StatusStates, AfterStatusCode
  <2>3. SameSize(state) /\ x = At(v, state, body_type, Size, Memo, p, l)
    BY <1>2, <1>3, <1>4 DEF Before
  <2>4. \/ After(v, Memo, p, l) = x
        \/ After(v, Memo, p, l) =
              RunStep(v, x, is_reason_phrase_char, "EXPECT_CRLF_AFTER_REASON_PHRASE",
                      "reason_phrase")
    BY <1>3, <1>4, <2>1, <2>2, <2>3, RescanTokenSteps
  <2> QED
    BY <1>4, <1>8, <2>1, <2>4 DEF StartStep
<1>14. CASE ExpectCrlfAfterReasonPhrase(buf, i, n)
  <2>1. /\ state = "EXPECT_CRLF_AFTER_REASON_PHRASE"
        /\ LiberalCrlf(buf, i, n, "EXPECT_FIELD_NAME")
    BY <1>14 DEF ExpectCrlfAfterReasonPhrase
  <2>2. Plainly("EXPECT_FIELD_NAME", "skip")
    BY <1>5, <1>6
  <2>3. After(v, Memo, p, l) = x \/ After(v, Memo, p, l) = LiberalStep(v, x, "EXPECT_FIELD_NAME")
    BY <1>4, <2>1, <2>2, LiberalCrlfSteps
  <2> QED
    BY <1>4, <1>8, <2>1, <2>3 DEF StartStep
<1> QED
  BY <1>9, <1>10, <1>11, <1>12, <1>13, <1>14

(* A refusal leads to the place of an error. *)
LEMMA RefusalLeads ==
    ASSUME NEW m, NEW v, NEW p \in Nat, NEW l, NEW x, Stands(x, v, Memo, p, l),
           NEW code \in ErrorCode \ {INSUFFICIENT}, NEW size, Fail(code, size),
           Step(m, v, x) = Fails(x, code)
    PROVE  LeadsOn(m, v, p, l)
<1>1. After(v, Memo, p, l) = Fails(x, code)
  BY AfterFails
<1>2. After(v, Memo', p, l) = After(v, Memo, p, l)
  BY ErrorForgets DEF Fail, Emit
<1> QED
  BY <1>1, <1>2 DEF LeadsOn, Stands

(* The version of a response is remembered if it is HTTP/1.0. *)
LEMMA VersionLeads ==
    ASSUME ReaderOK, FramingConsistent, NEW m, NEW v, NEW p, NEW buf, NEW i, NEW n,
           Sees(v, p, buf, i, n), NEW l, ExpectVersion(buf, i, n)
    PROVE  LeadsOn(m, v, p, l)
<1>1. p \in Nat /\ v[p + 1] = buf[i + 1] /\ p # Len(v)
  <2>1. p < Len(v) /\ p \in Nat /\ Len(v) \in Nat /\ v[p + 1] = buf[i + 1]
    BY ONLY Sees(v, p, buf, i, n), SeesIs
  <2> QED
    BY <2>1
<1>2. PICK x : x = Before(v, Memo, p, l)
  OBVIOUS
<1>3. /\ state = "EXPECT_VERSION" /\ UNCHANGED framing
      /\ ByteToken(isdigit, buf, i, n, "EXPECT_SP_AFTER_VERSION", "version")
      /\ connection_flags' = IF buf[i + 1] = 48 THEN connection_flags \cup {"HTTP_1_0"}
                             ELSE connection_flags
  BY DEF ExpectVersion
<1>4. Stands(x, v, Memo, p, l) /\ x.state = "EXPECT_VERSION"
  BY <1>2, <1>3, StatusStands DEF StatusStates, BeforeStatusCode
<1>5. x.at = p /\ x.log = l /\ x.body_type = body_type /\ x.body_size = Size /\ x.memo = Memo
  BY <1>4 DEF Stands
<1>6. Step(m, v, x) = VersionStep(v, x)
  <2>1. Step(m, v, x) = StartStep(v, x)
    BY <1>1, <1>4, <1>5, StepIs DEF StatusStates, BeforeStatusCode, StartStates, Unanswered
  <2> QED
    BY <1>4, <2>1 DEF StartStep
<1>7. CASE buf[i + 1] \in isdigit
  <2>1. Emit("EXPECT_SP_AFTER_VERSION", "version", 1)
    BY <1>3, <1>7 DEF ByteToken
  <2>2. Memo' = IF v[p + 1] = 48 THEN "HTTP_1_0" ELSE Memo
    BY <1>1, <1>3 DEF Memo
  <2>3. body_type' = body_type /\ Size' = Size
    BY <1>3, <2>1 DEF framing, Size, Sized, Emit
  <2>4. "version" # INSUFFICIENT
    BY DEF INSUFFICIENT
  <2>5. PICK w : w = Memo'
    OBVIOUS
  <2>6. After(v, w, p, l) =
           Gives(v, x, "EXPECT_SP_AFTER_VERSION", body_type', Size', w, "version", 1)
    BY <1>5, <2>1, <2>4, AfterTells
  <2>7. After(v, Memo', p, l) = VersionStep(v, x)
    BY <1>1, <1>5, <1>7, <2>2, <2>3, <2>5, <2>6 DEF VersionStep
  <2> QED
    BY <1>2, <1>5, <1>6, <2>7 DEF LeadsOn
<1>8. CASE buf[i + 1] \notin isdigit
  <2>1. Fail("error_invalid_data", n)
    BY <1>3, <1>8 DEF ByteToken
  <2>2. Step(m, v, x) = Fails(x, "error_invalid_data")
    BY <1>1, <1>5, <1>6, <1>8 DEF VersionStep
  <2> QED
    BY <1>1, <1>4, <2>1, <2>2, InvalidData, RefusalLeads
<1> QED
  BY <1>7, <1>8

(* The empty line behind the header fields, read in either of two states. *)
LEMMA HeadersEndLeads ==
    ASSUME NEW m, NEW v, NEW p, NEW buf, NEW i, NEW n, Sees(v, p, buf, i, n), NEW l,
           state \in {"EXPECT_FIELD_NAME", "EXPECT_CRLF_AFTER_HEADERS"},
           connection_flags' = connection_flags,
           Before(v, Memo, p, l) =
               Spot("EXPECT_CRLF_AFTER_HEADERS", body_type, Size, Memo, p, l),
           CrlfAfterHeaders(buf, i, n)
    PROVE  LeadsOn(m, v, p, l)
<1>1. p \in Nat /\ p # Len(v)
  <2>1. p < Len(v) /\ p \in Nat /\ Len(v) \in Nat
    BY ONLY Sees(v, p, buf, i, n), SeesIs
  <2> QED
    BY <2>1
<1>2. PICK x : x = Before(v, Memo, p, l)
  OBVIOUS
<1>3. Stands(x, v, Memo, p, l) /\ x.state = "EXPECT_CRLF_AFTER_HEADERS"
  BY <1>2, SpotStands
<1>4. x.at = p /\ x.log = l /\ x.body_type = body_type /\ x.body_size = Size /\ x.memo = Memo
  BY <1>3 DEF Stands
<1>5. Step(m, v, x) = EmptyLineStep(v, x)
  <2>1. Step(m, v, x) = StartStep(v, x)
    BY <1>1, <1>3, <1>4, StepIs DEF StartStates, Unanswered
  <2> QED
    BY <1>3, <2>1 DEF StartStep
<1>6. liberal_crlf(buf, i) # "insufficient_data" => liberal_crlf(v, p) = liberal_crlf(buf, i)
  BY LiberalIsSeen
<1>7. Memo' = Memo /\ body_size' = body_size
  BY SameMemo DEF CrlfAfterHeaders
<1>8. Size = IF body_type = "CONTENT_LENGTH_READ" THEN body_size ELSE 0
  BY DEF Size, Sized
<1>9. ASSUME NEW size, EndOfHeaders(size), Step(m, v, x) = HeadersEnd(v, x, size)
      PROVE  LeadsOn(m, v, p, l)
  <2>1. "end_of_headers" # INSUFFICIENT
    BY DEF INSUFFICIENT
  <2>2. CASE body_type \in {"RANDOM_ENCODING_READ", "CONNECTION_DELIMITED"}
    <3>1. /\ Emit("EXPECT_UNSAFE_BODY", "end_of_headers", size)
          /\ body_type' = "FORCE_NO_BODY_AND_STOP"
      BY <1>9, <2>2 DEF EndOfHeaders, Forced
    <3>2. Size' = 0
      BY <3>1 DEF Emit, Size, Sized
    <3>3. After(v, Memo, p, l) =
              Gives(v, x, "EXPECT_UNSAFE_BODY", body_type', Size', Memo, "end_of_headers", size)
      BY <1>4, <2>1, <3>1, AfterTells
    <3>4. After(v, Memo', p, l) = Step(m, v, x)
      BY <1>4, <1>7, <1>9, <2>2, <3>1, <3>2, <3>3 DEF HeadersEnd
    <3> QED
      BY <1>2, <1>4, <3>4 DEF LeadsOn
  <2>3. CASE body_type \notin {"RANDOM_ENCODING_READ", "CONNECTION_DELIMITED"}
    <3>1. PICK s : s = IF body_type = "CHUNKED_ENCODING_READ" THEN "EXPECT_CHUNK_SIZE"
                       ELSE IF body_type = "CONTENT_LENGTH_READ" /\ Size # 0
                       THEN "EXPECT_BODY" ELSE "EXPECT_END_OF_BODY"
      OBVIOUS
    <3>2. Emit(s, "end_of_headers", size) /\ body_type' = body_type
      BY <1>8, <1>9, <2>3, <3>1 DEF EndOfHeaders, Forced
    <3>3. s \in {"EXPECT_CHUNK_SIZE", "EXPECT_BODY", "EXPECT_END_OF_BODY"}
      BY <3>1
    <3>4. UNCHANGED framing /\ SameSize(s) /\ s # "ERRORED"
      BY <1>7, <1>8, <3>2, <3>3 DEF framing, SameSize, Sized
    <3>5. After(v, Memo, p, l) = Moves(v, x, s, "end_of_headers", size)
      BY <1>3, <2>1, <3>2, <3>4, AfterMoves
    <3>6. HeadersEnd(v, x, size) = Moves(v, x, s, "end_of_headers", size)
      BY <1>4, <2>3, <3>1 DEF HeadersEnd
    <3>7. After(v, Memo', p, l) = Step(m, v, x)
      BY <1>7, <1>9, <3>5, <3>6
    <3> QED
      BY <1>2, <1>4, <3>7 DEF LeadsOn
  <2> QED
    BY <2>2, <2>3
<1>10. CASE liberal_crlf(buf, i) = "crlf" /\ EndOfHeaders(2)
  BY <1>4, <1>5, <1>6, <1>9, <1>10 DEF EmptyLineStep
<1>11. CASE liberal_crlf(buf, i) = "lf" /\ EndOfHeaders(1)
  BY <1>4, <1>5, <1>6, <1>9, <1>11 DEF EmptyLineStep
<1>12. CASE Suspend("EXPECT_CRLF_AFTER_HEADERS", n) /\ UNCHANGED body_type
  <2>1. UNCHANGED framing /\ SameSize("EXPECT_CRLF_AFTER_HEADERS")
    BY <1>7, <1>8, <1>12 DEF framing, SameSize, Sized
  <2>2. After(v, Memo, p, l) =
            At(v, "EXPECT_CRLF_AFTER_HEADERS", body_type, Size, Memo, p, l)
    BY <1>1, <1>12, <2>1, AfterWaits
  <2>3. Decides(v, "EXPECT_CRLF_AFTER_HEADERS", p)
    BY DEF Decides, BodyStates, OwsStates
  <2>4. After(v, Memo, p, l) = Before(v, Memo, p, l)
    BY <2>2, <2>3, AtDecides
  <2> QED
    BY <1>7, <2>4 DEF LeadsOn
<1>13. CASE liberal_crlf(buf, i) = "invalid_data" /\ Fail("error_invalid_data", n)
  <2>1. Step(m, v, x) = Fails(x, "error_invalid_data")
    BY <1>4, <1>5, <1>6, <1>13 DEF EmptyLineStep
  <2> QED
    BY <1>1, <1>3, <1>13, <2>1, InvalidData, RefusalLeads
<1> QED
  BY <1>10, <1>11, <1>12, <1>13 DEF CrlfAfterHeaders

(* A field name starts the reading of a framing, or is refused. *)
LEMMA NameSteps ==
    ASSUME NEW m, NEW v, NEW p, NEW buf, NEW i, NEW n, Sees(v, p, buf, i, n), NEW l,
           state = "EXPECT_FIELD_NAME", connection_flags' = connection_flags,
           NEW x, Stands(x, v, Memo, p, l), x = Before(v, Memo, p, l), x.state = state,
           NEW size \in Nat, MaxRun(is_tchar, buf, i, size),
           FieldName(View(buf, i, i + size), size)
    PROVE  LeadsOn(m, v, p, l)
<1>1. p \in Nat /\ p # Len(v) /\ Len(v) \in Nat
  <2>1. p < Len(v) /\ p \in Nat /\ Len(v) \in Nat
    BY ONLY Sees(v, p, buf, i, n), SeesIs
  <2> QED
    BY <2>1
<1>2. x.at = p /\ x.log = l /\ x.body_type = body_type /\ x.body_size = Size /\ x.memo = Memo
  BY DEF Stands
<1>3. PICK name : name = View(buf, i, i + size)
  OBVIOUS
<1>4. /\ RunEnd(is_tchar, v, p) # Len(v) /\ RunEnd(is_tchar, v, p) - p = size
      /\ View(v, p, RunEnd(is_tchar, v, p)) = name
  <2>1. /\ RunEnd(is_tchar, v, p) = p + size /\ p + size < Len(v)
        /\ RunEnd(is_tchar, v, p) - p = size /\ p + size \in Nat
        /\ View(v, p, p + size) = View(buf, i, i + size)
    BY RunIsSeen
  <2> QED
    BY <1>1, <1>3, <2>1
<1>5. PICK codings : codings = (iequals(name, TransferEncodingName)
                                  /\ "HTTP_1_0" \notin connection_flags)
  OBVIOUS
<1>6. Size = IF body_type = "CONTENT_LENGTH_READ" THEN body_size ELSE 0
  BY DEF Size, Sized
<1> DEFINE here(t, z) == Gives(v, x, "EXPECT_COLON", t, z, Memo, "field_name", size)
<1>7. Step(m, v, x) =
        IF body_type \in Forced THEN here(body_type, Size)
        ELSE IF codings
        THEN IF body_type = "CHUNKED_ENCODING_READ"
             THEN Fails(x, "error_invalid_transfer_encoding")
             ELSE here("READING_ENCODING", 0)
        ELSE IF iequals(name, ContentLength)
        THEN IF body_type = "CONTENT_LENGTH_READ"
             THEN Fails(x, "error_invalid_content_length")
             ELSE here(IF body_type = "CONNECTION_DELIMITED" THEN "READING_CONTENT_LENGTH"
                       ELSE body_type, Size)
        ELSE here(body_type, Size)
  <2>1. Step(m, v, x) = NameStep(v, x)
    <3>1. Step(m, v, x) = StartStep(v, x)
      BY <1>1, <1>2, StepIs DEF StartStates, Unanswered
    <3> QED
      BY <3>1 DEF StartStep
  <2>2. codings <=> (iequals(name, TransferEncodingName) /\ Memo # "HTTP_1_0")
    BY <1>5 DEF Memo
  <2> QED
    BY <1>2, <1>4, <2>1, <2>2 DEF NameStep
<1> HIDE DEF here
<1>8. ASSUME NEW code \in {"error_invalid_transfer_encoding", "error_invalid_content_length"},
             Fail(code, size), Step(m, v, x) = Fails(x, code)
      PROVE  LeadsOn(m, v, p, l)
  <2>1. code \in ErrorCode \ {INSUFFICIENT}
    BY <1>8 DEF ErrorCode, INSUFFICIENT
  <2> QED
    BY <1>1, <1>8, <2>1, RefusalLeads
<1>9. ASSUME Emit("EXPECT_COLON", "field_name", size), Step(m, v, x) = here(body_type', Size')
      PROVE  LeadsOn(m, v, p, l)
  <2>1. Memo' = Memo
    BY SameMemo
  <2>2. After(v, Memo, p, l) =
            Gives(v, x, "EXPECT_COLON", body_type', Size', Memo, "field_name", size)
    BY <1>2, <1>9, AfterTells DEF INSUFFICIENT
  <2> QED
    BY <1>2, <1>9, <2>1, <2>2 DEF LeadsOn, here
<1>10. Emit("EXPECT_COLON", "field_name", size) =>
          Size' = IF body_type' = "CONTENT_LENGTH_READ" THEN body_size' ELSE 0
  BY DEF Emit, Size, Sized
<1>11. ASSUME OtherField(size), Step(m, v, x) = here(body_type, Size)
       PROVE  LeadsOn(m, v, p, l)
  <2>1. Emit("EXPECT_COLON", "field_name", size) /\ UNCHANGED framing
    BY <1>11 DEF OtherField
  <2>2. body_type' = body_type /\ Size' = Size
    BY <1>6, <1>10, <2>1 DEF framing
  <2> QED
    BY <1>9, <1>11, <2>1, <2>2
<1>12. CASE body_type \notin Forced /\ codings
            /\ TransferEncodingField(size, "CONNECTION_DELIMITED")
  <2>1. CASE body_type = "CHUNKED_ENCODING_READ"
    BY <1>7, <1>8, <1>12, <2>1 DEF TransferEncodingField
  <2>2. CASE body_type # "CHUNKED_ENCODING_READ"
    <3>1. Emit("EXPECT_COLON", "field_name", size) /\ body_type' = "READING_ENCODING"
      BY <1>12, <2>2 DEF TransferEncodingField
    <3>2. Size' = 0
      BY <1>10, <3>1
    <3> QED
      BY <1>7, <1>9, <1>12, <2>2, <3>1, <3>2
  <2> QED
    BY <2>1, <2>2
<1>13. CASE body_type \notin Forced /\ ~codings /\ iequals(name, ContentLength)
            /\ ContentLengthField(size, "CONNECTION_DELIMITED")
  <2>1. CASE body_type = "CONTENT_LENGTH_READ"
    BY <1>7, <1>8, <1>13, <2>1 DEF ContentLengthField
  <2>2. CASE body_type # "CONTENT_LENGTH_READ"
    <3>1. /\ Emit("EXPECT_COLON", "field_name", size)
          /\ body_type' = IF body_type = "CONNECTION_DELIMITED" THEN "READING_CONTENT_LENGTH"
                          ELSE body_type
      BY <1>13, <2>2 DEF ContentLengthField
    <3>2. Size' = Size
      BY <1>6, <1>10, <2>2, <3>1
    <3> QED
      BY <1>7, <1>9, <1>13, <2>2, <3>1, <3>2
  <2> QED
    BY <2>1, <2>2
<1>14. CASE body_type \in Forced /\ OtherField(size)
  BY <1>7, <1>11, <1>14
<1>15. CASE /\ body_type \notin Forced /\ ~codings /\ ~iequals(name, ContentLength)
            /\ OtherField(size)
  BY <1>7, <1>11, <1>15
<1>16. ~(codings /\ iequals(name, ContentLength))
  BY <1>5, LiteralsAssumption, SameName
<1> QED
  BY <1>3, <1>5, <1>12, <1>13, <1>14, <1>15, <1>16 DEF FieldName

(* A field name, or the empty line in its place. *)
LEMMA NameLeads ==
    ASSUME ReaderOK, FramingConsistent, NEW m, NEW v, NEW p, NEW buf, NEW i, NEW n,
           Sees(v, p, buf, i, n), NEW l, connection_flags' = connection_flags,
           ExpectFieldName(buf, i, n) \/ ExpectCrlfAfterHeaders(buf, i, n)
    PROVE  LeadsOn(m, v, p, l)
<1>1. /\ p \in Nat /\ p < Len(v) /\ Len(v) \in Nat /\ v[p + 1] = buf[i + 1]
      /\ i \in Nat /\ Len(buf) \in Nat /\ i < Len(buf)
  BY ONLY Sees(v, p, buf, i, n), SeesIs
<1>2. CASE ExpectCrlfAfterHeaders(buf, i, n)
  <2>1. state = "EXPECT_CRLF_AFTER_HEADERS" /\ CrlfAfterHeaders(buf, i, n)
    BY <1>2 DEF ExpectCrlfAfterHeaders
  <2>2. Before(v, Memo, p, l) =
           Spot("EXPECT_CRLF_AFTER_HEADERS", body_type, Size, Memo, p, l)
    BY <2>1 DEF Before, At
  <2> QED
    BY <2>1, <2>2, HeadersEndLeads
<1>3. CASE ExpectFieldName(buf, i, n)
  <2>1. PICK e \in i..Len(buf) :
         /\ state = "EXPECT_FIELD_NAME"
         /\ Run(is_tchar, buf, i, e)
         /\ \/ e = i /\ CrlfAfterHeaders(buf, i, n)
            \/ e > i /\ e = Len(buf) /\ Suspend(state, n) /\ UNCHANGED framing
            \/ e > i /\ e < Len(buf) /\ FieldName(View(buf, i, e), e - i)
    BY <1>3 DEF ExpectFieldName
  <2>2. CASE e = i /\ CrlfAfterHeaders(buf, i, n)
    <3>1. v[p + 1] \notin is_tchar
      BY <1>1, <2>1, <2>2 DEF Run
    <3>2. Before(v, Memo, p, l) =
             Spot("EXPECT_CRLF_AFTER_HEADERS", body_type, Size, Memo, p, l)
      BY <1>1, <2>1, <3>1 DEF Before, At
    <3> QED
      BY <2>1, <2>2, <3>2, HeadersEndLeads
  <2>3. CASE e > i /\ Suspend(state, n) /\ UNCHANGED framing
    <3>1. After(v, Memo, p, l) = Before(v, Memo, p, l)
      BY <1>1, <2>1, <2>3, AfterStays
    <3> QED
      BY <3>1, SameMemo DEF LeadsOn
  <2>4. CASE e > i /\ e < Len(buf) /\ FieldName(View(buf, i, e), e - i)
    <3>1. PICK size : size = e - i
      OBVIOUS
    <3>2. size \in Nat /\ i + size = e /\ MaxRun(is_tchar, buf, i, size)
      <4>1. size \in Nat /\ i + size = e /\ \A k \in 1..size : i + k \in (i + 1)..e
        BY <1>1, <2>1, <2>4, <3>1
      <4>2. buf[e + 1] \notin is_tchar /\ \A k \in (i + 1)..e : buf[k] \in is_tchar
        BY <1>1, <2>1, <2>4 DEF Run
      <4> QED
        BY <2>4, <4>1, <4>2 DEF MaxRun
    <3>3. v[p + 1] \in is_tchar
      BY <1>1, <2>1, <2>4 DEF Run
    <3>4. Decides(v, state, p)
      BY <2>1, <3>3 DEF Decides, BodyStates, OwsStates
    <3>5. /\ Stands(Before(v, Memo, p, l), v, Memo, p, l)
          /\ Before(v, Memo, p, l).state = state
      BY <3>4, DecidesStands
    <3> QED
      BY <2>1, <2>4, <3>1, <3>2, <3>5, NameSteps
  <2> QED
    BY <2>1, <2>2, <2>3, <2>4
<1> QED
  BY <1>2, <1>3

(* A body that ends with the connection is taken as far as the stream goes. *)
LEMMA UnsafeBodyLeads ==
    ASSUME NEW m, NEW v, NEW p, NEW buf, NEW i, NEW n,
           Sees(v, p, buf, i, n), NEW l \in Seq(Entry), connection_flags' = connection_flags,
           ExpectUnsafeBody(buf, i, n)
    PROVE  LeadsOn(m, v, p, l)
<1>1. /\ v \in Seq(Byte) /\ p \in 0..Len(v) /\ Len(v) \in Nat /\ Len(buf) \in Nat
      /\ i \in Nat /\ i < Len(buf) /\ Len(buf) - i <= Len(v) - p /\ p \in Nat
  BY ONLY Sees(v, p, buf, i, n), SeesIs
<1>2. PICK e \in (p + 1)..Len(v) : e = p + (Len(buf) - i)
  <2>1. p + (Len(buf) - i) \in (p + 1)..Len(v)
    BY <1>1
  <2> QED
    BY <2>1
<1>3. /\ state = "EXPECT_UNSAFE_BODY" /\ Emit("EXPECT_UNSAFE_BODY", "body_chunk", Len(buf) - i)
      /\ UNCHANGED framing
  BY DEF ExpectUnsafeBody
<1>4. p + Gone' = e /\ p + token_size_' = e /\ Size' = Size /\ body_type' = body_type
  BY <1>2, <1>3 DEF Gone, Size, Emit, framing, INSUFFICIENT
<1>5. PICK t, z, w : t = body_type /\ z = Size /\ w = Memo
  OBVIOUS
<1>6. After(v, Memo, p, l) =
          At(v, "EXPECT_UNSAFE_BODY", t, z, w, e, Record(l, "body_chunk", p, e))
  BY <1>3, <1>4, <1>5 DEF After, Emit
<1>7. Before(v, Memo, p, l) = At(v, "EXPECT_UNSAFE_BODY", t, z, w, p, l)
  BY <1>3, <1>5 DEF Before
<1>8. After(v, Memo, p, l) = Before(v, Memo, p, l)
  BY <1>1, <1>6, <1>7, AtUnsafeBody
<1> QED
  BY <1>8, SameMemo DEF LeadsOn

-----------------------------------------------------------------------------
(* next() leads from the place of the reader to the same or the next one. *)

LEMMA EndLeads ==
    ASSUME FramingConsistent, connection_flags' = connection_flags,
           NEW m, NEW v, NEW p \in Nat, NEW l, EndOfBody \/ EndOfMessage
    PROVE  LeadsOn(m, v, p, l)
<1>1. PICK x : x = Before(v, Memo, p, l)
  OBVIOUS
<1>2. state \in {"EXPECT_END_OF_BODY", "EXPECT_END_OF_MESSAGE"}
  BY DEF EndOfBody, EndOfMessage
<1>3. Decides(v, state, p)
  BY <1>2 DEF Decides, BodyStates, OwsStates
<1>4. Stands(x, v, Memo, p, l) /\ x.state = state
  BY <1>1, <1>3, DecidesStands
<1>5. Memo' = Memo /\ "end_of_body" # INSUFFICIENT /\ "end_of_message" # INSUFFICIENT
  BY SameMemo DEF INSUFFICIENT
<1>6. x.at = p /\ x.log = l /\ x.memo = Memo /\ x.body_type = body_type
  BY <1>4 DEF Stands
<1>7. Step(m, v, x) = EndsStep(v, x)
  BY <1>2, <1>4 DEF Step, EndStates
<1>8. CASE EndOfBody
  <2>1. /\ Emit("EXPECT_END_OF_MESSAGE", "end_of_body", 0) /\ UNCHANGED framing
        /\ state = "EXPECT_END_OF_BODY"
    BY <1>8 DEF EndOfBody
  <2>2. SameSize("EXPECT_END_OF_MESSAGE")
    BY <2>1 DEF SameSize, Size, Sized
  <2>3. After(v, Memo, p, l) = Moves(v, x, "EXPECT_END_OF_MESSAGE", "end_of_body", 0)
    BY <1>4, <1>5, <2>1, <2>2, AfterMoves
  <2>4. EndsStep(v, x) = Moves(v, x, "EXPECT_END_OF_MESSAGE", "end_of_body", 0)
    BY <1>4, <2>1 DEF EndsStep
  <2> QED
    BY <1>1, <1>5, <1>6, <1>7, <2>3, <2>4 DEF LeadsOn
<1>9. CASE EndOfMessage
  <2>1. PICK s : s = IF body_type = "FORCE_NO_BODY_AND_STOP" \/ "HTTP_1_0" \in connection_flags
                     THEN "EXPECT_END_OF_CONNECTION_ERROR" ELSE "EXPECT_VERSION_STATIC_STR"
    OBVIOUS
  <2>2. /\ Emit(s, "end_of_message", 0) /\ body_type' = "UNKNOWN_BODY"
        /\ state = "EXPECT_END_OF_MESSAGE"
    BY <1>9, <2>1 DEF EndOfMessage
  <2>3. s \in {"EXPECT_END_OF_CONNECTION_ERROR", "EXPECT_VERSION_STATIC_STR"}
    BY <2>1
  <2>4. Size' = 0 /\ s # "ERRORED"
    BY <2>2, <2>3 DEF Emit, Size, Sized
  <2>5. After(v, Memo, p, l) =
            Gives(v, x, s, body_type', Size', Memo, "end_of_message", 0)
    BY <1>4, <1>5, <2>2, <2>4, AfterGives
  <2>6. s = IF x.body_type = "FORCE_NO_BODY_AND_STOP" \/ x.memo = "HTTP_1_0"
            THEN "EXPECT_END_OF_CONNECTION_ERROR" ELSE "EXPECT_VERSION_STATIC_STR"
    BY <1>6, <2>1 DEF Memo
  <2>7. EndsStep(v, x) = Gives(v, x, s, "UNKNOWN_BODY", 0, x.memo, "end_of_message", 0)
    BY <1>4, <2>2, <2>6 DEF EndsStep
  <2> QED
    BY <1>1, <1>5, <1>6, <1>7, <2>2, <2>4, <2>5, <2>7 DEF LeadsOn
<1> QED
  BY <1>8, <1>9

(* No message follows the last one. *)
LEMMA LastLeads ==
    ASSUME NEW m, NEW v, NEW p \in Nat, NEW l, NEW size,
           state = "EXPECT_END_OF_CONNECTION_ERROR", Fail("error_use_another_connection", size)
    PROVE  LeadsOn(m, v, p, l)
<1>1. Decides(v, state, p)
  BY DEF Decides, BodyStates, OwsStates
<1>2. PICK x : x = Before(v, Memo, p, l)
  OBVIOUS
<1>3. Stands(x, v, Memo, p, l) /\ x.state = "EXPECT_END_OF_CONNECTION_ERROR"
  BY <1>1, <1>2, DecidesStands
<1>4. Step(m, v, x) = Fails(x, "error_use_another_connection")
  BY <1>3 DEF Step, EndStates, EndsStep
<1>5. "error_use_another_connection" \in ErrorCode \ {INSUFFICIENT}
  BY DEF ErrorCode, INSUFFICIENT
<1> QED
  BY <1>3, <1>4, <1>5, RefusalLeads

(* A reader that waits with nothing in front of it. *)
LEMMA EmptyPlace ==
    ASSUME ReaderOK, FramingConsistent, NEW v \in Seq(Byte), NEW w, NEW l,
           state \notin EndStates \cup {"ERRORED"}
    PROVE  Before(v, w, Len(v), l) = Spot(state, body_type, Size, w, Len(v), l)
<1>1. Len(v) \in Nat /\ Len(v) + 0 <= Len(v) /\ Len(v) \in 0..Len(v)
  OBVIOUS
<1>2. Waits(state, 0, v, Len(v))
  BY <1>1, EmptyWaits DEF EndStates
<1>3. Size \in Nat
  BY DEF ReaderOK, Size, Uint
<1>4. state \in {"EXPECT_BODY", "EXPECT_CHUNK_DATA"} => Size > 0
  BY DEF ReaderOK, Uint, FramingConsistent, FramingSuits, BodySuits, Size, Sized
<1> QED
  BY <1>1, <1>2, <1>3, <1>4, WaitingPlace DEF Before

LEMMA ExhaustedLeads ==
    ASSUME ReaderOK, FramingConsistent, connection_flags' = connection_flags,
           NEW m, NEW v \in Seq(Byte), NEW p \in Nat, Closed => p = Len(v), NEW l, NEW n,
           state \notin EndStates \cup {"ERRORED"}, ~Unanswered(state, body_type),
           Exhausted(n)
    PROVE  LeadsOn(m, v, p, l)
<1>1. Memo' = Memo /\ UNCHANGED framing
  BY SameMemo DEF Exhausted
<1>2. CASE Suspend(state, n)
  <2>1. After(v, Memo, p, l) = Before(v, Memo, p, l)
    BY <1>1, <1>2, AfterStays
  <2> QED
    BY <1>1, <2>1 DEF LeadsOn
<1>3. CASE Closed /\ ~(body_type = "CONTENT_LENGTH_READ" /\ body_size # 0)
  <2>1. PICK x : x = Before(v, Memo, p, l)
    OBVIOUS
  <2>2. x = Spot(state, body_type, Size, Memo, p, l)
    BY <1>3, <2>1, EmptyPlace
  <2>3. Stands(x, v, Memo, p, l) /\ x.state = state
    BY <2>1, <2>2, SpotStands
  <2>4. x.at = p /\ x.log = l /\ x.body_type = body_type /\ x.body_size = Size
    BY <2>3 DEF Stands
  <2>5. ~(x.body_type = "CONTENT_LENGTH_READ" /\ x.body_size # 0)
    BY <1>3, <2>4 DEF Size, Sized
  <2>6. Step(m, v, x) = ClosedStep(v, x)
    BY <1>3, <2>3, <2>4 DEF Step
  <2>7. CASE state # "EXPECT_UNSAFE_BODY" /\ Fail("error_use_another_connection", n)
    <3>1. Step(m, v, x) = Fails(x, "error_use_another_connection")
      BY <2>3, <2>5, <2>6, <2>7 DEF ClosedStep
    <3>2. "error_use_another_connection" \in ErrorCode \ {INSUFFICIENT}
      BY DEF ErrorCode, INSUFFICIENT
    <3> QED
      BY <2>3, <2>7, <3>1, <3>2, RefusalLeads
  <2>8. CASE state = "EXPECT_UNSAFE_BODY" /\ Emit("EXPECT_END_OF_MESSAGE", "end_of_body", 0)
    <3>1. Step(m, v, x) = Moves(v, x, "EXPECT_END_OF_MESSAGE", "end_of_body", 0)
      BY <2>3, <2>5, <2>6, <2>8 DEF ClosedStep
    <3>2. SameSize("EXPECT_END_OF_MESSAGE") /\ "end_of_body" # INSUFFICIENT
      BY <2>8 DEF SameSize, Size, Sized, INSUFFICIENT
    <3>3. After(v, Memo, p, l) = Moves(v, x, "EXPECT_END_OF_MESSAGE", "end_of_body", 0)
      BY <1>1, <2>3, <2>8, <3>2, AfterMoves
    <3> QED
      BY <1>1, <2>1, <2>4, <3>1, <3>3 DEF LeadsOn
  <2> QED
    BY <1>2, <1>3, <2>7, <2>8 DEF Exhausted, Closed
<1> QED
  BY <1>2, <1>3 DEF Exhausted, Closed

LEMMA NextOnLeads ==
    ASSUME ReaderOK, TokenInsideBuffer, FramingConsistent, state # "ERRORED",
           ~Unanswered(state, body_type),
           state = "EXPECT_END_OF_CONNECTION_ERROR" => token_size_ = 0,
           NEW m, NEW v \in Seq(Byte), NEW j \in Nat, Known(v, j), Shows(v, j, ibuffer, idx),
           NEW buf \in Seq(Byte), NEW pos \in Nat, pos + token_size_ <= Len(buf),
           Shows(v, j, buf, pos), Closed => j + (Len(buf) - pos) = Len(v),
           NextOn(buf, pos), NEW l \in Seq(Entry)
    PROVE  Consumed \in Nat /\ idx' = pos + Consumed /\ LeadsOn(m, v, j + Consumed, l)
<1> DEFINE i == pos + Consumed
           n == token_size_ - Consumed
           p == j + Consumed
<1>1. Len(buf) \in Nat /\ token_size_ \in Nat /\ idx \in Nat /\ ibuffer \in Seq(Byte)
      /\ Len(v) \in Nat
  BY DEF ReaderOK
<1>2. /\ i \in Nat /\ n \in Nat /\ i + n = pos + token_size_ /\ Consumed \in Nat
      /\ p \in Nat
  BY <1>1 DEF Consumed
<1>3. CASE /\ idx' = pos + token_size_ /\ (EndOfBody \/ EndOfMessage)
           /\ UNCHANGED connection_flags
  <2>1. Consumed = token_size_
    BY <1>3 DEF Known, Waits, EndOfBody, EndOfMessage, Consumed
  <2> HIDE DEF p
  <2>2. LeadsOn(m, v, p, l)
    BY <1>2, <1>3, EndLeads
  <2> QED
    BY <1>2, <1>3, <2>1, <2>2 DEF p
<1>4. CASE /\ state = "EXPECT_END_OF_CONNECTION_ERROR" /\ idx' = pos
           /\ Fail("error_use_another_connection", token_size_)
  <2>1. Consumed = 0
    BY <1>4 DEF Consumed
  <2> HIDE DEF p
  <2>2. LeadsOn(m, v, p, l)
    BY <1>2, <1>4, LastLeads
  <2> QED
    BY <1>2, <1>4, <2>1, <2>2 DEF p
<1>5. CASE /\ idx' = i /\ i = Len(buf) /\ Exhausted(n) /\ UNCHANGED connection_flags
           /\ state \notin {"EXPECT_END_OF_BODY", "EXPECT_END_OF_MESSAGE",
                            "EXPECT_END_OF_CONNECTION_ERROR"}
  <2>1. Closed => p = Len(v)
    BY <1>1, <1>2, <1>5
  <2> HIDE DEF p, n
  <2>2. LeadsOn(m, v, p, l)
    BY <1>2, <1>5, <2>1, ExhaustedLeads DEF EndStates
  <2> QED
    BY <1>2, <1>5, <2>2 DEF p
<1>6. CASE idx' = i /\ i # Len(buf) /\ ReadToken(buf, i, n)
  <2>1. i + n <= Len(buf) /\ i < Len(buf)
    BY <1>1, <1>2, <1>6
  <2>2. Ahead(n, buf, i)
    BY <1>1, <2>1, BytesAhead DEF TokenInsideBuffer
  <2>3. Shows(v, p, buf, i)
    BY <1>1, <1>2, ShowsOn
  <2> HIDE DEF i, n, p
  <2>4. Sees(v, p, buf, i, n)
    BY <1>2, <2>1, <2>3 DEF Sees
  <2>5. LeadsOn(m, v, p, l)
    <3>1. CASE ExpectVersion(buf, i, n)
      BY <2>4, <3>1, VersionLeads
    <3>2. CASE /\ ExpectFieldName(buf, i, n) \/ ExpectCrlfAfterHeaders(buf, i, n)
               /\ UNCHANGED connection_flags
      BY <2>4, <3>2, NameLeads
    <3>3. CASE /\ \/ ExpectVersionStaticStr(buf, i, n)
                  \/ ExpectSpAfterVersion(buf, i, n)
                  \/ ExpectStatusCode(buf, i, n)
                  \/ ExpectSpAfterStatusCode(buf, i, n)
                  \/ ExpectReasonPhrase(buf, i, n)
                  \/ ExpectCrlfAfterReasonPhrase(buf, i, n)
               /\ UNCHANGED connection_flags
      BY <2>2, <2>4, <3>3, StatusLeads
    <3>4. CASE /\ \/ FieldCase(buf, i, n)
                  \/ ExpectBody(buf, i, n)
                  \/ ChunkCase(buf, i, n)
                  \/ TrailerCase(buf, i, n, "EXPECT_VERSION_STATIC_STR", "UNKNOWN_BODY")
               /\ UNCHANGED connection_flags
      BY <2>2, <2>4, <3>4, SharedLeads
    <3>5. CASE ExpectUnsafeBody(buf, i, n) /\ UNCHANGED connection_flags
      BY <2>4, <3>5, UnsafeBodyLeads
    <3> QED
      BY <1>6, <3>1, <3>2, <3>3, <3>4, <3>5
      DEF ReadToken, ResponseField, ResponseBody, ResponseChunks, ResponseTrailers
  <2> QED
    BY <1>2, <1>6, <2>5 DEF p, i
<1> QED
  BY <1>3, <1>4, <1>5, <1>6 DEF NextOn

-----------------------------------------------------------------------------
(* A reader that waits at the end of the stream does not go on. *)

LEMMA StatusLineStays ==
    ASSUME NEW v \in Seq(Byte), NEW s, NEW t, NEW z, NEW w, NEW p \in 0..Len(v), p < Len(v),
           NEW l, NEW n \in Nat, Waits(s, n, v, p), s \in StartStates
    PROVE  StartStep(v, Spot(s, t, z, w, p, l)) = Spot(s, t, z, w, p, l)
<1>1. PICK x : x = Spot(s, t, z, w, p, l)
  OBVIOUS
<1>2. x.state = s /\ x.at = p /\ Len(v) \in Nat /\ p \in Nat /\ p # Len(v)
  BY <1>1, SpotIs
<1>3. CASE s = "EXPECT_VERSION_STATIC_STR"
  <2>1. /\ n = Len(v) - p /\ n < Len(StaticStr) /\ \A k \in 1..n : v[p + k] = StaticStr[k]
    BY <1>3 DEF Waits, Scanned, LiteralState
  <2>2. LiteralStep(v, x, StaticStr, "EXPECT_VERSION") = x
    BY <1>2, <2>1 DEF LiteralStep
  <2> QED
    BY <1>1, <1>2, <1>3, <2>2 DEF StartStep
<1>4. CASE s = "EXPECT_STATUS_CODE"
  <2>1. Len(v) - p < 3
    BY <1>4 DEF Waits
  <2> QED
    BY <1>1, <1>2, <1>4, <2>1 DEF StartStep, StatusStep
<1>5. CASE s = "EXPECT_REASON_PHRASE"
  <2>1. RestIn(is_reason_phrase_char, v, p)
    BY <1>5 DEF Waits
  <2>2. RunEnd(is_reason_phrase_char, v, p) = Len(v)
    BY <2>1, RestRuns
  <2> QED
    BY <1>1, <1>2, <1>5, <2>2 DEF StartStep, RunStep
<1>6. CASE s = "EXPECT_FIELD_NAME"
  <2>1. RestIn(is_tchar, v, p)
    BY <1>6 DEF Waits
  <2>2. RunEnd(is_tchar, v, p) = Len(v)
    BY <2>1, RestRuns
  <2> QED
    BY <1>1, <1>2, <1>6, <2>2 DEF StartStep, NameStep
<1>7. CASE s \in {"EXPECT_CRLF_AFTER_REASON_PHRASE", "EXPECT_CRLF_AFTER_HEADERS"}
  <2>1. Len(v) = p + 1 /\ v[p + 1] = CR
    BY <1>2, <1>7 DEF Waits
  <2>2. liberal_crlf(v, p) = "insufficient_data"
    BY <1>2, <2>1, LiberalWaits
  <2> QED
    BY <1>1, <1>2, <1>7, <2>2 DEF StartStep, LiberalStep, EmptyLineStep
<1>8. s \notin {"EXPECT_VERSION", "EXPECT_SP_AFTER_VERSION", "EXPECT_SP_AFTER_STATUS_CODE"}
  BY <1>2 DEF Waits
<1> QED
  BY <1>3, <1>4, <1>5, <1>6, <1>7, <1>8
  DEF StartStates, StatusStates, BeforeStatusCode, AfterStatusCode

(* At the last byte only a body that is not complete is waited for. *)
LEMMA WaitingStops ==
    ASSUME NEW m, NEW v \in Seq(Byte), NEW s \in State, NEW t, NEW z, NEW w,
           NEW p \in 0..Len(v), NEW l, NEW n \in Nat, Waits(s, n, v, p), ~Unanswered(s, t),
           p = Len(v) => t = "CONTENT_LENGTH_READ" /\ z # 0
    PROVE  Step(m, v, Spot(s, t, z, w, p, l)) = Spot(s, t, z, w, p, l)
<1>1. PICK x : x = Spot(s, t, z, w, p, l)
  OBVIOUS
<1>2. /\ x.state = s /\ x.at = p /\ x.body_type = t /\ x.body_size = z
      /\ Len(v) \in Nat /\ p \in Nat
  BY <1>1, SpotIs
<1>3. s \notin EndStates \cup {"ERRORED"}
  BY DEF Waits, EndStates
<1>4. CASE p = Len(v)
  BY <1>1, <1>2, <1>3, <1>4 DEF Step, ClosedStep
<1>5. CASE p < Len(v)
  <2>1. s \notin {"EXPECT_BODY", "EXPECT_UNSAFE_BODY"}
    BY <1>2, <1>5 DEF Waits
  <2>2. s \in SharedStates \/ s \in StartStates
    BY <1>3, <2>1 DEF State, MessageState, InHeaders, SharedStates, StartStates, StatusStates,
                      EndStates
  <2>3. CASE s \in SharedStates
    <3>1. SharedStep("EXPECT_VERSION_STATIC_STR", "UNKNOWN_BODY", v, x) = x
      BY <1>1, <1>5, <2>3, WaitingStays
    <3> QED
      BY <1>1, <1>2, <1>5, <2>3, <3>1, StepIs
  <2>4. CASE s \in StartStates
    <3>1. StartStep(v, x) = x
      BY <1>1, <1>5, <2>4, StatusLineStays
    <3> QED
      BY <1>1, <1>2, <1>5, <2>4, <3>1, StepIs
  <2> QED
    BY <2>2, <2>3, <2>4
<1> QED
  BY <1>2, <1>4, <1>5

-----------------------------------------------------------------------------
(* What a client may rely on after next(). *)

(* Between two messages. *)
Between == {"EXPECT_VERSION_STATIC_STR", "EXPECT_VERSION", "EXPECT_END_OF_CONNECTION_ERROR"}

LEMMA NextIsBetween ==
    ASSUME ReaderOK, FramingConsistent, state # "ERRORED",
           NEW buf \in Seq(Byte), NEW pos \in Nat, pos + token_size_ <= Len(buf),
           NextOn(buf, pos)
    PROVE  /\ state \in Between /\ code_' \in {"skip", INSUFFICIENT} => state' \in Between
           /\ code_' = "end_of_message" => state' \in Between
           /\ state' = "EXPECT_END_OF_CONNECTION_ERROR" => token_size_' = 0
           /\ state' = "EXPECT_SP_AFTER_STATUS_CODE" =>
                 code_' = "status_code" \/ state = "EXPECT_SP_AFTER_STATUS_CODE"
<1>1. MessageStep("EXPECT_VERSION_STATIC_STR") \/ OwnStep \/ EndStep
  BY NextOnStep
<1>2. CASE WaitStep
  BY <1>2 DEF WaitStep, WaitEdge, Between, INSUFFICIENT
<1>3. CASE ErrorStep
  BY <1>3 DEF ErrorStep, ErrorCode, INSUFFICIENT
<1>4. CASE SkipStep \/ ValueStep \/ DataStep
  BY <1>4 DEF SkipStep, SkipEdge, ValueStep, DataStep, Between, INSUFFICIENT
<1>5. CASE ChunkLineStep \/ LastStep("EXPECT_VERSION_STATIC_STR")
  BY <1>5 DEF ChunkLineStep, LastStep, Between, INSUFFICIENT
<1>6. CASE OwnStep /\ ~WaitStep /\ ~ErrorStep
  BY <1>6 DEF OwnStep, OwnSkipEdge, OwnTokenEdge, Between, INSUFFICIENT
<1>7. CASE EndStep
  BY <1>7 DEF EndStep, Between, INSUFFICIENT
<1> QED
  BY <1>1, <1>2, <1>3, <1>4, <1>5, <1>6, <1>7 DEF MessageStep, OwnStep

(* A status code is answered before the reader goes on. *)
LEMMA NextIsAnswered ==
    ASSUME ReaderOK, FramingConsistent, state # "ERRORED", ~Unanswered(state, body_type),
           NEW buf \in Seq(Byte), NEW pos \in Nat, pos + token_size_ <= Len(buf),
           NextOn(buf, pos), Unanswered(state', body_type')
    PROVE  code_' = "status_code"
<1>1. CASE state = "EXPECT_SP_AFTER_STATUS_CODE"
  <2>1. PICK i, n : Exhausted(n) \/ ReadToken(buf, i, n)
    BY <1>1 DEF NextOn, EndOfBody, EndOfMessage
  <2>2. CASE Exhausted(n)
    BY <1>1, <2>2 DEF Exhausted, framing, Unanswered
  <2>3. CASE ReadToken(buf, i, n)
    <3>1. ExpectSpAfterStatusCode(buf, i, n)
      BY <1>1, <2>3
      DEF ReadToken, ExpectVersion, ExpectVersionStaticStr, ExpectSpAfterVersion,
          ExpectStatusCode, ExpectReasonPhrase, ExpectCrlfAfterReasonPhrase, ExpectFieldName,
          ResponseField, FieldCase, ExpectColon, ExpectOwsAfterColon, ExpectFieldValue,
          ExpectCrlfAfterFieldValue, ExpectCrlfAfterHeaders, ResponseBody, ExpectBody,
          ExpectUnsafeBody, ResponseChunks, ChunkCase, ResponseTrailers, TrailerCase,
          ExpectChunkSize, ExpectChunkExt, ExpectCrlfAfterChunkExt, ExpectChunkData,
          ExpectCrlfAfterChunkData, ExpectTrailerName, ExpectTrailerColon,
          ExpectOwsAfterTrailerColon, ExpectTrailerValue, ExpectCrlfAfterTrailerValue,
          ExpectCrlfAfterTrailers
    <3> QED
      BY <1>1, <3>1 DEF ExpectSpAfterStatusCode, framing, Unanswered
  <2> QED
    BY <2>1, <2>2, <2>3
<1> QED
  BY <1>1, NextIsBetween DEF Unanswered

(* With nothing to read when the connection has ended, only a body that is  *)
(* not complete is waited for.                                             *)
LEMMA NextLacksBody ==
    ASSUME ReaderOK, state # "ERRORED", NEW buf \in Seq(Byte), NEW pos \in Nat,
           NextOn(buf, pos), Closed, code_' = INSUFFICIENT, idx' = Len(buf)
    PROVE  body_type' = "CONTENT_LENGTH_READ" /\ body_size' # 0
<1>1. ~(EndOfBody \/ EndOfMessage) /\ \A n : ~Fail("error_use_another_connection", n)
  BY DEF EndOfBody, EndOfMessage, Emit, Fail, INSUFFICIENT
<1>2. PICK n : Exhausted(n)
  BY <1>1 DEF NextOn
<1>3. \A s : ~Emit(s, "end_of_body", 0)
  BY DEF Emit, INSUFFICIENT
<1> QED
  BY <1>1, <1>2, <1>3 DEF Exhausted, Closed, framing

(* The last entry of a log is the last token or error that was recorded. *)
LEMMA LastRecorded ==
    ASSUME NEW l \in Seq(Entry), NEW c \in Code \ {"skip", INSUFFICIENT}, NEW f \in Nat,
           NEW t \in Nat
    PROVE  /\ Record(l, c, f, t) # <<>>
           /\ Last(Record(l, c, f, t)).code = c
<1>1. PICK r : r = Record(l, c, f, t)
  OBVIOUS
<1>2. ASSUME NEW e, e.code = c, r = Append(l, e)
      PROVE  r # <<>> /\ Last(r).code = c
  <2>1. Len(r) = Len(l) + 1 /\ r[Len(l) + 1] = e /\ Len(l) \in Nat
    BY <1>2
  <2> QED
    BY <1>2, <2>1 DEF Last
<1>3. CASE c = "body_chunk" /\ l # <<>> /\ Last(l).code = c
  <2>1. r = [l EXCEPT ![Len(l)].to = t]
    BY <1>1, <1>3 DEF Record, symbol, ErrorCode
  <2>2. Len(l) \in 1..Len(l) /\ Len(l) \in Nat /\ l[Len(l)] \in Entry
    BY <1>3
  <2>3. Len(r) = Len(l) /\ r[Len(l)] = [l[Len(l)] EXCEPT !.to = t]
    BY <2>1, <2>2
  <2>4. r[Len(r)].code = l[Len(l)].code /\ r # <<>>
    BY <2>2, <2>3 DEF Entry
  <2> QED
    BY <1>1, <1>3, <2>4 DEF Last
<1>4. CASE ~(c = "body_chunk" /\ l # <<>> /\ Last(l).code = c)
  <2>1. \/ r = Append(l, [code |-> c, from |-> f, to |-> f])
        \/ r = Append(l, [code |-> c, from |-> f, to |-> t])
    BY <1>1, <1>4 DEF Record, symbol, ErrorCode, INSUFFICIENT
  <2> QED
    BY <1>1, <1>2, <2>1
<1> QED
  BY <1>3, <1>4

-----------------------------------------------------------------------------
(* The driver. *)

Memos == {"HTTP_1_0", "HTTP_1_1"}

PlacesOf(v) == Places(v, State, BodyType, Memos)

(* The machine that reads the responses v to requests m without a buffer. *)
Course(m, v) == Machine(PlacesOf(v), [x \in PlacesOf(v) |-> Step(m, v, x)])

StartPlace == Spot("EXPECT_VERSION_STATIC_STR", "UNKNOWN_BODY", 0, "HTTP_1_1", 0, <<>>)

(* How far the reader has come in the stream, and its place there. *)
Where == base + idx + Gone

Place == At(stream, state, body_type, Size, Memo, Where, log)

(* The buffer shows the stream at base, and the log is that of the bytes    *)
(* before the reader.                                                      *)
DriverOK == /\ ReaderOK /\ TokenInsideBuffer /\ FramingConsistent
            /\ StatusCodeIsLast /\ StatusIsWhole
            /\ stream \in Seq(Byte) /\ base \in Nat /\ log \in Seq(Entry)
            /\ Shows(stream, base, ibuffer, 0)
            /\ Known(stream, base + idx)
            /\ Behind(log, Where)

(* The end of the connection is told when the buffer holds the last byte,   *)
(* and a client that is asked for more after it is inside a body; a log    *)
(* that ends with a message is that of a reader between two messages.      *)
ClientOK == /\ received = base + Len(ibuffer)
            /\ Closed => received = Len(stream)
            /\ asked => Closed
            /\ Unanswered(state, body_type) => code_ = "status_code"
            /\ state = "EXPECT_END_OF_CONNECTION_ERROR" => token_size_ = 0
            /\ asked /\ code_ = INSUFFICIENT /\ idx = Len(ibuffer) =>
                  body_type = "CONTENT_LENGTH_READ" /\ body_size # 0
            /\ log = <<>> \/ Last(log).code = "end_of_message" => state \in Between

DInv == /\ DriverOK /\ ClientOK /\ (pass = "done" => Finished)
        /\ OnCourse(Course(method, stream), StartPlace, Place, log, pass, whole)

LEMMA CourseIs ==
    ASSUME NEW m, NEW v \in Seq(Byte)
    PROVE  /\ Course(m, v) \in [PlacesOf(v) -> PlacesOf(v)]
           /\ StartPlace \in PlacesOf(v)
           /\ \A x \in PlacesOf(v) : x.log \in Seq(Entry)
           /\ \A x \in PlacesOf(v) : Step(m, v, x) = x => Course(m, v)[x] = x
           /\ \A x \in PlacesOf(v) :
                 Step(m, v, x) \in PlacesOf(v) /\ Agrees(x.log, Step(m, v, x).log, FALSE) =>
                     Course(m, v)[x] = Step(m, v, x)
<1> DEFINE D == PlacesOf(v)
           G == [x \in D |-> Step(m, v, x)]
<1>1. \A x \in D : x.log \in Seq(Entry)
  BY PlaceLogs DEF PlacesOf
<1>2. StartPlace \in D
  <2>1. Decides(v, "EXPECT_VERSION_STATIC_STR", 0)
    BY DEF Decides, BodyStates, OwsStates
  <2>2. At(v, "EXPECT_VERSION_STATIC_STR", "UNKNOWN_BODY", 0, "HTTP_1_1", 0, <<>>) = StartPlace
    BY <2>1, AtDecides DEF StartPlace
  <2>3. /\ "EXPECT_VERSION_STATIC_STR" \in State /\ "UNKNOWN_BODY" \in BodyType
        /\ 0 \in 0..Len(v) /\ "HTTP_1_1" \in Memos /\ <<>> \in Seq(Entry)
    BY DEF State, BeforeStatusCode, BodyType, Memos
  <2>4. At(v, "EXPECT_VERSION_STATIC_STR", "UNKNOWN_BODY", 0, "HTTP_1_1", 0, <<>>)
          \in Places(v, State, BodyType, Memos)
    BY <2>3, PlaceIs
  <2> QED
    BY <2>2, <2>4 DEF PlacesOf
<1> HIDE DEF D
<1>3. \A x \in D : G[x] = Step(m, v, x)
  OBVIOUS
<1>4. Course(m, v) = Machine(D, G)
  BY DEF Course, D
<1> HIDE DEF G
<1>5. /\ Course(m, v) \in [D -> D]
      /\ \A x \in D : G[x] \in D /\ Agrees(x.log, G[x].log, FALSE) => Course(m, v)[x] = G[x]
      /\ \A x \in D : G[x] = x => Course(m, v)[x] = x
  <2>1. /\ Machine(D, G) \in [D -> D]
        /\ \A x \in D : G[x] \in D /\ Agrees(x.log, G[x].log, FALSE) =>
                          Machine(D, G)[x] = G[x]
        /\ \A x \in D : G[x] = x => Machine(D, G)[x] = x
    BY ONLY MachineIs
  <2> QED
    BY ONLY <1>4, <2>1
<1>6. \A x \in D : Step(m, v, x) = x => Course(m, v)[x] = x
  BY <1>3, <1>5
<1>7. \A x \in D : Step(m, v, x) \in D /\ Agrees(x.log, Step(m, v, x).log, FALSE) =>
                     Course(m, v)[x] = Step(m, v, x)
  BY <1>3, <1>5
<1> QED
  BY <1>1, <1>2, <1>5, <1>6, <1>7 DEF D

LEMMA PlaceTyped ==
    ASSUME NEW v \in Seq(Byte), NEW s \in State, NEW t \in BodyType, NEW z \in Nat,
           NEW w \in Memos, NEW at \in 0..Len(v), NEW l \in Seq(Entry), Behind(l, at)
    PROVE  /\ At(v, s, t, z, w, at, l) \in PlacesOf(v)
           /\ Agrees(l, At(v, s, t, z, w, at, l).log, FALSE)
BY PlaceIs, AtLog DEF PlacesOf

LEMMA PlaceOK ==
    ASSUME DriverOK
    PROVE  /\ Place \in PlacesOf(stream) /\ Agrees(log, Place.log, FALSE)
           /\ Where \in 0..Len(stream) /\ Size \in Nat
<1>1. Where \in 0..Len(stream)
  BY Inside DEF DriverOK, ReaderOK, TokenInsideBuffer, Where, Gone
<1>2. Size \in Nat
  BY DEF DriverOK, ReaderOK, Size, Uint
<1>3. Memo \in Memos
  BY DEF Memo, Memos
<1> QED
  BY <1>1, <1>2, <1>3, PlaceTyped DEF DriverOK, ReaderOK, Place

LEMMA PlaceOKNext ==
    ASSUME DriverOK'
    PROVE  Place' \in PlacesOf(stream') /\ Agrees(log', Place'.log, FALSE)
<1>1. Where' \in 0..Len(stream')
  BY Inside DEF DriverOK, ReaderOK, TokenInsideBuffer, Where, Gone
<1>2. Size' \in Nat
  BY DEF DriverOK, ReaderOK, Size, Uint
<1>3. Memo' \in Memos
  BY DEF Memo, Memos
<1> QED
  BY <1>1, <1>2, <1>3, PlaceTyped DEF DriverOK, ReaderOK, Place

(* A step of the machine from a place that looks ahead of nothing. *)
LEMMA StepIsTaken ==
    ASSUME DriverOK, DriverOK', stream' = stream, NEW m, Place.log = log,
           Agrees(log, log', FALSE), Place' = Step(m, stream, Place)
    PROVE  Place' = Course(m, stream)[Place]
<1>1. /\ Place \in PlacesOf(stream) /\ Place' \in PlacesOf(stream)
      /\ Agrees(log', Place'.log, FALSE)
  BY PlaceOK, PlaceOKNext
<1>2. stream \in Seq(Byte) /\ log \in Seq(Entry) /\ log' \in Seq(Entry)
  BY DEF DriverOK
<1>3. Place'.log \in Seq(Entry)
  BY <1>1, <1>2, CourseIs
<1>4. Agrees(Place.log, Place'.log, FALSE)
  BY <1>1, <1>2, <1>3, AgreesOn
<1> QED
  BY <1>1, <1>2, <1>4, CourseIs

(* next() on a buffer that shows the stream at base'. *)
LEMMA NextOnDrives ==
    ASSUME DriverOK, ClientOK, state # "ERRORED", ~Unanswered(state, body_type),
           stream' = stream, base' \in Nat,
           NEW buf \in Seq(Byte), NEW pos \in Nat, base' + pos = base + idx,
           pos + token_size_ <= Len(buf), Shows(stream, base', buf, 0),
           Closed => base' + Len(buf) = Len(stream), NextOn(buf, pos), RecordToken
    PROVE  DriverOK' /\ (Place' = Place \/ Place' = Course(method, stream)[Place])
<1>1. /\ ReaderOK /\ TokenInsideBuffer /\ FramingConsistent /\ stream \in Seq(Byte)
      /\ StatusCodeIsLast /\ StatusIsWhole
      /\ base \in Nat /\ log \in Seq(Entry) /\ idx \in Nat /\ token_size_ \in Nat
      /\ ibuffer \in Seq(Byte)
  BY DEF DriverOK, ReaderOK
<1>2. PICK j \in Nat : j = base + idx
  BY <1>1
<1>3. Known(stream, j)
  BY <1>2 DEF DriverOK
<1>4. Shows(stream, j, ibuffer, idx)
  <2>1. Shows(stream, base, ibuffer, 0) /\ Len(ibuffer) \in Nat /\ Len(stream) \in Nat
    BY <1>1 DEF DriverOK
  <2>2. Shows(stream, base + idx, ibuffer, 0 + idx)
    BY <1>1, <2>1, ShowsOn
  <2> QED
    BY <1>1, <1>2, <2>2
<1>5. Shows(stream, j, buf, pos)
  <2>0. /\ base' \in Nat /\ pos \in Nat /\ 0 \in Nat /\ Len(buf) \in Nat
        /\ Len(stream) \in Nat /\ Shows(stream, base', buf, 0)
    BY <1>1
  <2>1. Shows(stream, base' + pos, buf, 0 + pos)
    BY ONLY <2>0, ShowsOn
  <2>2. 0 + pos = pos /\ base' + pos = j
    BY <1>2
  <2> QED
    BY ONLY <2>1, <2>2
<1>6. ibuffer' = buf /\ idx' \in Nat /\ Post(buf, idx') /\ StatusIsWhole'
  BY <1>1, NextOnPost, NextOnWhole
<1>7. Consumed \in Nat /\ idx' = pos + Consumed /\ LeadsOn(method, stream, j + Consumed, log)
  <2>1. Closed => j + (Len(buf) - pos) = Len(stream)
    <3>1. PICK b \in Nat : b = base'
      OBVIOUS
    <3>2. j = b + pos /\ Len(buf) \in Nat
      BY <1>2, <3>1
    <3>3. j + (Len(buf) - pos) = b + Len(buf)
      BY <3>2
    <3> QED
      BY <3>1, <3>3
  <2>2. state = "EXPECT_END_OF_CONNECTION_ERROR" => token_size_ = 0
    BY DEF ClientOK
  <2> QED
    BY <1>1, <1>3, <1>4, <1>5, <2>1, <2>2, NextOnLeads
<1>8. PICK p \in Nat : p = j + Consumed
  BY <1>7
<1>9. Where = p /\ base' + idx' = p
  <2>1. Gone = Consumed
    BY DEF Gone, Consumed
  <2>2. PICK b \in Nat, c \in Nat : b = base' /\ c = Consumed
    BY <1>7
  <2>3. b + pos = j /\ p = j + c
    BY <1>2, <1>8, <2>2
  <2>4. base' + idx' = b + (pos + c)
    BY <1>7, <2>2
  <2>5. b + (pos + c) = p
    BY <2>3
  <2>6. Where = p
    BY <1>2, <1>8, <2>1 DEF Where
  <2> QED
    BY <2>4, <2>5, <2>6
<1>10. Known(stream, base + idx)'
  <2>1. /\ idx' \in pos..Len(buf)
        /\ \/ Read(buf, idx')
           \/ /\ idx' = pos + Consumed /\ state' = state /\ code_' = INSUFFICIENT
              /\ Waits(state', token_size_', buf, idx')
    BY <1>1, <1>3, <1>4, <1>5, NextOnReads
  <2>2. Consumed' \in Nat
    BY <1>6 DEF Post, Consumed
  <2>3. p = j + (idx' - pos)
    BY <1>7, <1>8
  <2>4. /\ code_' = INSUFFICIENT => Waits(state', token_size_', ibuffer', idx')
        /\ state' \in ValueState => InkAt(stream, p + Consumed')
        /\ state' = "ERRORED" => code_' \in ErrorCode \ {INSUFFICIENT}
    BY <1>1, <1>3, <1>5, <1>6, <1>7, <2>1, <2>2, <2>3, KnownRead
  <2> QED
    BY <1>9, <2>4 DEF Known
<1>11. log' = Record(log, code_', p, p + token_size_')
  BY <1>9 DEF RecordToken
<1>12. /\ log' \in Seq(Entry) /\ Agrees(log, log', FALSE) /\ Behind(log', p + Gone')
  <2>1. code_' \in Code /\ token_size_' \in Nat
    BY <1>6 DEF Post, ResponseCode
  <2>2. state' = "ERRORED" => code_' \in ErrorCode \ {INSUFFICIENT}
    BY <1>10 DEF Known
  <2>3. Behind(log, p)
    BY <1>9 DEF DriverOK
  <2> QED
    BY <1>1, <1>11, <2>1, <2>2, <2>3, LogKeepsUp
<1>13. Where' = p + Gone'
  BY <1>9 DEF Where
<1>14. DriverOK'
  <2>1. /\ ReaderOK' /\ TokenInsideBuffer' /\ FramingConsistent' /\ StatusCodeIsLast'
    BY <1>6 DEF Post, ReaderOK, TokenInsideBuffer
  <2> QED
    BY <1>1, <1>6, <1>10, <1>12, <1>13, <2>1 DEF DriverOK
<1>15. Place = Before(stream, Memo, p, log)
  BY <1>9 DEF Place, Before
<1>16. Place' = After(stream, Memo', p, log)
  BY <1>11, <1>13 DEF Place, After
<1>17. CASE After(stream, Memo', p, log) = Before(stream, Memo, p, log)
  BY <1>14, <1>15, <1>16, <1>17
<1>18. CASE Place.log = log /\ Place' = Step(method, stream, Place)
  BY <1>12, <1>14, <1>18, StepIsTaken
<1> QED
  BY <1>7, <1>8, <1>15, <1>16, <1>17, <1>18 DEF LeadsOn

LEMMA NextOnServes ==
    ASSUME DriverOK, ClientOK, state # "ERRORED", ~Unanswered(state, body_type),
           stream' = stream, DriverOK', NEW buf \in Seq(Byte), NEW pos \in Nat,
           pos + token_size_ <= Len(buf), NextOn(buf, pos), RecordToken,
           received' = base' + Len(buf), Closed => received' = Len(stream), asked' => Closed
    PROVE  ClientOK'
<1>1. ReaderOK /\ FramingConsistent /\ log \in Seq(Entry)
  BY DEF DriverOK
<1>2. ibuffer' = buf
  BY DEF NextOn
<1>3. Closed' <=> Closed
  BY ClosedStays
<1>4. Unanswered(state', body_type') => code_' = "status_code"
  BY <1>1, NextIsAnswered
<1>5. asked' /\ code_' = INSUFFICIENT /\ idx' = Len(buf) =>
         body_type' = "CONTENT_LENGTH_READ" /\ body_size' # 0
  BY <1>1, NextLacksBody
<1>6. state' = "EXPECT_END_OF_CONNECTION_ERROR" => token_size_' = 0
  BY <1>1, NextIsBetween
<1>7. ASSUME log' = <<>> \/ Last(log').code = "end_of_message" PROVE state' \in Between
  <2>1. PICK f \in Nat, t \in Nat : log' = Record(log, code_', f, t)
    <3>1. PICK b \in Nat, i \in Nat, n \in Nat : b = base' /\ i = idx' /\ n = token_size_'
      BY DEF DriverOK, ReaderOK
    <3>2. b + i \in Nat /\ b + i + n \in Nat
      OBVIOUS
    <3> QED
      BY <3>1, <3>2 DEF RecordToken
  <2>2. code_' \in Code
    BY DEF DriverOK, ReaderOK, ResponseCode
  <2>3. CASE code_' \in {"skip", INSUFFICIENT}
    <3>1. log' = log
      BY <2>1, <2>3 DEF Record, INSUFFICIENT, symbol, ErrorCode
    <3> QED
      BY <1>1, <1>7, <2>3, <3>1, NextIsBetween DEF ClientOK
  <2>4. CASE code_' \notin {"skip", INSUFFICIENT}
    <3>1. log' # <<>> /\ Last(log').code = code_'
      BY <1>1, <2>1, <2>2, <2>4, LastRecorded
    <3> QED
      BY <1>1, <1>7, <3>1, NextIsBetween
  <2> QED
    BY <2>3, <2>4
<1> QED
  BY <1>2, <1>3, <1>4, <1>5, <1>6, <1>7 DEF ClientOK

(* A driver that is finished has come to where the machine stops. *)
LEMMA FinishedStops ==
    ASSUME DriverOK, ClientOK, Finished
    PROVE  Course(method, stream)[Place] = Place /\ Place.log = log
<1>1. /\ ReaderOK /\ TokenInsideBuffer /\ FramingConsistent /\ stream \in Seq(Byte)
      /\ base \in Nat /\ log \in Seq(Entry) /\ idx \in Nat /\ token_size_ \in Nat
      /\ ibuffer \in Seq(Byte) /\ state \in State
  BY DEF DriverOK, ReaderOK
<1>2. /\ Place \in PlacesOf(stream) /\ Where \in 0..Len(stream) /\ Size \in Nat
  BY PlaceOK
<1>3. ASSUME Step(method, stream, Place) = Place PROVE Course(method, stream)[Place] = Place
  BY <1>1, <1>2, <1>3, CourseIs
<1>4. CASE state = "ERRORED"
  <2>1. Place = Spot("ERRORED", "none", 0, "none", Where, log)
    BY <1>4 DEF Place, At
  <2>2. Place.state = "ERRORED" /\ Place.log = log
    BY <2>1, SpotIs
  <2>3. Step(method, stream, Place) = Place
    BY <2>2 DEF Step
  <2> QED
    BY <1>3, <2>2, <2>3
<1>5. CASE asked /\ code_ = INSUFFICIENT
  <2>1. Where = base + idx
    BY <1>1, <1>5 DEF Where, Gone
  <2>2. Waits(state, token_size_, ibuffer, idx)
    BY <1>5 DEF DriverOK, Known
  <2>3. PICK j \in Nat : j = base + idx
    BY <1>1
  <2>4. base + Len(ibuffer) = Len(stream) /\ ~Unanswered(state, body_type)
    BY <1>5 DEF ClientOK, INSUFFICIENT
  <2>5. /\ Len(ibuffer) \in Nat /\ Len(stream) \in Nat /\ idx + token_size_ <= Len(ibuffer)
        /\ idx <= Len(ibuffer) /\ j <= Len(stream) /\ Len(stream) - j = Len(ibuffer) - idx
    BY <1>1, <2>3, <2>4 DEF TokenInsideBuffer
  <2>6. \A k \in 1..(Len(ibuffer) - idx) : stream[j + k] = ibuffer[idx + k]
    <3>1. Shows(stream, base + idx, ibuffer, 0 + idx)
      BY <1>1, <2>5, ShowsOn DEF DriverOK
    <3>2. Shows(stream, j, ibuffer, idx)
      BY <1>1, <2>3, <3>1
    <3> QED
      BY <3>2 DEF Shows
  <2>7. Waits(state, token_size_, stream, j)
    BY <1>1, <2>2, <2>5, <2>6, WaitsIsShown
  <2>8. state \in {"EXPECT_BODY", "EXPECT_CHUNK_DATA"} => Size > 0
    BY <1>1 DEF FramingConsistent, FramingSuits, BodySuits, Size, Sized, ReaderOK, Uint
  <2>9. j \in 0..Len(stream)
    BY <2>5
  <2>10. Place = Spot(state, body_type, Size, Memo, j, log)
    BY <1>1, <1>2, <2>1, <2>3, <2>7, <2>8, <2>9, WaitingPlace DEF Place
  <2>11. j = Len(stream) => body_type = "CONTENT_LENGTH_READ" /\ Size # 0
    <3>1. j = Len(stream) => idx = Len(ibuffer)
      BY <1>1, <2>5
    <3> QED
      BY <1>5, <3>1 DEF ClientOK, Size, Sized
  <2>12. Step(method, stream, Place) = Place
    BY <1>1, <2>4, <2>7, <2>9, <2>10, <2>11, WaitingStops
  <2>13. Place.log = log
    BY <2>10, SpotIs
  <2> QED
    BY <1>3, <2>12, <2>13
<1> QED
  BY <1>4, <1>5 DEF Finished

(* Before the first byte. *)
LEMMA FreshOK ==
    ASSUME stream \in Seq(Byte), body_size \in Uint, connection_flags = {},
           state = "EXPECT_VERSION_STATIC_STR", body_type = "UNKNOWN_BODY",
           code_ = INSUFFICIENT, idx = 0, token_size_ = 0, ibuffer = <<>>,
           base = 0, received = 0, asked = FALSE, log = <<>>
    PROVE  DriverOK /\ ClientOK /\ Place = StartPlace
<1>1. Waits("EXPECT_VERSION_STATIC_STR", 0, <<>>, 0)
  BY StartWaits
<1>2. Known(stream, base + idx)
  BY <1>1 DEF Known, ValueState
<1>3. ReaderOK
  BY DEF ReaderOK, State, BeforeStatusCode, BodyType, ResponseCode, Code, INSUFFICIENT, ErrorCode
<1>4. /\ TokenInsideBuffer /\ Shows(stream, base, ibuffer, 0)
      /\ StatusCodeIsLast /\ StatusIsWhole
  BY DEF TokenInsideBuffer, Shows, StatusCodeIsLast, StatusIsWhole, INSUFFICIENT
<1>5. FramingConsistent
  BY DEF FramingConsistent, FramingSuits, BodySuits, OwnSuits, Reading, InChunks, InTrailers,
         AfterStatusCode, InHeaders, InField
<1>6. Where = 0 /\ Behind(log, Where) /\ log \in Seq(Entry)
  BY DEF Where, Gone, Behind
<1>7. DriverOK
  BY <1>2, <1>3, <1>4, <1>5, <1>6 DEF DriverOK
<1>8. ClientOK
  BY DEF ClientOK, Closed, Unanswered, Between
<1>9. Size = 0 /\ Memo = "HTTP_1_1"
  BY DEF Size, Sized, Memo
<1>10. Place = At(stream, "EXPECT_VERSION_STATIC_STR", "UNKNOWN_BODY", 0, "HTTP_1_1", 0, <<>>)
  BY <1>6, <1>9 DEF Place
<1>11. Decides(stream, "EXPECT_VERSION_STATIC_STR", 0)
  BY DEF Decides, BodyStates, OwsStates
<1>12. Place = StartPlace
  BY <1>10, <1>11, AtDecides DEF StartPlace
<1> QED
  BY <1>7, <1>8, <1>12

LEMMA FreshOKNext ==
    ASSUME (stream \in Seq(Byte))', (body_size \in Uint)', connection_flags' = {},
           state' = "EXPECT_VERSION_STATIC_STR", body_type' = "UNKNOWN_BODY",
           code_' = INSUFFICIENT, idx' = 0, token_size_' = 0, ibuffer' = <<>>,
           base' = 0, received' = 0, asked' = FALSE, log' = <<>>
    PROVE  DriverOK' /\ ClientOK' /\ Place' = StartPlace
<1>1. Waits("EXPECT_VERSION_STATIC_STR", 0, <<>>, 0)
  BY StartWaits
<1>2. Known(stream, base + idx)'
  BY <1>1 DEF Known, ValueState
<1>3. ReaderOK'
  BY DEF ReaderOK, State, BeforeStatusCode, BodyType, ResponseCode, Code, INSUFFICIENT, ErrorCode
<1>4. /\ TokenInsideBuffer' /\ Shows(stream, base, ibuffer, 0)'
      /\ StatusCodeIsLast' /\ StatusIsWhole'
  BY DEF TokenInsideBuffer, Shows, StatusCodeIsLast, StatusIsWhole, INSUFFICIENT
<1>5. FramingConsistent'
  BY DEF FramingConsistent, FramingSuits, BodySuits, OwnSuits, Reading, InChunks, InTrailers,
         AfterStatusCode, InHeaders, InField
<1>6. Where' = 0 /\ Behind(log, Where)' /\ log' \in Seq(Entry)
  BY DEF Where, Gone, Behind
<1>7. DriverOK'
  BY <1>2, <1>3, <1>4, <1>5, <1>6 DEF DriverOK
<1>8. ClientOK'
  BY DEF ClientOK, Closed, Unanswered, Between
<1>9. Size' = 0 /\ Memo' = "HTTP_1_1"
  BY DEF Size, Sized, Memo
<1>10. Place' = At(stream', "EXPECT_VERSION_STATIC_STR", "UNKNOWN_BODY", 0, "HTTP_1_1", 0, <<>>)
  BY <1>6, <1>9 DEF Place
<1>11. Decides(stream, "EXPECT_VERSION_STATIC_STR", 0)'
  BY DEF Decides, BodyStates, OwsStates
<1>12. Place' = StartPlace
  BY <1>10, <1>11, AtDecides DEF StartPlace
<1> QED
  BY <1>7, <1>8, <1>12

(* A step that changes nothing of the reader and its stream. *)
LEMMA SameOK ==
    ASSUME DriverOK, ClientOK, reader' = reader, stream' = stream, base' = base,
           received' = received, asked' = asked, log' = log
    PROVE  DriverOK' /\ ClientOK' /\ Place' = Place /\ (Finished => Finished')
<1>1. /\ state' = state /\ code_' = code_ /\ idx' = idx /\ token_size_' = token_size_
      /\ ibuffer' = ibuffer /\ body_type' = body_type /\ body_size' = body_size
      /\ connection_flags' = connection_flags
  BY DEF reader, framing
<1>2. /\ Gone' = Gone /\ Size' = Size /\ Memo' = Memo /\ Consumed' = Consumed
      /\ (Closed' <=> Closed)
  BY <1>1 DEF Gone, Size, Memo, Consumed, Closed
<1>3. Where' = Where
  BY <1>1, <1>2 DEF Where
<1>4. Known(stream, base + idx)'
  BY <1>1, <1>2 DEF DriverOK, Known
<1>5. /\ ReaderOK' /\ TokenInsideBuffer' /\ FramingConsistent'
      /\ StatusCodeIsLast' /\ StatusIsWhole'
  BY <1>1 DEF DriverOK, ReaderOK, TokenInsideBuffer, FramingConsistent, StatusCodeIsLast,
              StatusIsWhole
<1>6. DriverOK'
  BY <1>1, <1>3, <1>4, <1>5 DEF DriverOK
<1>7. ClientOK'
  BY <1>1, <1>2 DEF ClientOK
<1>8. Place' = Place
  BY <1>1, <1>2, <1>3 DEF Place
<1>9. Finished => Finished'
  BY <1>1 DEF Finished
<1> QED
  BY <1>6, <1>7, <1>8, <1>9

-----------------------------------------------------------------------------
LEMMA InitDInv == ASSUME DriverInit PROVE DInv
<1>1. stream \in Seq(Byte)
  BY DriverAssumption DEF DriverInit
<1>2. body_size \in Uint
  BY DEF DriverInit, ReaderInit
<1>3. DriverOK /\ ClientOK /\ Place = StartPlace
  BY <1>1, <1>2, FreshOK DEF DriverInit, ReaderInit
<1>4. StartPlace \in Way(Course(method, stream), StartPlace)
  BY <1>1, CourseIs, WayStarts
<1>5. pass = "whole"
  BY DEF DriverInit
<1> QED
  BY <1>3, <1>4, <1>5 DEF DInv, OnCourse

(* One step of the loop. *)
LEMMA LoopGoesOn ==
    ASSUME DInv, pass # "done", DriverOK', ClientOK', stream' = stream, method' = method,
           pass' = pass, whole' = whole,
           Place' = Place \/ Place' = Course(method, stream)[Place]
    PROVE  DInv'
<1>1. stream \in Seq(Byte) /\ DriverOK
  BY DEF DInv, DriverOK
<1>2. /\ Course(method, stream) \in [PlacesOf(stream) -> PlacesOf(stream)]
      /\ StartPlace \in PlacesOf(stream)
  BY <1>1, CourseIs
<1>3. Place \in PlacesOf(stream) /\ Place' \in PlacesOf(stream)
  BY <1>1, PlaceOK, PlaceOKNext
<1>4. PICK F, D, x, y : /\ F = Course(method, stream) /\ D = PlacesOf(stream)
                        /\ x = Place /\ y = Place'
  OBVIOUS
<1>5. OnCourse(F, StartPlace, x, log, pass, whole)
  BY <1>4 DEF DInv
<1>6. OnCourse(F, StartPlace, y, log', pass, whole)
  <2>1. /\ F \in [D -> D] /\ StartPlace \in D /\ x \in D /\ y \in D /\ (y = x \/ y = F[x])
        /\ pass # "done"
    BY <1>2, <1>3, <1>4
  <2> QED
    BY ONLY <1>5, <2>1, CourseGoesOn
<1> QED
  BY <1>4, <1>6 DEF DInv

LEMMA ReadSomeDInv == ASSUME DInv, pass # "done", ReadSome PROVE DInv'
<1>1. /\ DriverOK /\ ClientOK /\ stream \in Seq(Byte) /\ base \in Nat
      /\ idx \in Nat /\ token_size_ \in Nat /\ ibuffer \in Seq(Byte)
      /\ idx + token_size_ <= Len(ibuffer) /\ Len(ibuffer) \in Nat /\ Len(stream) \in Nat
  BY DEF DInv, DriverOK, ReaderOK, TokenInsideBuffer
<1>2. PICK k \in 1..(Len(stream) - received) :
         /\ received' = received + k
         /\ set_buffer(View(stream, base + idx, received + k))
         /\ base' = base + idx
         /\ RecordToken
  BY DEF ReadSome
<1>3. /\ code_ = INSUFFICIENT /\ stream' = stream /\ method' = method /\ asked' = asked
      /\ pass' = pass /\ whole' = whole
  BY DEF ReadSome
<1>4. state # "ERRORED" /\ ~Unanswered(state, body_type)
  BY <1>1, <1>3 DEF DriverOK, ClientOK, Known, INSUFFICIENT
<1>5. received = base + Len(ibuffer) /\ received \in Nat
  BY <1>1 DEF ClientOK
<1>6. ~Closed /\ ~asked'
  <2>1. received # Len(stream)
    BY <1>1, <1>2, <1>5
  <2> QED
    BY <1>1, <1>3, <2>1 DEF ClientOK
<1>7. PICK j \in Nat, e \in Nat : j = base + idx /\ e = received + k
  <2>1. base + idx \in Nat
    BY <1>1
  <2>2. received + k \in Nat
    BY <1>5
  <2> QED
    BY <2>1, <2>2
<1>8. e \in j..Len(stream) /\ token_size_ <= e - j
  BY <1>1, <1>2, <1>5, <1>7
<1>9. Shows(stream, j, stream, j)
  BY DEF Shows
<1>10. PICK buf : buf = View(stream, j, e)
  OBVIOUS
<1>11. buf \in Seq(Byte) /\ Len(buf) = e - j /\ Shows(stream, j, buf, 0)
  BY <1>1, <1>8, <1>9, <1>10, ViewShows
<1>12. NextOn(buf, 0)
  BY <1>2, <1>3, <1>7, <1>10 DEF set_buffer
<1>13. /\ base' = j /\ base' \in Nat /\ base' + 0 = base + idx /\ 0 + token_size_ <= Len(buf)
       /\ received' = base' + Len(buf)
  <2>1. j + (e - j) = e /\ j + 0 = j /\ 0 + token_size_ = token_size_
    BY <1>1, <1>7
  <2> QED
    BY <1>2, <1>7, <1>8, <1>11, <2>1
<1>14. DriverOK' /\ (Place' = Place \/ Place' = Course(method, stream)[Place])
  BY <1>1, <1>2, <1>3, <1>4, <1>6, <1>11, <1>12, <1>13, NextOnDrives
<1>15. ClientOK'
  BY <1>1, <1>2, <1>3, <1>4, <1>6, <1>11, <1>12, <1>13, <1>14, NextOnServes
<1> QED
  BY <1>3, <1>14, <1>15, LoopGoesOn

(* next() on the buffer that the reader has. *)
LEMMA NextDrives ==
    ASSUME DInv, state # "ERRORED", ~Unanswered(state, body_type), next, base' = base,
           RecordToken, stream' = stream, received' = received, asked' => Closed
    PROVE  /\ DriverOK' /\ ClientOK'
           /\ Place' = Place \/ Place' = Course(method, stream)[Place]
<1>1. /\ DriverOK /\ ClientOK /\ stream \in Seq(Byte) /\ base \in Nat
      /\ idx \in Nat /\ token_size_ \in Nat /\ ibuffer \in Seq(Byte)
      /\ idx + token_size_ <= Len(ibuffer) /\ Shows(stream, base, ibuffer, 0)
  BY DEF DInv, DriverOK, ReaderOK, TokenInsideBuffer
<1>2. NextOn(ibuffer, idx)
  BY DEF next
<1>3. received = base + Len(ibuffer) /\ (Closed => received = Len(stream))
  BY <1>1 DEF ClientOK
<1>4. /\ base' \in Nat /\ base' + idx = base + idx /\ Shows(stream, base', ibuffer, 0)
      /\ received' = base' + Len(ibuffer) /\ (Closed => received' = Len(stream))
      /\ (Closed => base' + Len(ibuffer) = Len(stream))
  BY <1>1, <1>3
<1>5. DriverOK' /\ (Place' = Place \/ Place' = Course(method, stream)[Place])
  BY <1>1, <1>2, <1>4, NextOnDrives
<1>6. ClientOK'
  BY <1>1, <1>2, <1>4, <1>5, NextOnServes
<1> QED
  BY <1>5, <1>6

LEMMA TakeTokenDInv == ASSUME DInv, pass # "done", TakeToken PROVE DInv'
<1>1. /\ symbol(code_) # "error" /\ (code_ = "status_code" => body_type # "UNKNOWN_BODY")
      /\ next /\ base' = base /\ RecordToken /\ stream' = stream /\ method' = method
      /\ received' = received /\ asked' = asked /\ pass' = pass /\ whole' = whole
  BY DEF TakeToken
<1>2. state # "ERRORED"
  BY <1>1 DEF DInv, DriverOK, Known, symbol
<1>3. ~Unanswered(state, body_type) /\ (asked' => Closed)
  BY <1>1 DEF DInv, ClientOK, Unanswered
<1>4. /\ DriverOK' /\ ClientOK'
      /\ Place' = Place \/ Place' = Course(method, stream)[Place]
  BY <1>1, <1>2, <1>3, NextDrives
<1> QED
  BY <1>1, <1>4, LoopGoesOn

LEMMA AskAgainDInv == ASSUME DInv, pass # "done", AskAgain PROVE DInv'
<1>1. /\ code_ = INSUFFICIENT /\ Closed
      /\ next /\ base' = base /\ RecordToken /\ stream' = stream /\ method' = method
      /\ received' = received /\ pass' = pass /\ whole' = whole
  BY DEF AskAgain, Starved
<1>2. state # "ERRORED" /\ ~Unanswered(state, body_type)
  BY <1>1 DEF DInv, DriverOK, ClientOK, Known, INSUFFICIENT
<1>3. /\ DriverOK' /\ ClientOK'
      /\ Place' = Place \/ Place' = Course(method, stream)[Place]
  BY <1>1, <1>2, NextDrives
<1> QED
  BY <1>1, <1>3, LoopGoesOn

(* puteof() is nothing that the machine would not know. *)
LEMMA EndOfStreamDInv == ASSUME DInv, pass # "done", EndOfStream PROVE DInv'
<1>1. /\ received = Len(stream) /\ connection_flags' = connection_flags \cup {"EOF_RECEIVED"}
      /\ state' = state /\ code_' = code_ /\ idx' = idx /\ token_size_' = token_size_
      /\ ibuffer' = ibuffer /\ body_type' = body_type /\ body_size' = body_size
  BY DEF EndOfStream, Starved, puteof, framing
<1>2. /\ stream' = stream /\ method' = method /\ base' = base /\ received' = received
      /\ asked' = asked /\ log' = log /\ pass' = pass /\ whole' = whole
  BY DEF EndOfStream
<1>3. /\ Gone' = Gone /\ Size' = Size /\ Memo' = Memo /\ Consumed' = Consumed
      /\ Closed'
  BY <1>1 DEF Gone, Size, Memo, Consumed, Closed
<1>4. Where' = Where
  BY <1>1, <1>2, <1>3 DEF Where
<1>5. Known(stream, base + idx)'
  BY <1>1, <1>2, <1>3 DEF DInv, DriverOK, Known
<1>6. /\ ReaderOK' /\ TokenInsideBuffer' /\ StatusCodeIsLast' /\ StatusIsWhole'
  BY <1>1 DEF DInv, DriverOK, ReaderOK, ConnectionFlag, TokenInsideBuffer, StatusCodeIsLast,
              StatusIsWhole
<1>7. FramingConsistent'
  BY <1>1 DEF DInv, DriverOK, FramingConsistent, FramingSuits, OwnSuits
<1>8. DriverOK'
  BY <1>1, <1>2, <1>4, <1>5, <1>6, <1>7 DEF DInv, DriverOK
<1>9. ClientOK'
  BY <1>1, <1>2, <1>3 DEF DInv, ClientOK
<1>10. Place' = Place
  BY <1>1, <1>2, <1>3, <1>4 DEF Place
<1> QED
  BY <1>2, <1>8, <1>9, <1>10, LoopGoesOn

(* The client's answer is a step of the machine: the digits of the token    *)
(* are those of the stream.                                                *)
LEMMA AnswerIsTold ==
    ASSUME DriverOK, code_ = "status_code", NEW m, set_method(m)
    PROVE  /\ body_type' = Told(m, stream, Where)
           /\ body_type' \in Forced \cup {"CONNECTION_DELIMITED"} /\ body_size' \in {0, body_size}
<1>1. /\ stream \in Seq(Byte) /\ ibuffer \in Seq(Byte) /\ base \in Nat /\ idx \in Nat
      /\ token_size_ = 3 /\ idx + 3 <= Len(ibuffer) /\ Shows(stream, base, ibuffer, 0)
      /\ state = "EXPECT_SP_AFTER_STATUS_CODE" /\ Len(ibuffer) \in Nat /\ Len(stream) \in Nat
  BY DEF DriverOK, ReaderOK, TokenInsideBuffer, StatusCodeIsLast, StatusIsWhole
<1>2. PICK j \in Nat : j = base + idx
  BY <1>1
<1>3. Where = j + 3 /\ (j + 3) - 3 = j
  <2>1. Gone = 3
    BY <1>1 DEF Gone, INSUFFICIENT
  <2> QED
    BY <1>2, <2>1 DEF Where
<1>4. Shows(stream, j, ibuffer, idx)
  <2>1. Shows(stream, base + idx, ibuffer, 0 + idx)
    BY <1>1, ShowsOn
  <2> QED
    BY <1>1, <1>2, <2>1
<1>5. View(stream, j, j + 3) = TokenBytes
  <2>1. /\ Len(ibuffer) - idx <= Len(stream) - j
        /\ \A k \in 1..(Len(ibuffer) - idx) : stream[j + k] = ibuffer[idx + k]
    BY <1>4 DEF Shows
  <2>2. j + 3 <= Len(stream) /\ \A k \in 1..3 : k \in 1..(Len(ibuffer) - idx)
    BY <1>1, <2>1
  <2>3. PICK a, c : a = SubSeq(stream, j + 1, j + 3) /\ c = SubSeq(ibuffer, idx + 1, idx + 3)
    OBVIOUS
  <2>4. a \in Seq(Byte) /\ Len(a) = 3 /\ \A k \in 1..3 : a[k] = stream[j + k]
    BY <1>1, <2>2, <2>3, PartEntries
  <2>5. c \in Seq(Byte) /\ Len(c) = 3 /\ \A k \in 1..3 : c[k] = ibuffer[idx + k]
    BY <1>1, <2>3, PartEntries
  <2>6. \A k \in 1..3 : a[k] = c[k]
    BY <2>1, <2>2, <2>4, <2>5
  <2>7. a = c
    BY ONLY <2>4, <2>5, <2>6, 3 \in Nat, SameEntries
  <2> QED
    BY <1>1, <2>3, <2>7 DEF TokenBytes, View
<1>6. PICK status : status = status_code_decode(TokenBytes)
  OBVIOUS
<1>7. Told(m, stream, Where) =
          IF status \div 100 = 1 \/ status \in {204, 304} \/ m = HEAD THEN "FORCE_NO_BODY"
          ELSE IF status \div 100 = 2 /\ m = CONNECT THEN "FORCE_NO_BODY_AND_STOP"
          ELSE "CONNECTION_DELIMITED"
  BY <1>3, <1>5, <1>6 DEF Told
<1> QED
  BY <1>6, <1>7 DEF set_method, Forced

LEMMA AnswerStatusDInv == ASSUME DInv, pass # "done", AnswerStatus PROVE DInv'
<1>1. /\ DriverOK /\ ClientOK /\ code_ = "status_code" /\ body_type = "UNKNOWN_BODY"
      /\ set_method(method)
      /\ stream' = stream /\ method' = method /\ base' = base /\ received' = received
      /\ asked' = asked /\ log' = log /\ pass' = pass /\ whole' = whole
  BY DEF DInv, AnswerStatus
<1>2. /\ state' = state /\ code_' = code_ /\ idx' = idx /\ token_size_' = token_size_
      /\ ibuffer' = ibuffer /\ connection_flags' = connection_flags
  BY <1>1 DEF set_method
<1>3. state = "EXPECT_SP_AFTER_STATUS_CODE" /\ log \in Seq(Entry)
  BY <1>1 DEF DriverOK, StatusCodeIsLast
<1>4. /\ body_type' = Told(method, stream, Where)
      /\ body_type' \in Forced \cup {"CONNECTION_DELIMITED"} /\ body_size' \in {0, body_size}
  BY <1>1, AnswerIsTold
<1>5. /\ Gone' = Gone /\ Memo' = Memo /\ Consumed' = Consumed /\ (Closed' <=> Closed)
  BY <1>2 DEF Gone, Memo, Consumed, Closed
<1>6. Size = 0 /\ Size' = 0
  BY <1>1, <1>2, <1>3, <1>4 DEF Size, Sized, Forced
<1>7. Where' = Where
  BY <1>1, <1>2, <1>5 DEF Where
<1>8. Known(stream, base + idx)'
  BY <1>1, <1>2, <1>5 DEF DriverOK, Known
<1>9. ReaderOK'
  <2>1. body_type' \in BodyType
    BY <1>4 DEF BodyType
  <2>2. body_size' \in Uint
    BY <1>1, <1>4, UintMaxAssumption DEF DriverOK, ReaderOK, Uint
  <2> QED
    BY <1>1, <1>2, <2>1, <2>2 DEF DriverOK, ReaderOK
<1>10. FramingConsistent'
  BY <1>2, <1>3, <1>4
  DEF FramingConsistent, FramingSuits, BodySuits, OwnSuits, Forced, Reading, InField, InChunks,
      InTrailers, InHeaders, BeforeStatusCode, AfterStatusCode
<1>11. TokenInsideBuffer' /\ StatusCodeIsLast' /\ StatusIsWhole'
  BY <1>1, <1>2 DEF DriverOK, TokenInsideBuffer, StatusCodeIsLast, StatusIsWhole
<1>12. DriverOK'
  BY <1>1, <1>2, <1>7, <1>8, <1>9, <1>10, <1>11 DEF DriverOK
<1>13. ClientOK'
  <2>1. ~Unanswered(state', body_type') /\ code_' # INSUFFICIENT
    BY <1>1, <1>2, <1>4 DEF Unanswered, Forced, INSUFFICIENT
  <2> QED
    BY <1>1, <1>2, <1>5, <2>1 DEF ClientOK
<1>14. Decides(stream, state, Where)
  BY <1>3 DEF Decides, BodyStates, OwsStates
<1>15. Place = Spot(state, body_type, 0, Memo, Where, log)
  BY <1>6, <1>14, AtDecides DEF Place
<1>16. Place' = Spot(state, Told(method, stream, Where), 0, Memo, Where, log)
  <2>1. Place' = At(stream, state, body_type', 0, Memo, Where, log)
    BY <1>1, <1>2, <1>5, <1>6, <1>7 DEF Place
  <2> QED
    BY <1>4, <1>14, <2>1, AtDecides
<1>17. Place' = Step(method, stream, Place) /\ Place.log = log
  <2>1. /\ Place.state = state /\ Place.body_type = "UNKNOWN_BODY" /\ Place.body_size = 0
        /\ Place.memo = Memo /\ Place.at = Where /\ Place.log = log
    BY <1>1, <1>15, SpotIs
  <2>2. Step(method, stream, Place) =
            Spot(Place.state, Told(method, stream, Place.at), Place.body_size, Place.memo,
                 Place.at, Place.log)
    BY <1>3, <2>1 DEF Step, EndStates, Unanswered
  <2> QED
    BY <1>16, <2>1, <2>2
<1>18. Place' = Course(method, stream)[Place]
  BY <1>1, <1>3, <1>12, <1>17, AgreesItself, StepIsTaken
<1> QED
  BY <1>1, <1>12, <1>13, <1>18, LoopGoesOn

LEMMA SecondPassDInv == ASSUME DInv, SecondPass PROVE DInv'
<1>1. DriverOK /\ ClientOK /\ stream \in Seq(Byte) /\ body_size \in Uint
  BY DEF DInv, DriverOK, ReaderOK
<1>2. /\ stream' = stream /\ method' = method /\ body_size' = body_size
      /\ connection_flags' = {} /\ state' = "EXPECT_VERSION_STATIC_STR"
      /\ body_type' = "UNKNOWN_BODY" /\ code_' = INSUFFICIENT
      /\ idx' = 0 /\ token_size_' = 0 /\ ibuffer' = <<>>
      /\ base' = 0 /\ received' = 0 /\ asked' = FALSE /\ log' = <<>>
      /\ pass = "whole" /\ pass' = "pieces" /\ whole' = log /\ Finished
  BY DEF SecondPass, reset
<1>3. (stream \in Seq(Byte))' /\ (body_size \in Uint)'
  BY <1>1, <1>2
<1>4. DriverOK' /\ ClientOK' /\ Place' = StartPlace
  BY <1>2, <1>3, FreshOKNext
<1>5. Course(method, stream)[Place] = Place /\ Place.log = log
  BY <1>1, <1>2, FinishedStops
<1>6. OnCourse(Course(method, stream), StartPlace, Place, log, "whole", whole)
  BY <1>2 DEF DInv
<1>7. OnCourse(Course(method, stream), StartPlace, StartPlace, log', "pieces", log)
  BY ONLY <1>5, <1>6, CourseTurns
<1> QED
  BY <1>2, <1>4, <1>7 DEF DInv

LEMMA DoneDInv == ASSUME DInv, Done PROVE DInv'
<1>1. /\ reader' = reader /\ stream' = stream /\ method' = method /\ base' = base
      /\ received' = received /\ asked' = asked
      /\ log' = log /\ whole' = whole /\ pass = "pieces" /\ pass' = "done" /\ Finished
  BY DEF Done
<1>2. DriverOK' /\ ClientOK' /\ Place' = Place /\ Finished'
  BY <1>1, SameOK DEF DInv
<1>3. Course(method, stream)[Place] = Place /\ Place.log = log
  BY <1>1, FinishedStops DEF DInv
<1>4. OnCourse(Course(method, stream), StartPlace, Place, log, "pieces", whole)
  BY <1>1 DEF DInv
<1>5. OnCourse(Course(method, stream), StartPlace, Place, log, "done", whole)
  BY ONLY <1>3, <1>4, CourseEnds
<1> QED
  BY <1>1, <1>2, <1>5 DEF DInv

LEMMA NextDInv == ASSUME DInv, [DriverNext]_driver PROVE DInv'
<1>1. CASE Loop
  <2>1. pass # "done"
    BY <1>1 DEF Loop
  <2> QED
    BY <1>1, <2>1, ReadSomeDInv, AnswerStatusDInv, TakeTokenDInv, EndOfStreamDInv,
       AskAgainDInv DEF Loop
<1>2. CASE SecondPass
  BY <1>2, SecondPassDInv
<1>3. CASE Done
  BY <1>3, DoneDInv
<1>4. CASE UNCHANGED driver
  <2>1. /\ reader' = reader /\ stream' = stream /\ method' = method /\ base' = base
        /\ received' = received /\ asked' = asked
        /\ log' = log /\ whole' = whole /\ pass' = pass
    BY <1>4 DEF driver
  <2>2. DriverOK' /\ ClientOK' /\ Place' = Place /\ (Finished => Finished')
    BY <2>1, SameOK DEF DInv
  <2> QED
    BY <2>1, <2>2 DEF DInv
<1> QED
  BY <1>1, <1>2, <1>3, <1>4 DEF DriverNext

LEMMA CourseDecides == ASSUME DInv PROVE PiecesDoNotMatter
<1>1. DriverOK /\ stream \in Seq(Byte) /\ log \in Seq(Entry)
  BY DEF DInv, DriverOK
<1>2. PICK D, G, F, x : /\ D = PlacesOf(stream) /\ G = [y \in D |-> Step(method, stream, y)]
                        /\ F = Course(method, stream) /\ x = Place
  OBVIOUS
<1>3. F = Machine(D, G)
  BY <1>2 DEF Course
<1>4. \A y \in D : y.log \in Seq(Entry)
  BY <1>1, <1>2, CourseIs
<1>5. x \in D /\ Agrees(log, x.log, FALSE)
  BY <1>1, <1>2, PlaceOK
<1>6. OnCourse(F, StartPlace, x, log, pass, whole)
  BY <1>2 DEF DInv
<1>7. ASSUME pass # "whole" PROVE Agrees(log, whole, pass = "done")
  BY ONLY <1>1, <1>3, <1>4, <1>5, <1>6, <1>7, CourseAgrees
<1> QED
  BY <1>7 DEF PiecesDoNotMatter

LEMMA ClientLearns == ASSUME DInv PROVE CloseIsReported
<1> SUFFICES ASSUME pass = "done", code_ = INSUFFICIENT,
                    log = <<>> \/ Last(log).code = "end_of_message", Unread = <<>>
             PROVE  FALSE
  BY DEF CloseIsReported
<1>1. state # "ERRORED" /\ asked /\ state \in Between
  BY DEF DInv, DriverOK, ClientOK, Known, Finished
<1>2. ibuffer \in Seq(Byte) /\ idx \in Nat /\ idx <= Len(ibuffer)
  BY DEF DInv, DriverOK, ReaderOK, TokenInsideBuffer
<1>3. idx = Len(ibuffer)
  BY <1>2 DEF Unread
<1>4. body_type = "CONTENT_LENGTH_READ"
  BY <1>1, <1>3 DEF DInv, ClientOK
<1>5. body_type = "UNKNOWN_BODY"
  BY <1>1 DEF DInv, DriverOK, FramingConsistent, FramingSuits, OwnSuits, Between,
              BeforeStatusCode
<1> QED
  BY <1>4, <1>5

LEMMA DInvHolds == DriverSpec => []DInv
<1>1. DriverInit => DInv
  BY InitDInv
<1>2. DInv /\ [DriverNext]_driver => DInv'
  BY NextDInv
<1> QED
  BY <1>1, <1>2, PTL DEF DriverSpec

(* "The strucutral and data tokens will always be emitted the same": for    *)
(* every stream and every method of the requests, and whatever the pieces  *)
(* in which the socket hands the stream out, a response reader gives the   *)
(* tokens, the bytes of each and the error that it gives when the whole    *)
(* stream lies in one buffer; so it does after reset(), although it has    *)
(* seen the end of a connection.                                           *)
THEOREM PiecesGiveTheSame == DriverSpec => []PiecesDoNotMatter
<1>1. DInv => PiecesDoNotMatter
  BY CourseDecides
<1> QED
  BY <1>1, DInvHolds, PTL

(* A client that is still asked for more after puteof(), with every byte    *)
(* read, knows that the server stopped inside a message: between two       *)
(* messages the end of the connection is reported as an error.             *)
THEOREM ClosesAreReported == DriverSpec => []CloseIsReported
<1>1. DInv => CloseIsReported
  BY ClientLearns
<1> QED
  BY <1>1, DInvHolds, PTL
=============================================================================
