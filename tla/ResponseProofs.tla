--------------------------- MODULE ResponseProofs ---------------------------
(***************************************************************************)
(* The response reader's invariants, for every alphabet, every capacity of *)
(* the caller's memory, every width of body_size, every set of literals    *)
(* and of methods, whether or not the buffer shrinks after puteof().       *)
(*                                                                         *)
(* The argument is that of RequestProofs.  It takes one more fact: that    *)
(* set_method(), which writes the framing from outside, is called in one   *)
(* state of next() only.                                                   *)
(***************************************************************************)
EXTENDS ResponseTokens, ResponseConsumer, MessageProofs

(* The token status_code is current only until the space behind it is read. *)
StatusCodeIsLast == code_ = "status_code" => state = "EXPECT_SP_AFTER_STATUS_CODE"

IInv == /\ ReaderOK /\ held \in Seq(Byte)
        /\ TokenInsideBuffer /\ FramingConsistent /\ StatusCodeIsLast

(* What IInv requires of the reader after next() has read at offset i. *)
Post(buf, i) == /\ state' \in State
                /\ code_' \in ResponseCode
                /\ token_size_' \in Nat
                /\ i + token_size_' <= Len(buf)
                /\ connection_flags' \subseteq ConnectionFlag
                /\ body_type' \in BodyType
                /\ body_size' \in Uint
                /\ FramingConsistent'
                /\ StatusCodeIsLast'

-----------------------------------------------------------------------------
(* A state that the framing read so far allows. *)
Suits(s) == s \in State /\ FramingSuits(s, body_type, body_size, connection_flags)

OtherCode == ResponseCode \ {"status_code"}

(* The codes that next() gives are codes of a response reader. *)
LEMMA ResponseCodes ==
    /\ "status_code" \in ResponseCode
    /\ {INSUFFICIENT, "skip", "version", "reason_phrase", "field_name", "body_chunk",
        "end_of_headers", "end_of_body", "end_of_message", "error_set_method",
        "error_use_another_connection", "error_invalid_data",
        "error_invalid_content_length", "error_invalid_transfer_encoding"}
          \subseteq OtherCode
    /\ MessageCode \subseteq OtherCode
BY DEF INSUFFICIENT, MessageCode, OtherCode, ResponseCode, Code, ErrorCode, DataCode,
       StructuralCode

(* The current state suits itself, and ERRORED suits every framing that    *)
(* the flags of the connection allow.                                      *)
LEMMA SuitsHere ==
    ASSUME ReaderOK, FramingConsistent
    PROVE  Suits(state) /\ Suits("ERRORED")
<1>1. Suits(state)
  BY DEF Suits, ReaderOK, FramingConsistent
<1>2. "ERRORED" \in State
  BY DEF State, MessageState
<1>3. OwnSuits("ERRORED", body_type, body_size, connection_flags)
  BY DEF FramingConsistent, FramingSuits, OwnSuits, BeforeStatusCode, AfterStatusCode,
         InHeaders, InField
<1> QED
  BY <1>1, <1>2, <1>3, ErroredSuits DEF Suits, FramingSuits

(* A case that only moves to another state. *)
LEMMA MovePost ==
    ASSUME ReaderOK, NEW buf, NEW i, NEW s, Suits(s), state' = s,
           code_' \in OtherCode, token_size_' \in Nat,
           i + token_size_' <= Len(buf), UNCHANGED <<framing, connection_flags>>
    PROVE  Post(buf, i)
BY DEF Post, Suits, ReaderOK, FramingConsistent, StatusCodeIsLast, OtherCode, framing

LEMMA OutcomePost ==
    ASSUME ReaderOK, FramingConsistent, NEW buf, NEW i, NEW here, NEW s, NEW code,
           Suits(here), Suits(s), code \in OtherCode,
           Outcome(buf, i, here, s, code), UNCHANGED <<framing, connection_flags>>
    PROVE  Post(buf, i)
BY ResponseCodes, SuitsHere, MovePost DEF Outcome

(* The sections that both readers share: MessageProofs says which states    *)
(* and framings they reach.                                                *)
LEMMA ReachedPost ==
    ASSUME ReaderOK, NEW buf, NEW i, NEW S, S \subseteq State, Reached(buf, i, S),
           connection_flags' = connection_flags, body_type' \in BodyType,
           OwnSuits(state', body_type', body_size', connection_flags)
    PROVE  Post(buf, i)
BY ResponseCodes
DEF Reached, Post, ReaderOK, FramingConsistent, FramingSuits, StatusCodeIsLast, OtherCode

LEMMA SharedPost ==
    ASSUME ReaderOK, FramingConsistent,
           NEW buf \in Seq(Byte), NEW i \in Nat, NEW n \in Nat,
           i + n <= Len(buf), i # Len(buf), connection_flags' = connection_flags,
           \/ FieldCase(buf, i, n)
           \/ ExpectBody(buf, i, n)
           \/ ChunkCase(buf, i, n)
           \/ TrailerCase(buf, i, n, "EXPECT_VERSION_STATIC_STR", "UNKNOWN_BODY")
    PROVE  Post(buf, i)
<1>1. body_size \in Uint /\ Suitable(state) /\ body_type \in BodyType
  BY DEF ReaderOK, FramingConsistent, FramingSuits, Suitable
<1>2. OwnSuits(state, body_type, body_size, connection_flags)
  BY DEF FramingConsistent, FramingSuits
<1>3. CASE FieldCase(buf, i, n)
  <2>1. Reached(buf, i, InHeaders \cup {"ERRORED"}) /\ Settled
    BY <1>1, <1>3, FieldReached
  <2>2. body_type' \in BodyType /\ InHeaders \cup {"ERRORED"} \subseteq State
    BY <1>1, <2>1 DEF Settled, BodyType, FieldBodyType, State, MessageState
  <2>3. state \in InHeaders
    BY <1>3 DEF FieldCase, ExpectColon, ExpectOwsAfterColon, ExpectFieldValue,
                ExpectCrlfAfterFieldValue, InHeaders, InField
  <2>4. body_type # "UNKNOWN_BODY"
    BY <1>2, <2>3 DEF OwnSuits
  <2>5. state' \in InHeaders \cup {"ERRORED"} /\ body_type' # "UNKNOWN_BODY"
    BY <2>1, <2>4 DEF Reached, Settled
  <2>6. body_type' \in {"READING_ENCODING", "CHUNKED_ENCODING_READ",
                        "RANDOM_ENCODING_READ"} => "HTTP_1_0" \notin connection_flags
    BY <1>2, <2>1 DEF OwnSuits, Settled
  <2>7. OwnSuits(state', body_type', body_size', connection_flags)
    BY <2>5, <2>6
    DEF OwnSuits, BeforeStatusCode, AfterStatusCode, InHeaders, InField
  <2> QED
    BY <2>1, <2>2, <2>7, ReachedPost
<1>4. CASE ExpectBody(buf, i, n)
  <2>1. /\ Reached(buf, i, {"EXPECT_BODY", "EXPECT_END_OF_BODY"})
        /\ body_type' = "CONTENT_LENGTH_READ"
        /\ state' = "EXPECT_END_OF_BODY" => body_size' = 0
    BY <1>1, <1>4, BodyReached
  <2>2. /\ body_type' \in BodyType
        /\ {"EXPECT_BODY", "EXPECT_END_OF_BODY"} \subseteq State
    BY <2>1 DEF BodyType, FieldBodyType, State, MessageState
  <2>3. OwnSuits(state', body_type', body_size', connection_flags)
    BY <2>1
    DEF Reached, OwnSuits, BeforeStatusCode, AfterStatusCode, InHeaders, InField
  <2> QED
    BY <2>1, <2>2, <2>3, ReachedPost
<1>5. CASE ChunkCase(buf, i, n)
  <2>1. /\ Reached(buf, i, InChunks \cup {"EXPECT_TRAILER_NAME", "ERRORED"})
        /\ body_type = "CHUNKED_ENCODING_READ" /\ body_type' = body_type
    BY <1>1, <1>5, ChunkReached
  <2>2. InChunks \cup {"EXPECT_TRAILER_NAME", "ERRORED"} \subseteq State
    BY DEF State, MessageState, InTrailers
  <2>3. OwnSuits(state', body_type', body_size', connection_flags)
    BY <1>2, <2>1
    DEF Reached, OwnSuits, BeforeStatusCode, AfterStatusCode, InHeaders, InField, InChunks
  <2> QED
    BY <1>1, <2>1, <2>2, <2>3, ReachedPost
<1>6. CASE TrailerCase(buf, i, n, "EXPECT_VERSION_STATIC_STR", "UNKNOWN_BODY")
  <2> DEFINE S == InTrailers \cup {"ERRORED", "EXPECT_VERSION_STATIC_STR"}
  <2>1. /\ "EXPECT_VERSION_STATIC_STR" \notin InChunks \cup InTrailers \cup {"EXPECT_BODY"}
        /\ "UNKNOWN_BODY" \notin Reading
    BY DEF InChunks, InTrailers, Reading
  <2>2. /\ Reached(buf, i, S)
        /\ body_type = "CHUNKED_ENCODING_READ"
        /\ \/ state' = "EXPECT_VERSION_STATIC_STR" /\ body_type' = "UNKNOWN_BODY"
           \/ state' \in InTrailers \cup {"ERRORED"} /\ body_type' = body_type
    BY <1>1, <1>6, <2>1, TrailerReached
  <2>3. S \subseteq State /\ body_type' \in BodyType
    BY <1>1, <2>2 DEF State, BeforeStatusCode, MessageState, BodyType
  <2>4. OwnSuits(state', body_type', body_size', connection_flags)
    BY <1>2, <2>2
    DEF OwnSuits, BeforeStatusCode, AfterStatusCode, InHeaders, InField, InTrailers
  <2> HIDE DEF S
  <2> QED
    BY <2>2, <2>3, <2>4, ReachedPost
<1> QED
  BY <1>3, <1>4, <1>5, <1>6

-----------------------------------------------------------------------------
(* The sections of a response of its own, one step per case of next(). *)

(* The status line.  Up to the status code no framing is known; the space   *)
(* behind it is passed only with one that set_method() wrote.              *)
LEMMA StatusLinePost ==
    ASSUME ReaderOK, FramingConsistent,
           NEW buf \in Seq(Byte), NEW i \in Nat, NEW n \in Nat,
           i + n <= Len(buf), i # Len(buf),
           \/ ExpectVersion(buf, i, n)
           \/ /\ \/ ExpectVersionStaticStr(buf, i, n)
                 \/ ExpectSpAfterVersion(buf, i, n)
                 \/ ExpectStatusCode(buf, i, n)
                 \/ ExpectSpAfterStatusCode(buf, i, n)
                 \/ ExpectReasonPhrase(buf, i, n)
                 \/ ExpectCrlfAfterReasonPhrase(buf, i, n)
              /\ UNCHANGED connection_flags
    PROVE  Post(buf, i)
<1>1. Len(buf) \in Nat
  OBVIOUS
<1>2. state \in BeforeStatusCode =>
        /\ \A s \in BeforeStatusCode : Suits(s)
        /\ Suits("EXPECT_SP_AFTER_STATUS_CODE")
  BY DEF Suits, State, FramingConsistent, FramingSuits, OwnSuits, BodySuits,
         BeforeStatusCode, AfterStatusCode, InHeaders, InField, InChunks, InTrailers,
         Reading
<1>3. \/ state \in AfterStatusCode
      \/ state = "EXPECT_SP_AFTER_STATUS_CODE" /\ body_type # "UNKNOWN_BODY"
      => Suits("EXPECT_FIELD_NAME") /\ \A s \in AfterStatusCode : Suits(s)
  <2>1. \A s \in AfterStatusCode \cup {"EXPECT_FIELD_NAME"} : s \in State
    BY DEF State, MessageState, InHeaders
  <2>2. ASSUME \/ state \in AfterStatusCode
               \/ state = "EXPECT_SP_AFTER_STATUS_CODE" /\ body_type # "UNKNOWN_BODY"
        PROVE  body_type \in {"CONNECTION_DELIMITED"} \cup Forced
    BY <2>2 DEF FramingConsistent, FramingSuits, OwnSuits
  <2>3. ASSUME body_type \in {"CONNECTION_DELIMITED"} \cup Forced,
               NEW s \in AfterStatusCode \cup {"EXPECT_FIELD_NAME"}
        PROVE  FramingSuits(s, body_type, body_size, connection_flags)
    BY <2>3
    DEF Forced, FramingSuits, OwnSuits, BodySuits, BeforeStatusCode, AfterStatusCode,
        InHeaders, InField, InChunks, InTrailers, Reading
  <2> QED
    BY <2>1, <2>2, <2>3 DEF Suits
<1>4. CASE ExpectVersionStaticStr(buf, i, n) /\ UNCHANGED connection_flags
  <2>1. StaticStr \in Seq(Byte)
    BY LiteralsAssumption
  <2>2. Outcome(buf, i, state, "EXPECT_VERSION", "skip")
    BY <1>4, <2>1, LiteralTokenOutcome DEF ExpectVersionStaticStr
  <2> QED
    BY <1>2, <1>4, <2>2, OutcomePost, SuitsHere, ResponseCodes
    DEF ExpectVersionStaticStr, BeforeStatusCode
<1>5. CASE ExpectVersion(buf, i, n)
  <2>1. Outcome(buf, i, state, "EXPECT_SP_AFTER_VERSION", "version")
    BY <1>5, ByteTokenOutcome DEF ExpectVersion
  <2>2. connection_flags' \subseteq ConnectionFlag
    BY <1>5 DEF ExpectVersion, ConnectionFlag, ReaderOK
  <2>3. body_type' = "UNKNOWN_BODY" /\ body_size' \in Uint
    BY <1>5
    DEF ExpectVersion, ReaderOK, FramingConsistent, FramingSuits, OwnSuits,
        BeforeStatusCode, framing
  <2>4. /\ state' \in {"EXPECT_VERSION", "EXPECT_SP_AFTER_VERSION", "ERRORED"}
        /\ code_' \in OtherCode
    BY <1>5, <2>1, ResponseCodes DEF Outcome, ExpectVersion
  <2>5. FramingConsistent'
    BY <2>3, <2>4
    DEF FramingConsistent, FramingSuits, OwnSuits, BodySuits, Reading, BeforeStatusCode,
        AfterStatusCode, InHeaders, InField, InChunks, InTrailers
  <2>6. state' \in State /\ body_type' \in BodyType
    BY <2>3, <2>4 DEF State, BeforeStatusCode, MessageState, BodyType
  <2> QED
    BY <2>1, <2>2, <2>3, <2>4, <2>5, <2>6 DEF Post, Outcome, StatusCodeIsLast, OtherCode
<1>6. CASE ExpectSpAfterVersion(buf, i, n) /\ UNCHANGED connection_flags
  <2>1. Outcome(buf, i, state, "EXPECT_STATUS_CODE", "skip")
    BY <1>6, ByteTokenOutcome DEF ExpectSpAfterVersion
  <2> QED
    BY <1>2, <1>6, <2>1, OutcomePost, SuitsHere, ResponseCodes
    DEF ExpectSpAfterVersion, BeforeStatusCode
<1>7. CASE ExpectStatusCode(buf, i, n) /\ UNCHANGED connection_flags
  <2>1. \/ Suspend(state, n) \/ Fail("error_invalid_data", n)
        \/ Emit("EXPECT_SP_AFTER_STATUS_CODE", "status_code", 3) /\ i + 3 <= Len(buf)
    BY <1>1, <1>7 DEF ExpectStatusCode
  <2>2. UNCHANGED framing /\ state = "EXPECT_STATUS_CODE"
    BY <1>7 DEF ExpectStatusCode
  <2>3. CASE Suspend(state, n) \/ Fail("error_invalid_data", n)
    BY <1>7, <2>2, <2>3, MovePost, SuitsHere, ResponseCodes DEF Suspend, Fail, Emit
  <2>4. CASE Emit("EXPECT_SP_AFTER_STATUS_CODE", "status_code", 3) /\ i + 3 <= Len(buf)
    <3>1. Suits("EXPECT_SP_AFTER_STATUS_CODE")
      BY <1>2, <2>2 DEF BeforeStatusCode
    <3> QED
      BY <1>7, <2>2, <2>4, <3>1, ResponseCodes
      DEF Post, Emit, Suits, ReaderOK, FramingConsistent, StatusCodeIsLast, framing
  <2> QED
    BY <2>1, <2>3, <2>4
<1>8. CASE ExpectSpAfterStatusCode(buf, i, n) /\ UNCHANGED connection_flags
  <2>1. CASE body_type = "UNKNOWN_BODY"
    BY <1>8, <2>1, MovePost, SuitsHere, ResponseCodes
    DEF ExpectSpAfterStatusCode, Fail, Emit
  <2>2. CASE body_type # "UNKNOWN_BODY"
    <3>1. Outcome(buf, i, state, "EXPECT_REASON_PHRASE", "skip")
      BY <1>8, <2>2, ByteTokenOutcome DEF ExpectSpAfterStatusCode
    <3> QED
      BY <1>3, <1>8, <2>2, <3>1, OutcomePost, SuitsHere, ResponseCodes
      DEF ExpectSpAfterStatusCode, AfterStatusCode
  <2> QED
    BY <2>1, <2>2
<1>9. CASE ExpectReasonPhrase(buf, i, n) /\ UNCHANGED connection_flags
  <2>1. Outcome(buf, i, state, "EXPECT_CRLF_AFTER_REASON_PHRASE", "reason_phrase")
    BY <1>9, RescanTokenOutcome DEF ExpectReasonPhrase
  <2> QED
    BY <1>3, <1>9, <2>1, OutcomePost, SuitsHere, ResponseCodes
    DEF ExpectReasonPhrase, AfterStatusCode
<1>10. CASE ExpectCrlfAfterReasonPhrase(buf, i, n) /\ UNCHANGED connection_flags
  <2>1. Outcome(buf, i, state, "EXPECT_FIELD_NAME", "skip")
    BY <1>10, LiberalCrlfOutcome DEF ExpectCrlfAfterReasonPhrase
  <2> QED
    BY <1>3, <1>10, <2>1, OutcomePost, SuitsHere, ResponseCodes
    DEF ExpectCrlfAfterReasonPhrase, AfterStatusCode
<1> QED
  BY <1>4, <1>5, <1>6, <1>7, <1>8, <1>9, <1>10

(* A complete field name: a READING_* framing starts here, and that of a   *)
(* transfer coding only on a connection to a newer server.                 *)
LEMMA FieldNamePost ==
    ASSUME ReaderOK, FramingConsistent, state = "EXPECT_FIELD_NAME",
           connection_flags' = connection_flags,
           NEW buf \in Seq(Byte), NEW i \in Nat, NEW size \in Nat,
           i + size <= Len(buf), NEW name, FieldName(name, size)
    PROVE  Post(buf, i)
<1>1. /\ body_type \notin Reading \cup {"UNKNOWN_BODY"}
      /\ body_type \in {"CHUNKED_ENCODING_READ", "RANDOM_ENCODING_READ"} =>
            "HTTP_1_0" \notin connection_flags
  BY DEF FramingConsistent, FramingSuits, OwnSuits, BodySuits, InHeaders, InField
<1>2. ASSUME NEW type \in BodyType, body_type' = type, UNCHANGED body_size,
             Emit("EXPECT_COLON", "field_name", size),
             type # "UNKNOWN_BODY",
             type \in {"READING_ENCODING", "CHUNKED_ENCODING_READ",
                       "RANDOM_ENCODING_READ"} => "HTTP_1_0" \notin connection_flags
      PROVE  Post(buf, i)
  <2>1. state' = "EXPECT_COLON" /\ "EXPECT_COLON" \in State
    BY <1>2 DEF Emit, State, MessageState, InHeaders, InField
  <2>2. FramingConsistent'
    BY <1>2, <2>1
    DEF FramingConsistent, FramingSuits, OwnSuits, BodySuits, BeforeStatusCode,
        AfterStatusCode, InHeaders, InField, InChunks, InTrailers
  <2> QED
    BY <1>2, <2>1, <2>2, ResponseCodes DEF Emit, Post, ReaderOK, StatusCodeIsLast, OtherCode
<1>3. ASSUME NEW code \in OtherCode, Fail(code, size), UNCHANGED framing
      PROVE  Post(buf, i)
  BY <1>3, SuitsHere, MovePost DEF Fail, Emit
<1>4. CASE /\ TransferEncodingField(size, "CONNECTION_DELIMITED")
           /\ "HTTP_1_0" \notin connection_flags
  BY <1>2, <1>3, <1>4, ResponseCodes
  DEF TransferEncodingField, BodyType, FieldBodyType, Reading
<1>5. CASE ContentLengthField(size, "CONNECTION_DELIMITED")
  BY <1>1, <1>2, <1>3, <1>5, ResponseCodes
  DEF ContentLengthField, BodyType, FieldBodyType, Reading
<1>6. CASE OtherField(size)
  BY <1>1, <1>2, <1>6 DEF OtherField, framing, ReaderOK, BodyType, FieldBodyType, Reading
<1> QED
  BY <1>4, <1>5, <1>6 DEF FieldName

(* The empty line: the body state that follows has its framing. *)
LEMMA CrlfAfterHeadersPost ==
    ASSUME ReaderOK, FramingConsistent,
           state \in {"EXPECT_FIELD_NAME", "EXPECT_CRLF_AFTER_HEADERS"},
           connection_flags' = connection_flags,
           NEW buf \in Seq(Byte), NEW i \in Nat, NEW n \in Nat,
           i + n <= Len(buf), i # Len(buf), CrlfAfterHeaders(buf, i, n)
    PROVE  Post(buf, i)
<1>1. body_size' = body_size /\ i <= Len(buf) /\ body_size \in Uint
  BY DEF CrlfAfterHeaders, ReaderOK
<1>2. /\ body_type \in {"CHUNKED_ENCODING_READ", "RANDOM_ENCODING_READ"} =>
            "HTTP_1_0" \notin connection_flags
      /\ body_type \notin Reading \cup {"UNKNOWN_BODY"}
  BY DEF FramingConsistent, FramingSuits, OwnSuits, BodySuits, InHeaders, InField
<1>3. ASSUME NEW size \in Nat, i + size <= Len(buf), EndOfHeaders(size)
      PROVE  Post(buf, i)
  <2>1. /\ code_' = "end_of_headers" /\ token_size_' = size
        /\ \/ /\ state' = "EXPECT_UNSAFE_BODY" /\ body_type' = "FORCE_NO_BODY_AND_STOP"
           \/ /\ state' = "EXPECT_END_OF_BODY" /\ body_type' = body_type
              /\ body_type \in Forced \/ (body_type = "CONTENT_LENGTH_READ" /\ body_size = 0)
           \/ /\ state' = "EXPECT_CHUNK_SIZE" /\ body_type' = body_type
              /\ body_type = "CHUNKED_ENCODING_READ"
           \/ /\ state' = "EXPECT_BODY" /\ body_type' = body_type
              /\ body_type = "CONTENT_LENGTH_READ" /\ body_size # 0
    BY <1>3 DEF EndOfHeaders, Emit
  <2>2. state' \in State /\ body_type' \in BodyType
    BY <2>1 DEF State, MessageState, InChunks, BodyType, Forced, ReaderOK
  <2>3. BodySuits(state', body_type', body_size')
    BY <1>1, <2>1, UintMaxAssumption
    DEF BodySuits, Forced, Reading, InField, InChunks, InTrailers, Uint
  <2>4. OwnSuits(state', body_type', body_size', connection_flags)
    BY <1>1, <1>2, <2>1
    DEF OwnSuits, Forced, BeforeStatusCode, AfterStatusCode, InHeaders, InField
  <2> QED
    BY <1>1, <1>3, <2>1, <2>2, <2>3, <2>4, ResponseCodes
    DEF Post, ReaderOK, FramingConsistent, FramingSuits, StatusCodeIsLast, OtherCode
<1>4. CASE EndOfHeaders(2) /\ liberal_crlf(buf, i) = "crlf"
  BY <1>1, <1>3, <1>4, LiberalCrlfFits
<1>5. CASE EndOfHeaders(1)
  BY <1>1, <1>3, <1>5, LiberalCrlfFits
<1>6. CASE Suspend("EXPECT_CRLF_AFTER_HEADERS", n) /\ UNCHANGED body_type
  <2>1. Suits("EXPECT_CRLF_AFTER_HEADERS")
    BY DEF Suits, State, MessageState, InHeaders, FramingConsistent, FramingSuits,
           OwnSuits, BodySuits, BeforeStatusCode, AfterStatusCode, InField, InChunks,
           InTrailers
  <2> QED
    BY <1>1, <1>6, <2>1, MovePost, ResponseCodes DEF Suspend, Emit, framing
<1>7. CASE Fail("error_invalid_data", n) /\ UNCHANGED body_type
  BY <1>1, <1>7, SuitsHere, MovePost, ResponseCodes DEF Fail, Emit, framing
<1> QED
  BY <1>4, <1>5, <1>6, <1>7 DEF CrlfAfterHeaders

LEMMA FieldNameCasePost ==
    ASSUME ReaderOK, FramingConsistent, connection_flags' = connection_flags,
           NEW buf \in Seq(Byte), NEW i \in Nat, NEW n \in Nat,
           i + n <= Len(buf), i # Len(buf),
           ExpectFieldName(buf, i, n) \/ ExpectCrlfAfterHeaders(buf, i, n)
    PROVE  Post(buf, i)
<1>1. CASE ExpectFieldName(buf, i, n)
  <2>1. PICK e \in i..Len(buf) :
          \/ CrlfAfterHeaders(buf, i, n)
          \/ Suspend(state, n) /\ UNCHANGED framing
          \/ FieldName(View(buf, i, e), e - i)
    BY <1>1 DEF ExpectFieldName
  <2>2. e - i \in Nat /\ i + (e - i) <= Len(buf)
    OBVIOUS
  <2>3. CASE CrlfAfterHeaders(buf, i, n)
    BY <1>1, <2>3, CrlfAfterHeadersPost DEF ExpectFieldName
  <2>4. CASE Suspend(state, n) /\ UNCHANGED framing
    BY <2>4, SuitsHere, MovePost, ResponseCodes DEF Suspend, Emit
  <2>5. CASE FieldName(View(buf, i, e), e - i)
    BY <1>1, <2>2, <2>5, FieldNamePost DEF ExpectFieldName
  <2> QED
    BY <2>1, <2>3, <2>4, <2>5
<1>2. CASE ExpectCrlfAfterHeaders(buf, i, n)
  BY <1>2, CrlfAfterHeadersPost DEF ExpectCrlfAfterHeaders
<1> QED
  BY <1>1, <1>2

(* A body that the connection delimits is given as it comes. *)
LEMMA UnsafeBodyPost ==
    ASSUME ReaderOK, FramingConsistent, connection_flags' = connection_flags,
           NEW buf \in Seq(Byte), NEW i \in Nat, NEW n \in Nat,
           i + n <= Len(buf), ExpectUnsafeBody(buf, i, n)
    PROVE  Post(buf, i)
<1>1. Len(buf) - i \in Nat /\ i + (Len(buf) - i) <= Len(buf)
  OBVIOUS
<1> QED
  BY <1>1, SuitsHere, MovePost, ResponseCodes DEF ExpectUnsafeBody, Emit

-----------------------------------------------------------------------------
(* The end of a message, and of the connection. *)
LEMMA EndPost ==
    ASSUME ReaderOK, FramingConsistent, NEW buf, NEW i \in Nat, i <= Len(buf),
           connection_flags' = connection_flags, EndOfBody \/ EndOfMessage
    PROVE  Post(buf, i)
<1>1. CASE EndOfBody
  <2>1. Suits("EXPECT_END_OF_MESSAGE")
    BY <1>1
    DEF EndOfBody, Suits, State, MessageState, FramingConsistent, FramingSuits, OwnSuits,
        BodySuits, BeforeStatusCode, AfterStatusCode, InHeaders, InField, InChunks,
        InTrailers
  <2> QED
    BY <1>1, <2>1, MovePost, ResponseCodes DEF EndOfBody, Emit
<1>2. CASE EndOfMessage
  <2>1. /\ body_type' = "UNKNOWN_BODY" /\ body_size' = body_size
        /\ state' \in {"EXPECT_END_OF_CONNECTION_ERROR", "EXPECT_VERSION_STATIC_STR"}
        /\ code_' = "end_of_message" /\ token_size_' = 0
    BY <1>2 DEF EndOfMessage, Emit
  <2>2. FramingConsistent'
    BY <2>1
    DEF FramingConsistent, FramingSuits, OwnSuits, BodySuits, Reading, BeforeStatusCode,
        AfterStatusCode, InHeaders, InField, InChunks, InTrailers
  <2>3. state' \in State /\ body_type' \in BodyType
    BY <2>1 DEF State, BeforeStatusCode, BodyType
  <2> QED
    BY <2>1, <2>2, <2>3, ResponseCodes DEF Post, ReaderOK, StatusCodeIsLast, OtherCode
<1> QED
  BY <1>1, <1>2

LEMMA ExhaustedPost ==
    ASSUME ReaderOK, FramingConsistent, NEW buf, NEW i \in Nat, NEW n \in Nat,
           i + n <= Len(buf), Len(buf) \in Nat,
           connection_flags' = connection_flags, Exhausted(n)
    PROVE  Post(buf, i)
<1>1. /\ UNCHANGED framing
      /\ \/ Suspend(state, n)
         \/ Fail("error_use_another_connection", n)
         \/ state = "EXPECT_UNSAFE_BODY" /\ Emit("EXPECT_END_OF_MESSAGE", "end_of_body", 0)
  BY DEF Exhausted
<1>2. CASE Suspend(state, n) \/ Fail("error_use_another_connection", n)
  BY <1>1, <1>2, SuitsHere, MovePost, ResponseCodes DEF Suspend, Fail, Emit
<1>3. CASE state = "EXPECT_UNSAFE_BODY" /\ Emit("EXPECT_END_OF_MESSAGE", "end_of_body", 0)
  <2>1. Suits("EXPECT_END_OF_MESSAGE")
    BY <1>3
    DEF Suits, State, MessageState, FramingConsistent, FramingSuits, OwnSuits, Forced,
        BodySuits, Reading, BeforeStatusCode, AfterStatusCode, InHeaders, InField,
        InChunks, InTrailers
  <2>2. i + 0 <= Len(buf)
    OBVIOUS
  <2> QED
    BY <1>1, <1>3, <2>1, <2>2, MovePost, ResponseCodes DEF Emit
<1> QED
  BY <1>1, <1>2, <1>3

(* next() on a buffer that holds the current token at pos. *)
LEMMA NextOnPost ==
    ASSUME ReaderOK, FramingConsistent, StatusCodeIsLast,
           NEW buf \in Seq(Byte), NEW pos \in Nat,
           pos + token_size_ <= Len(buf), NextOn(buf, pos)
    PROVE  ibuffer' = buf /\ idx' \in Nat /\ Post(buf, idx')
<1> DEFINE i == pos + Consumed
           n == token_size_ - Consumed
<1>1. Len(buf) \in Nat /\ token_size_ \in Nat
  BY DEF ReaderOK
<1>2. i \in Nat /\ n \in Nat /\ i + n = pos + token_size_
  BY <1>1 DEF Consumed
<1>3. ibuffer' = buf
  BY DEF NextOn
<1>4. CASE state = "ERRORED" /\ idx' = pos
           /\ UNCHANGED <<state, code_, token_size_, framing, connection_flags>>
  <2>1. code_' \in OtherCode
    BY <1>4 DEF ReaderOK, StatusCodeIsLast, OtherCode
  <2> QED
    BY <1>1, <1>3, <1>4, <2>1, SuitsHere, MovePost
<1>5. CASE /\ idx' = pos + token_size_ /\ (EndOfBody \/ EndOfMessage)
           /\ UNCHANGED connection_flags
  <2>1. idx' \in Nat /\ idx' <= Len(buf)
    BY <1>1, <1>5
  <2>2. (EndOfBody \/ EndOfMessage) /\ connection_flags' = connection_flags
    BY <1>5
  <2> QED
    BY <1>3, <2>1, <2>2, EndPost
<1>6. CASE /\ idx' = pos /\ Fail("error_use_another_connection", token_size_)
           /\ UNCHANGED <<framing, connection_flags>>
  BY <1>1, <1>3, <1>6, SuitsHere, MovePost, ResponseCodes DEF Fail, Emit
<1>7. CASE /\ idx' = i /\ i = Len(buf) /\ Exhausted(n)
           /\ UNCHANGED connection_flags
  BY <1>1, <1>2, <1>3, <1>7, ExhaustedPost
<1>8. CASE idx' = i /\ i # Len(buf) /\ ReadToken(buf, i, n)
  <2>1. i + n <= Len(buf)
    BY <1>2
  <2> HIDE DEF i, n
  <2>2. Post(buf, i)
    BY <1>2, <1>8, <2>1, StatusLinePost, FieldNameCasePost, UnsafeBodyPost, SharedPost
    DEF ReadToken, ResponseField, ResponseBody, ResponseChunks, ResponseTrailers
  <2> QED
    BY <1>2, <1>3, <1>8, <2>2
<1> QED
  BY <1>4, <1>5, <1>6, <1>7, <1>8 DEF NextOn

-----------------------------------------------------------------------------
(* The constructor establishes IInv, whatever it leaves in body_size. *)
LEMMA InitIInv == Init => IInv
<1> SUFFICES ASSUME Init PROVE IInv
  OBVIOUS
<1>1. ReaderOK
  BY ResponseCodes
  DEF Init, ReaderInit, ReaderOK, State, BeforeStatusCode, BodyType, OtherCode
<1>2. TokenInsideBuffer /\ StatusCodeIsLast
  BY DEF Init, ReaderInit, TokenInsideBuffer, StatusCodeIsLast, INSUFFICIENT
<1>3. FramingConsistent
  BY DEF Init, ReaderInit, FramingConsistent, FramingSuits, OwnSuits, BodySuits, Reading,
         BeforeStatusCode, AfterStatusCode, InHeaders, InField, InChunks, InTrailers
<1>4. held \in Seq(Byte)
  BY DEF Init
<1> QED
  BY <1>1, <1>2, <1>3, <1>4 DEF IInv

(* set_method() writes a framing that suits the state it is called in. *)
LEMMA SetMethodIInv == IInv /\ SetMethod => IInv'
<1> SUFFICES ASSUME IInv, SetMethod PROVE IInv'
  OBVIOUS
<1> USE DEF IInv
<1>1. /\ state = "EXPECT_SP_AFTER_STATUS_CODE"
      /\ body_type' \in {"CONNECTION_DELIMITED"} \cup Forced
      /\ body_size' = 0 \/ body_size' = body_size
      /\ UNCHANGED <<state, code_, idx, token_size_, ibuffer, connection_flags, held>>
  BY DEF SetMethod, set_method, StatusCodeIsLast, Forced
<1>2. body_size' \in Uint
  BY <1>1, UintMaxAssumption DEF ReaderOK, Uint
<1>3. ReaderOK'
  BY <1>1, <1>2 DEF ReaderOK, BodyType
<1>4. FramingConsistent'
  BY <1>1
  DEF FramingConsistent, FramingSuits, OwnSuits, BodySuits, Forced, Reading,
      BeforeStatusCode, AfterStatusCode, InHeaders, InField, InChunks, InTrailers
<1> QED
  BY <1>1, <1>3, <1>4 DEF TokenInsideBuffer, StatusCodeIsLast

(* Every call of the caller keeps IInv. *)
LEMMA NextIInv == IInv /\ [Next]_vars => IInv'
<1> SUFFICES ASSUME IInv, [Next]_vars PROVE IInv'
  OBVIOUS
<1> USE DEF IInv
<1>1. ASSUME NEW buf \in Seq(Byte), NEW pos \in Nat, pos + token_size_ <= Len(buf),
             NextOn(buf, pos), held' \in Seq(Byte)
      PROVE  IInv'
  <2>1. ibuffer' = buf /\ idx' \in Nat /\ Post(buf, idx')
    BY <1>1, NextOnPost
  <2> QED
    BY <1>1, <2>1 DEF Post, ReaderOK, TokenInsideBuffer
<1>2. CASE Receive
  <2>1. held' \in Seq(Byte)
    BY <1>2, CallerAssumption DEF Receive, ReaderOK
  <2> QED
    BY <1>2, <2>1
    DEF Receive, reader, framing, ReaderOK, TokenInsideBuffer, FramingConsistent,
        StatusCodeIsLast
<1>3. CASE Feed
  <2> DEFINE bytes == Unread \o held
  <2>1. /\ Unread \in Seq(Byte)
        /\ Len(Unread) = Len(ibuffer) - idx
    BY DEF ReaderOK, TokenInsideBuffer, Unread
  <2>2. bytes \in Seq(Byte) /\ Len(bytes) \in Nat
    BY <2>1 DEF ReaderOK
  <2>3. PICK k \in token_size_..Len(bytes) :
          /\ set_buffer(SubSeq(bytes, 1, k))
          /\ held' = SubSeq(bytes, k + 1, Len(bytes))
    BY <1>3 DEF Feed
  <2> DEFINE buf == SubSeq(bytes, 1, k)
  <2> HIDE DEF bytes
  <2>4. k \in Nat /\ token_size_ <= k /\ token_size_ \in Nat
    BY <2>2, <2>3 DEF ReaderOK
  <2>5. buf \in Seq(Byte) /\ Len(buf) = k /\ held' \in Seq(Byte)
    BY <2>2, <2>3, <2>4
  <2> HIDE DEF buf
  <2>6. CASE NextOn(buf, 0)
    BY <1>1, <2>4, <2>5, <2>6
  <2>7. CASE /\ ibuffer' = buf /\ idx' = 0
             /\ UNCHANGED <<state, code_, token_size_, framing, connection_flags>>
    BY <2>4, <2>5, <2>7
    DEF ReaderOK, TokenInsideBuffer, FramingConsistent, StatusCodeIsLast, framing
  <2> QED
    BY <2>3, <2>6, <2>7 DEF set_buffer, buf
<1>4. CASE Advance
  BY <1>1, <1>4 DEF Advance, next, ReaderOK, TokenInsideBuffer
<1>5. CASE SetMethod
  BY <1>5, SetMethodIInv
<1>6. CASE PutEof
  <2>1. /\ UNCHANGED <<state, code_, idx, token_size_, ibuffer, framing, held>>
        /\ connection_flags' \subseteq ConnectionFlag
        /\ "HTTP_1_0" \in connection_flags' => "HTTP_1_0" \in connection_flags
    BY <1>6 DEF PutEof, puteof, ReaderOK, ConnectionFlag
  <2>2. FramingConsistent'
    BY <2>1 DEF FramingConsistent, FramingSuits, OwnSuits, framing
  <2> QED
    BY <2>1, <2>2 DEF ReaderOK, TokenInsideBuffer, StatusCodeIsLast, framing
<1>7. CASE Restart
  <2>1. ReaderOK'
    BY <1>7, ResponseCodes
    DEF Restart, reset, ReaderOK, State, BeforeStatusCode, BodyType, OtherCode
  <2>2. TokenInsideBuffer' /\ StatusCodeIsLast'
    BY <1>7 DEF Restart, reset, TokenInsideBuffer, StatusCodeIsLast, INSUFFICIENT
  <2>3. FramingConsistent'
    BY <1>7
    DEF Restart, reset, FramingConsistent, FramingSuits, OwnSuits, BodySuits, Reading,
        BeforeStatusCode, AfterStatusCode, InHeaders, InField, InChunks, InTrailers
  <2>4. held' \in Seq(Byte)
    BY <1>7 DEF Restart
  <2> QED
    BY <2>1, <2>2, <2>3, <2>4
<1>8. CASE UNCHANGED vars
  BY <1>8
  DEF vars, reader, framing, ReaderOK, TokenInsideBuffer, FramingConsistent,
      StatusCodeIsLast
<1> QED
  BY <1>2, <1>3, <1>4, <1>5, <1>6, <1>7, <1>8 DEF Next

LEMMA IInvHolds == Spec => []IInv
BY InitIInv, NextIInv, PTL DEF Spec

(* Every variable keeps its type; the reader never reports a code that     *)
(* doc/ref/reader_response.adoc excludes, and body_size never wraps.       *)
THEOREM TypeCorrect == Spec => []TypeOK
<1>1. IInv => TypeOK
  BY DEF IInv, TypeOK
<1> QED
  BY <1>1, IInvHolds, PTL

(* Neither a token nor a scan resumed on another buffer leaves the buffer, *)
(* not even when the buffer shrinks after puteof().                        *)
THEOREM TokenStaysInside == Spec => []TokenInsideBuffer
<1>1. IInv => TokenInsideBuffer
  BY DEF IInv
<1> QED
  BY <1>1, IInvHolds, PTL

(* The framing always suits the state and the flags of the connection, in  *)
(* every message: next() is never in a body without knowing where it ends, *)
(* no message is read without its method, and the UNREACHABLE cases of     *)
(* next() are unreachable.                                                 *)
THEOREM FramingIsConsistent == Spec => []FramingConsistent
<1>1. IInv => FramingConsistent
  BY DEF IInv
<1> QED
  BY <1>1, IInvHolds, PTL

-----------------------------------------------------------------------------
(* What the response reader's tokens have to do with the bytes of the      *)
(* stream, for every alphabet, every capacity of the caller's memory,      *)
(* every way of cutting the stream into buffers, every method and every    *)
(* moment at which the connection may end.                                 *)
(*                                                                         *)
(* The invariant is the one of the request reader: it speaks of all the    *)
(* bytes the caller has, since the buffer may be shrunk to the current     *)
(* token and grow again.  set_method() and puteof() change neither the     *)
(* stream nor the token.  As there, the refinement of the token grammar    *)
(* and the agreement with a consumer follow (CInv), which here needs       *)
(* StreamInv: what the consumer makes of a status code depends on its      *)
(* bytes, and the end of some bodies on what is left of the stream.        *)

Stream == Unread \o held

StreamInv == /\ TokenIs(code_, token_size_, Stream, 0)
             /\ code_ = INSUFFICIENT => Waits(state, token_size_, ibuffer, idx)
             /\ state \in ValueState => InkAt(Stream, 0 + Consumed)
             /\ state = "ERRORED" => code_ \in ErrorCode \ {INSUFFICIENT}

LEMMA StreamJoined == Joined(Stream, ibuffer, idx, held)
BY DEF Joined, Stream, Unread

(* The stream starts with what the buffer shows behind the tokens read. *)
LEMMA StreamIsBuffer ==
    ASSUME IInv
    PROVE  /\ idx \in Nat /\ token_size_ \in Nat /\ ibuffer \in Seq(Byte)
           /\ Len(ibuffer) \in Nat /\ idx <= Len(ibuffer)
           /\ idx + token_size_ <= Len(ibuffer)
           /\ Stream \in Seq(Byte) /\ Len(Stream) \in Nat
           /\ Len(Stream) = Len(ibuffer) - idx + Len(held)
           /\ \A k \in 1..(Len(ibuffer) - idx) : Stream[k] = ibuffer[idx + k]
           /\ Shows(Stream, 0, ibuffer, idx)
<1>1. /\ ibuffer \in Seq(Byte) /\ held \in Seq(Byte) /\ idx \in Nat /\ idx <= Len(ibuffer)
      /\ token_size_ \in Nat /\ Len(ibuffer) \in Nat /\ idx + token_size_ <= Len(ibuffer)
  BY DEF IInv, ReaderOK, TokenInsideBuffer
<1>2. /\ ibuffer \in Seq(Byte) /\ held \in Seq(Byte) /\ idx \in Nat /\ idx <= Len(ibuffer)
      /\ Joined(Stream, ibuffer, idx, held)
  BY <1>1, StreamJoined
<1>3. Stream \in Seq(Byte) /\ Len(Stream) \in Nat
  BY <1>2, StreamIndex
<1>4. Len(Stream) = Len(ibuffer) - idx + Len(held)
  BY <1>2, StreamIndex
<1>5. Shows(Stream, 0, ibuffer, idx)
  BY <1>2, StreamIndex
<1>6. \A k \in 1..(Len(ibuffer) - idx) : Stream[k] = ibuffer[idx + k]
  BY <1>1, <1>5 DEF Shows
<1> QED
  BY <1>1, <1>3, <1>4, <1>5, <1>6

(* Where next() reads, with the buffer at offset i. *)
LEMMA StatusLineRead ==
    ASSUME NEW buf \in Seq(Byte), NEW i \in Nat, NEW n \in Nat, i # Len(buf),
           i + n <= Len(buf), Ahead(n, buf, i),
           \/ ExpectVersion(buf, i, n)
           \/ ExpectVersionStaticStr(buf, i, n)
           \/ ExpectSpAfterVersion(buf, i, n)
           \/ ExpectStatusCode(buf, i, n)
           \/ ExpectSpAfterStatusCode(buf, i, n)
           \/ ExpectReasonPhrase(buf, i, n)
           \/ ExpectCrlfAfterReasonPhrase(buf, i, n)
    PROVE  Read(buf, i)
<1>1. Len(buf) \in Nat /\ i <= Len(buf)
  OBVIOUS
<1>2. {"error_invalid_data", "error_set_method"} \subseteq ErrorCode \ {INSUFFICIENT}
  BY DEF ErrorCode, INSUFFICIENT
<1>3. CASE ExpectVersionStaticStr(buf, i, n)
  <2>1. Ends(state, /\ token_size_' = Len(buf) - i /\ token_size_' < Len(StaticStr)
                    /\ \A k \in 1..token_size_' : buf[i + k] = StaticStr[k],
             "EXPECT_VERSION", "skip", token_size_' = Len(StaticStr))
    BY <1>3, LiteralTokenEnds, LiteralsAssumption
    DEF ExpectVersionStaticStr, Ahead, Scanned, LiteralState
  <2>2. CASE /\ state' = state /\ code_' = INSUFFICIENT
             /\ token_size_' = Len(buf) - i /\ token_size_' < Len(StaticStr)
             /\ \A k \in 1..token_size_' : buf[i + k] = StaticStr[k]
    <3>1. Len(StaticStr) \in Nat
      BY LiteralsAssumption
    <3>2. Waits("EXPECT_VERSION_STATIC_STR", token_size_', buf, i)
      BY <1>1, <2>2, <3>1 DEF Waits, Scanned, ScanState, LiteralState, ValueState
    <3> QED
      BY <1>3, <2>2, <3>2, WaitRead DEF ExpectVersionStaticStr, ValueState
  <2> QED
    BY <1>2, <2>1, <2>2, FailRead, PlainRead DEF Ends, ValueState
<1>4. CASE ExpectVersion(buf, i, n)
  <2>1. Ends(state, FALSE, "EXPECT_SP_AFTER_VERSION", "version",
             token_size_' = 1 /\ buf[i + 1] \in isdigit)
    BY <1>4, ByteTokenEnds DEF ExpectVersion
  <2>2. CASE /\ state' = "EXPECT_SP_AFTER_VERSION" /\ code_' = "version"
             /\ token_size_' = 1 /\ buf[i + 1] \in isdigit
    BY <2>2 DEF Read, TokenIs, INSUFFICIENT, ValueState
  <2> QED
    BY <1>2, <2>1, <2>2, FailRead DEF Ends
<1>5. CASE ExpectSpAfterVersion(buf, i, n)
  <2>1. Ends(state, FALSE, "EXPECT_STATUS_CODE", "skip",
             token_size_' = 1 /\ buf[i + 1] \in {SP})
    BY <1>5, ByteTokenEnds DEF ExpectSpAfterVersion
  <2> QED
    BY <1>2, <2>1, FailRead, PlainRead DEF Ends, ValueState
<1>6. CASE ExpectStatusCode(buf, i, n)
  <2>1. CASE Len(buf) - i < 3 /\ Suspend(state, n)
    <3>1. n = 0
      BY <1>6 DEF ExpectStatusCode, Ahead, Scanned, ScanState, LiteralState
    <3>2. Waits("EXPECT_STATUS_CODE", n, buf, i)
      BY <2>1, <3>1 DEF Waits, Scanned, ScanState, LiteralState, ValueState
    <3> QED
      BY <1>6, <2>1, <3>2, WaitRead DEF ExpectStatusCode, Suspend, Emit, ValueState
  <2>2. CASE /\ status_code_match(buf, i)
             /\ Emit("EXPECT_SP_AFTER_STATUS_CODE", "status_code", 3)
    BY <2>2 DEF status_code_match, Emit, Read, TokenIs, INSUFFICIENT, ValueState
  <2> QED
    BY <1>2, <1>6, <2>1, <2>2, FailRead DEF ExpectStatusCode, Fail, Emit
<1>7. CASE ExpectSpAfterStatusCode(buf, i, n)
  <2>1. CASE ByteToken({SP}, buf, i, n, "EXPECT_REASON_PHRASE", "skip")
    <3>1. Ends(state, FALSE, "EXPECT_REASON_PHRASE", "skip",
               token_size_' = 1 /\ buf[i + 1] \in {SP})
      BY <2>1, ByteTokenEnds
    <3> QED
      BY <1>2, <3>1, FailRead, PlainRead DEF Ends, ValueState
  <2> QED
    BY <1>2, <1>7, <2>1, FailRead DEF ExpectSpAfterStatusCode, Fail, Emit
<1>8. CASE ExpectReasonPhrase(buf, i, n)
  <2>1. Ends("EXPECT_REASON_PHRASE",
             token_size_' = n /\ RestIn(is_reason_phrase_char, buf, i),
             "EXPECT_CRLF_AFTER_REASON_PHRASE", "reason_phrase",
             MaxRun(is_reason_phrase_char, buf, i, token_size_'))
    BY <1>8, RescanTokenEnds DEF ExpectReasonPhrase
  <2>2. n = 0
    BY <1>8 DEF ExpectReasonPhrase, Ahead, Scanned, ScanState, LiteralState
  <2>3. CASE /\ state' = "EXPECT_REASON_PHRASE" /\ code_' = INSUFFICIENT
             /\ token_size_' = n /\ RestIn(is_reason_phrase_char, buf, i)
    <3>1. Waits("EXPECT_REASON_PHRASE", token_size_', buf, i)
      BY <2>2, <2>3 DEF Waits, Scanned, ScanState, LiteralState, ValueState
    <3> QED
      BY <2>3, <3>1, WaitRead DEF ValueState
  <2>4. CASE /\ state' = "EXPECT_CRLF_AFTER_REASON_PHRASE" /\ code_' = "reason_phrase"
             /\ MaxRun(is_reason_phrase_char, buf, i, token_size_')
    BY <2>4 DEF Read, TokenIs, INSUFFICIENT, ValueState
  <2> QED
    BY <1>2, <2>1, <2>3, <2>4, FailRead DEF Ends
<1>9. CASE ExpectCrlfAfterReasonPhrase(buf, i, n)
  <2>1. Ends(state, token_size_' = n /\ Len(buf) = i + 1 /\ buf[i + 1] = CR,
             "EXPECT_FIELD_NAME", "skip", token_size_' \in {1, 2})
    BY <1>1, <1>9, LiberalCrlfEnds DEF ExpectCrlfAfterReasonPhrase
  <2>2. n = 0
    BY <1>9 DEF ExpectCrlfAfterReasonPhrase, Ahead, Scanned, ScanState, LiteralState
  <2>3. CASE /\ state' = state /\ code_' = INSUFFICIENT /\ token_size_' = n
             /\ Len(buf) = i + 1 /\ buf[i + 1] = CR
    <3>1. Waits("EXPECT_CRLF_AFTER_REASON_PHRASE", token_size_', buf, i)
      BY <2>2, <2>3 DEF Waits, Scanned, ScanState, LiteralState, ValueState
    <3> QED
      BY <1>9, <2>3, <3>1, WaitRead DEF ExpectCrlfAfterReasonPhrase, ValueState
  <2> QED
    BY <1>2, <2>1, <2>3, FailRead, PlainRead DEF Ends, ValueState
<1> QED
  BY <1>3, <1>4, <1>5, <1>6, <1>7, <1>8, <1>9

(* A field name, or the empty line in its place. *)
LEMMA FieldNameRead ==
    ASSUME NEW buf \in Seq(Byte), NEW i \in Nat, NEW n \in Nat, i # Len(buf),
           i + n <= Len(buf), Ahead(n, buf, i),
           ExpectFieldName(buf, i, n) \/ ExpectCrlfAfterHeaders(buf, i, n)
    PROVE  Read(buf, i)
<1>1. Len(buf) \in Nat /\ i <= Len(buf)
  OBVIOUS
<1>2. n = 0
  BY DEF ExpectFieldName, ExpectCrlfAfterHeaders, Ahead, Scanned, ScanState, LiteralState
<1>3. {"error_invalid_data", "error_invalid_transfer_encoding",
       "error_invalid_content_length"} \subseteq ErrorCode \ {INSUFFICIENT}
  BY DEF ErrorCode, INSUFFICIENT
<1>4. ASSUME NEW size, EndOfHeaders(size) PROVE Read(buf, i)
  BY <1>3, <1>4, FailRead, PlainRead DEF EndOfHeaders, Fail, Emit, ValueState
<1>5. ASSUME CrlfAfterHeaders(buf, i, n) PROVE Read(buf, i)
  <2>1. CASE /\ liberal_crlf(buf, i) = "insufficient_data"
             /\ Suspend("EXPECT_CRLF_AFTER_HEADERS", n)
    <3>1. Len(buf) = i + 1 /\ buf[i + 1] = CR
      BY <1>1, <2>1 DEF liberal_crlf
    <3>2. Waits("EXPECT_CRLF_AFTER_HEADERS", n, buf, i)
      BY <1>2, <3>1 DEF Waits, Scanned, ScanState, LiteralState, ValueState
    <3> QED
      BY <2>1, <3>2, WaitRead DEF Suspend, Emit, ValueState
  <2> QED
    BY <1>3, <1>4, <1>5, <2>1, FailRead DEF CrlfAfterHeaders, Fail, Emit
<1>6. CASE ExpectFieldName(buf, i, n)
  <2>1. PICK e \in i..Len(buf) :
          /\ Run(is_tchar, buf, i, e)
          /\ \/ CrlfAfterHeaders(buf, i, n)
             \/ e = Len(buf) /\ Suspend(state, n)
             \/ e < Len(buf) /\ FieldName(View(buf, i, e), e - i)
    BY <1>6 DEF ExpectFieldName
  <2>2. \A k \in 1..(e - i) : buf[i + k] \in is_tchar
    BY <1>1, <2>1 DEF Run
  <2>3. CASE e = Len(buf) /\ Suspend(state, n)
    <3>1. Waits("EXPECT_FIELD_NAME", n, buf, i)
      BY <1>2, <2>2, <2>3 DEF Waits, Scanned, ScanState, LiteralState, ValueState, RestIn
    <3> QED
      BY <1>6, <2>3, <3>1, WaitRead DEF ExpectFieldName, Suspend, Emit, ValueState
  <2>4. CASE e < Len(buf) /\ FieldName(View(buf, i, e), e - i)
    <3>1. \/ Emit("EXPECT_COLON", "field_name", e - i)
          \/ \E code \in {"error_invalid_transfer_encoding",
                          "error_invalid_content_length"} : Fail(code, e - i)
      BY <2>4 DEF FieldName, TransferEncodingField, ContentLengthField, OtherField
    <3>2. MaxRun(is_tchar, buf, i, e - i)
      BY <1>1, <2>1, <2>2, <2>4 DEF MaxRun, Run
    <3>3. CASE Emit("EXPECT_COLON", "field_name", e - i)
      BY <3>2, <3>3 DEF Emit, Read, TokenIs, INSUFFICIENT, ValueState
    <3> QED
      BY <1>3, <3>1, <3>3, FailRead DEF Fail, Emit
  <2> QED
    BY <1>5, <2>1, <2>3, <2>4
<1> QED
  BY <1>5, <1>6 DEF ExpectCrlfAfterHeaders

(* The rest of the connection is the body. *)
LEMMA UnsafeBodyRead ==
    ASSUME NEW buf \in Seq(Byte), NEW i \in Nat, NEW n \in Nat, i # Len(buf),
           i + n <= Len(buf), ExpectUnsafeBody(buf, i, n)
    PROVE  Read(buf, i)
<1>1. token_size_' > 0 /\ code_' = "body_chunk" /\ state' = "EXPECT_UNSAFE_BODY"
  BY DEF ExpectUnsafeBody, Emit
<1> QED
  BY <1>1 DEF Read, TokenIs, INSUFFICIENT, ValueState

-----------------------------------------------------------------------------
(* next() on a buffer that shows, at pos, the bytes r from offset j on. *)
LEMMA NextOnReads ==
    ASSUME ReaderOK, TokenInsideBuffer, FramingConsistent,
           NEW r, NEW j \in Nat, Known(r, j), Shows(r, j, ibuffer, idx),
           NEW buf \in Seq(Byte), NEW pos \in Nat,
           pos + token_size_ <= Len(buf), Shows(r, j, buf, pos), NextOn(buf, pos)
    PROVE  /\ ibuffer' = buf
           /\ idx' \in pos..Len(buf)
           /\ \/ Read(buf, idx')
              \/ /\ idx' = pos + Consumed /\ state' = state /\ code_' = INSUFFICIENT
                 /\ Waits(state', token_size_', buf, idx')
<1> DEFINE i == pos + Consumed
           n == token_size_ - Consumed
<1>1. Len(buf) \in Nat /\ token_size_ \in Nat /\ idx \in Nat /\ ibuffer \in Seq(Byte)
  BY DEF ReaderOK
<1>2. i \in Nat /\ n \in Nat /\ i + n = pos + token_size_ /\ Consumed \in Nat
  BY <1>1 DEF Consumed
<1>3. ibuffer' = buf
  BY DEF NextOn
<1>4. CASE state = "ERRORED" /\ idx' = pos
           /\ UNCHANGED <<state, code_, token_size_, framing, connection_flags>>
  <2>1. state' = "ERRORED" /\ code_' \in ErrorCode \ {INSUFFICIENT}
    BY <1>4 DEF Known
  <2>2. Read(buf, idx')
    BY <2>1, FailRead
  <2> QED
    BY <1>1, <1>3, <1>4, <2>2
<1>5. CASE idx' = pos + token_size_ /\ (EndOfBody \/ EndOfMessage)
  <2>1. Read(buf, idx')
    BY <1>5, PlainRead DEF EndOfBody, EndOfMessage, Emit, ValueState
  <2> QED
    BY <1>1, <1>3, <1>5, <2>1
<1>6. CASE /\ state \notin {"ERRORED", "EXPECT_END_OF_BODY", "EXPECT_END_OF_MESSAGE",
                            "EXPECT_END_OF_CONNECTION_ERROR"}
           /\ idx' = i /\ i = Len(buf) /\ Exhausted(n)
  <2>1. CASE Suspend(state, n)
    <3>1. Waits(state, n, buf, Len(buf))
      BY <1>1, <1>2, <1>6, EmptyWaits
    <3> QED
      BY <1>1, <1>2, <1>3, <1>6, <2>1, <3>1 DEF Suspend, Emit
  <2>2. CASE Fail("error_use_another_connection", n)
    <3>1. Read(buf, i)
      BY <2>2, FailRead DEF Fail, Emit, ErrorCode, INSUFFICIENT
    <3> QED
      BY <1>1, <1>2, <1>3, <1>6, <3>1
  <2>3. CASE Emit("EXPECT_END_OF_MESSAGE", "end_of_body", 0)
    <3>1. Read(buf, i)
      BY <2>3, PlainRead DEF Emit, ValueState
    <3> QED
      BY <1>1, <1>2, <1>3, <1>6, <3>1
  <2> QED
    BY <1>6, <2>1, <2>2, <2>3 DEF Exhausted
<1>7. CASE idx' = i /\ i # Len(buf) /\ ReadToken(buf, i, n)
  <2>1. i + n <= Len(buf) /\ i < Len(buf)
    BY <1>1, <1>2, <1>7
  <2>4. Ahead(n, buf, i)
    BY <1>1, <2>1, BytesAhead DEF TokenInsideBuffer
  <2>5. body_size \in Uint /\ Suitable(state)
    BY DEF ReaderOK, FramingConsistent, FramingSuits, Suitable
  <2>6. "EXPECT_VERSION_STATIC_STR" \notin ValueState \cup {"ERRORED"}
    BY DEF ValueState
  <2> HIDE DEF i, n
  <2>7. Read(buf, i)
    BY <1>2, <1>7, <2>1, <2>4, <2>5, <2>6, StatusLineRead, FieldNameRead, FieldRead,
       BodyRead, UnsafeBodyRead, ChunkRead, TrailerRead
    DEF ReadToken, ResponseField, ResponseBody, ResponseChunks, ResponseTrailers
  <2>8. i \in pos..Len(buf)
    BY <1>1, <1>2, <2>1 DEF i
  <2> QED
    BY <1>3, <1>7, <2>7, <2>8
<1>8. CASE /\ state = "EXPECT_END_OF_CONNECTION_ERROR" /\ idx' = pos
           /\ Fail("error_use_another_connection", token_size_)
  <2>1. Read(buf, idx')
    BY <1>8, FailRead DEF Fail, Emit, ErrorCode, INSUFFICIENT
  <2> QED
    BY <1>1, <1>3, <1>8, <2>1
<1> QED
  BY <1>4, <1>5, <1>6, <1>7, <1>8 DEF NextOn

LEMMA NextOnRead ==
    ASSUME IInv, StreamInv, NEW buf \in Seq(Byte), NEW pos \in Nat,
           pos + token_size_ <= Len(buf), Shows(Stream, 0, buf, pos), NextOn(buf, pos)
    PROVE  /\ ibuffer' = buf
           /\ idx' \in pos..Len(buf)
           /\ \/ Read(buf, idx')
              \/ /\ idx' = pos + Consumed /\ state' = state /\ code_' = INSUFFICIENT
                 /\ Waits(state', token_size_', buf, idx')
<1>1. Known(Stream, 0) /\ Shows(Stream, 0, ibuffer, idx) /\ 0 \in Nat
  BY StreamIsBuffer DEF StreamInv, Known
<1> QED
  BY <1>1, NextOnReads DEF IInv

(* A step of next(), seen on the stream: the consumed bytes leave it. *)
LEMMA NextOnStream ==
    ASSUME IInv, StreamInv, IInv', NEW buf \in Seq(Byte), NEW pos \in Nat,
           pos + token_size_ <= Len(buf), NextOn(buf, pos),
           Joined(Stream, buf, pos, held')
    PROVE  StreamInv'
<1>1. Len(buf) \in Nat /\ token_size_ \in Nat /\ token_size_' \in Nat /\ held' \in Seq(Byte)
      /\ pos <= Len(buf)
  BY DEF IInv, ReaderOK
<1>2. /\ Stream \in Seq(Byte)
      /\ Len(Stream) = Len(buf) - pos + Len(held')
      /\ Shows(Stream, 0, buf, pos)
  BY <1>1, StreamIndex
<1>3. /\ ibuffer' = buf
      /\ idx' \in pos..Len(buf)
      /\ \/ Read(buf, idx')
         \/ /\ idx' = pos + Consumed /\ state' = state /\ code_' = INSUFFICIENT
            /\ Waits(state', token_size_', buf, idx')
  BY <1>1, <1>2, NextOnRead
<1>4. idx' \in Nat /\ pos <= idx' /\ idx' <= Len(buf) /\ idx' - pos \in Nat
  <2>1. ASSUME NEW j \in pos..Len(buf)
        PROVE  j \in Nat /\ pos <= j /\ j <= Len(buf) /\ j - pos \in Nat
    BY <1>1
  <2> QED
    BY <1>3, <2>1
<1>5. Joined(Stream', buf, idx', held')
  BY <1>3 DEF Joined, Stream, Unread
<1>6. /\ Stream' \in Seq(Byte)
      /\ Shows(Stream', 0, buf, idx')
  BY <1>1, <1>4, <1>5, StreamIndex
<1>7. Shows(Stream', 0, Stream, idx' - pos)
  BY <1>1, <1>4, <1>5, StreamSuffix
<1>8. idx' + token_size_' <= Len(buf)
  BY <1>3 DEF IInv, TokenInsideBuffer
<1>9. Consumed' \in Nat /\ Consumed \in Nat
  BY <1>1 DEF Consumed
<1>10. CASE Read(buf, idx')
  <2>1. TokenIs(code_', token_size_', Stream', 0)
    BY <1>1, <1>4, <1>6, <1>8, <1>10, TokenIsShown DEF Read
  <2>2. state' \in ValueState => InkAt(Stream', 0 + Consumed')
    BY <1>4, <1>6, <1>9, <1>10, InkIsShown DEF Read
  <2> QED
    BY <1>3, <1>10, <2>1, <2>2 DEF Read, StreamInv
<1>11. CASE /\ idx' = pos + Consumed /\ state' = state /\ code_' = INSUFFICIENT
            /\ Waits(state', token_size_', buf, idx')
  <2>1. TokenIs(code_', token_size_', Stream', 0)
    BY <1>11 DEF TokenIs, INSUFFICIENT
  <2>2. ASSUME state' \in ValueState PROVE InkAt(Stream', 0 + Consumed')
    <3>1. InkAt(Stream, 0 + Consumed)
      BY <1>11, <2>2 DEF StreamInv
    <3>2. 0 + Consumed = (idx' - pos) + 0 /\ 0 + Consumed' = 0 + 0
      BY <1>4, <1>9, <1>11 DEF Consumed
    <3>3. InkAt(Stream, (idx' - pos) + 0)
      BY <3>1, <3>2
    <3>4. 0 \in Nat /\ Stream \in Seq(Byte) /\ idx' - pos \in Nat /\ Stream' \in Seq(Byte)
      BY <1>2, <1>4, <1>6
    <3>5. InkAt(Stream', 0 + 0)
      BY <1>7, <3>3, <3>4, InkIsShown, Zenon
    <3> QED
      BY <3>2, <3>5
  <2>3. state' # "ERRORED"
    BY <1>11 DEF Waits
  <2> QED
    BY <1>3, <1>11, <2>1, <2>2, <2>3 DEF StreamInv
<1> QED
  BY <1>3, <1>10, <1>11

(* The caller's own steps: bytes are added behind the stream, or the stream *)
(* is cut elsewhere.                                                       *)
LEMMA LongerStream ==
    ASSUME IInv, StreamInv, Stream \in Seq(Byte), Stream' \in Seq(Byte),
           token_size_ <= Len(Stream), Shows(Stream', 0, Stream, 0),
           UNCHANGED <<state, code_, token_size_>>,
           code_ = INSUFFICIENT => UNCHANGED <<ibuffer, idx>>
    PROVE  StreamInv'
<1>1. token_size_ \in Nat /\ Len(Stream) \in Nat /\ Consumed \in Nat /\ Consumed' = Consumed
  BY DEF IInv, ReaderOK, Consumed
<1>2. TokenIs(code_', token_size_', Stream', 0)
  BY <1>1, TokenIsShown DEF StreamInv
<1>3. state' \in ValueState => InkAt(Stream', 0 + Consumed')
  BY <1>1, InkIsShown DEF StreamInv
<1> QED
  BY <1>2, <1>3 DEF StreamInv

LEMMA InitStreamInv == Init => StreamInv
<1> SUFFICES ASSUME Init PROVE StreamInv
  OBVIOUS
<1>1. Waits("EXPECT_VERSION_STATIC_STR", 0, <<>>, 0)
  BY StartWaits
<1> QED
  BY <1>1 DEF Init, ReaderInit, StreamInv, TokenIs, ValueState, INSUFFICIENT

LEMMA NextStreamInv == IInv /\ StreamInv /\ IInv' /\ [Next]_vars => StreamInv'
<1> SUFFICES ASSUME IInv, StreamInv, IInv', [Next]_vars PROVE StreamInv'
  OBVIOUS
<1>1. /\ ibuffer \in Seq(Byte) /\ held \in Seq(Byte) /\ idx \in Nat /\ idx <= Len(ibuffer)
      /\ token_size_ \in Nat /\ Len(ibuffer) \in Nat /\ idx + token_size_ <= Len(ibuffer)
  BY DEF IInv, ReaderOK, TokenInsideBuffer
<1>2. Stream \in Seq(Byte) /\ Len(Stream) = Len(ibuffer) - idx + Len(held)
      /\ Len(Stream) \in Nat /\ token_size_ <= Len(Stream)
  BY <1>1, StreamIsBuffer
<1>3. CASE Receive
  <2>1. PICK byte \in Byte : held' = Append(held, byte)
    BY <1>3, CallerAssumption DEF Receive
  <2>2. UNCHANGED <<state, code_, token_size_, ibuffer, idx>>
    BY <1>3 DEF Receive, reader
  <2>3. Stream' \in Seq(Byte) /\ Shows(Stream', 0, Stream, 0)
    <3>1. Joined(Stream', ibuffer, idx, Append(held, byte))
      BY <2>1, <2>2 DEF Joined, Stream, Unread
    <3> QED
      BY <1>1, <3>1, StreamGrows, StreamJoined
  <2> QED
    BY <1>2, <2>2, <2>3, LongerStream
<1>4. CASE Feed
  <2>1. PICK k \in token_size_..Len(Stream) :
          /\ set_buffer(SubSeq(Stream, 1, k))
          /\ held' = SubSeq(Stream, k + 1, Len(Stream))
    BY <1>4 DEF Feed, Stream
  <2> DEFINE buf == SubSeq(Stream, 1, k)
  <2>2. k \in 0..Len(Stream)
    BY <1>1, <1>2
  <2>3. /\ buf \in Seq(Byte) /\ Len(buf) = k
        /\ Joined(Stream, buf, 0, held')
    BY <1>2, <2>1, <2>2, StreamCut
  <2> HIDE DEF buf
  <2>4. CASE NextOn(buf, 0)
    <3>1. 0 + token_size_ <= Len(buf)
      BY <1>1, <2>3
    <3> QED
      BY <2>3, <2>4, <3>1, NextOnStream
  <2>5. CASE /\ code_ # INSUFFICIENT /\ ibuffer' = buf /\ idx' = 0
             /\ UNCHANGED <<state, code_, token_size_, framing, connection_flags>>
    <3>1. Stream' = Stream
      BY <2>3, <2>5 DEF Joined, Stream, Unread
    <3>2. Shows(Stream', 0, Stream, 0)
      BY <1>2, <3>1 DEF Shows
    <3> QED
      BY <1>2, <2>5, <3>1, <3>2, LongerStream
  <2> QED
    BY <2>1, <2>4, <2>5 DEF set_buffer, buf
<1>5. CASE Advance
  <2>1. NextOn(ibuffer, idx) /\ held' = held
    BY <1>5 DEF Advance, next
  <2>2. Joined(Stream, ibuffer, idx, held')
    BY <2>1 DEF Joined, Stream, Unread
  <2> QED
    BY <1>1, <2>1, <2>2, NextOnStream
<1>6. CASE Restart
  <2>1. Waits("EXPECT_VERSION_STATIC_STR", 0, <<>>, 0)
    BY StartWaits
  <2> QED
    BY <1>6, <2>1 DEF Restart, reset, StreamInv, TokenIs, ValueState, INSUFFICIENT
<1>7. CASE SetMethod \/ PutEof \/ UNCHANGED vars
  <2>1. UNCHANGED <<state, code_, token_size_, ibuffer, idx, held>>
    BY <1>7 DEF SetMethod, set_method, PutEof, puteof, vars, reader
  <2> QED
    BY <2>1 DEF StreamInv, Stream, Unread, Consumed
<1> QED
  BY <1>3, <1>4, <1>5, <1>6, <1>7 DEF Next

LEMMA StreamInvHolds == Spec => [](IInv /\ StreamInv)
<1>1. Init => IInv /\ StreamInv
  BY InitIInv, InitStreamInv
<1>2. IInv /\ StreamInv /\ [Next]_vars => IInv' /\ StreamInv'
  BY NextIInv, NextStreamInv
<1> QED
  BY <1>1, <1>2, PTL DEF Spec

-----------------------------------------------------------------------------
(* Tokens of the stream, in the buffer. *)
LEMMA RunInBuffer ==
    ASSUME IInv, NEW S, \A k \in 1..token_size_ : Stream[0 + k] \in S
    PROVE  /\ \A k \in (idx + 1)..(idx + token_size_) : ibuffer[k] \in S
           /\ MaxRun(S, Stream, 0, token_size_) /\ idx + token_size_ < Len(ibuffer) =>
                 ibuffer[idx + token_size_ + 1] \notin S
<1>1. /\ idx \in Nat /\ token_size_ \in Nat
      /\ Len(ibuffer) \in Nat /\ idx + token_size_ <= Len(ibuffer)
      /\ \A k \in 1..(Len(ibuffer) - idx) : Stream[k] = ibuffer[idx + k]
  BY StreamIsBuffer
<1>2. ASSUME NEW k \in (idx + 1)..(idx + token_size_) PROVE ibuffer[k] \in S
  <2>1. k - idx \in 1..token_size_ /\ k - idx \in 1..(Len(ibuffer) - idx)
        /\ 0 + (k - idx) = k - idx /\ idx + (k - idx) = k
    BY <1>1
  <2> QED
    BY <1>1, <2>1
<1>3. ASSUME MaxRun(S, Stream, 0, token_size_), idx + token_size_ < Len(ibuffer)
      PROVE  ibuffer[idx + token_size_ + 1] \notin S
  <2>1. token_size_ + 1 \in 1..(Len(ibuffer) - idx) /\ 0 + token_size_ + 1 = token_size_ + 1
        /\ idx + (token_size_ + 1) = idx + token_size_ + 1
    BY <1>1, <1>3
  <2> QED
    BY <1>1, <1>3, <2>1 DEF MaxRun
<1> QED
  BY <1>2, <1>3

LEMMA StreamImpliesRun == IInv /\ StreamInv => TokenIsMaximalRun
<1> SUFFICES ASSUME IInv, StreamInv PROVE TokenIsMaximalRun
  OBVIOUS
<1> DEFINE end == idx + token_size_
<1>1. /\ idx \in Nat /\ token_size_ \in Nat /\ ibuffer \in Seq(Byte)
      /\ Len(ibuffer) \in Nat /\ idx + token_size_ <= Len(ibuffer)
  BY StreamIsBuffer
<1>2. DOMAIN TokenClass = {"version", "status_code", "reason_phrase", "field_name",
                           "field_value", "chunk_ext", "trailer_name", "trailer_value"}
  BY DEF TokenClass
<1>3. /\ TokenClass["version"] = isdigit
      /\ TokenClass["status_code"] = isdigit
      /\ TokenClass["reason_phrase"] = is_reason_phrase_char
      /\ TokenClass["field_name"] = is_tchar
      /\ TokenClass["field_value"] = is_field_value_char
      /\ TokenClass["chunk_ext"] = is_chunk_ext_char
      /\ TokenClass["trailer_name"] = is_tchar
      /\ TokenClass["trailer_value"] = is_field_value_char
  BY DEF TokenClass
<1>4. ASSUME code_ \in DOMAIN TokenClass
      PROVE  /\ \A k \in 1..token_size_ : Stream[0 + k] \in TokenClass[code_]
             /\ code_ \notin {"version", "status_code"} =>
                   MaxRun(TokenClass[code_], Stream, 0, token_size_)
  <2>1. TokenIs(code_, token_size_, Stream, 0)
    BY DEF StreamInv
  <2>2. CASE code_ \in {"version", "status_code"}
    BY <1>3, <2>1, <2>2 DEF TokenIs
  <2>3. CASE code_ \notin {"version", "status_code"}
    <3>1. MaxRun(TokenClass[code_], Stream, 0, token_size_)
      BY <1>2, <1>3, <1>4, <2>1, <2>3 DEF TokenIs
    <3> QED
      BY <3>1 DEF MaxRun
  <2> QED
    BY <2>2, <2>3
<1>5. code_ \in DOMAIN TokenClass =>
          \A k \in (idx + 1)..end : ibuffer[k] \in TokenClass[code_]
  BY <1>4, RunInBuffer
<1>6. code_ \in DOMAIN TokenClass \ {"version", "status_code"} /\ end < Len(ibuffer) =>
          ibuffer[end + 1] \notin TokenClass[code_]
  BY <1>4, RunInBuffer
<1>7. ASSUME code_ = INSUFFICIENT, token_size_ > 0
      PROVE  \/ /\ expected_token = "chunk_ext"
                /\ \A k \in (idx + 1)..end : ibuffer[k] \in TokenClass["chunk_ext"]
             \/ /\ state = "EXPECT_VERSION_STATIC_STR"
                /\ TokenBytes = SubSeq(StaticStr, 1, token_size_)
  <2>1. Scanned(state, token_size_, ibuffer, idx)
    BY <1>7 DEF StreamInv, Waits
  <2>2. state \in ScanState \cup LiteralState /\ state \in State
    BY <1>7, <2>1 DEF Scanned, IInv, ReaderOK
  <2>3. ASSUME NEW S, \A k \in 1..token_size_ : ibuffer[idx + k] \in S
        PROVE  \A k \in (idx + 1)..end : ibuffer[k] \in S
    <3> SUFFICES ASSUME NEW k \in (idx + 1)..end PROVE ibuffer[k] \in S
      OBVIOUS
    <3>1. k - idx \in 1..token_size_ /\ idx + (k - idx) = k
      BY <1>1
    <3> QED
      BY <2>3, <3>1
  <2>4. state \notin {"EXPECT_METHOD", "EXPECT_REQUEST_TARGET"}
    BY <2>2 DEF State, BeforeStatusCode, AfterStatusCode, MessageState, InHeaders, InField,
                InChunks, InTrailers
  <2>6. CASE state = "EXPECT_CHUNK_EXT"
    <3>1. expected_token = "chunk_ext"
      BY <2>6 DEF expected_token
    <3> QED
      BY <1>3, <2>1, <2>3, <2>6, <3>1 DEF Scanned
  <2>7. CASE state \in LiteralState
    <3>1. state = "EXPECT_VERSION_STATIC_STR"
      BY <2>2, <2>7 DEF LiteralState, State, BeforeStatusCode, AfterStatusCode,
                        MessageState, InHeaders, InField, InChunks, InTrailers
    <3>2. /\ token_size_ <= Len(StaticStr)
          /\ \A k \in 1..token_size_ : ibuffer[idx + k] = StaticStr[k]
      BY <2>1, <2>7 DEF Scanned
    <3>3. StaticStr \in Seq(Byte) /\ Len(StaticStr) \in Nat
      BY LiteralsAssumption
    <3> DEFINE a == SubSeq(ibuffer, idx + 1, idx + token_size_)
               b == SubSeq(StaticStr, 1, token_size_)
    <3>4. /\ a \in Seq(Byte) /\ Len(a) = token_size_
          /\ \A k \in 1..token_size_ : a[k] = ibuffer[idx + k]
      BY <1>1
    <3>5. /\ b \in Seq(Byte) /\ Len(b) = token_size_
          /\ \A k \in 1..token_size_ : b[k] = StaticStr[k]
      BY <1>1, <3>2, <3>3
    <3> HIDE DEF a, b
    <3>6. Len(a) = Len(b) /\ \A k \in 1..Len(b) : a[k] = b[k]
      BY <3>2, <3>4, <3>5
    <3>7. a = b
      BY <3>4, <3>5, <3>6
    <3> QED
      BY <3>1, <3>7 DEF a, b, TokenBytes, View
  <2> QED
    BY <2>2, <2>4, <2>6, <2>7 DEF ScanState
<1> QED
  BY <1>5, <1>6, <1>7 DEF TokenIsMaximalRun

(* A data token is exactly the bytes of its class: next() never cuts one    *)
(* short or runs over its end, however the stream came in.                 *)
THEOREM TokensAreMaximalRuns == Spec => []TokenIsMaximalRun
BY StreamInvHolds, StreamImpliesRun, PTL

(* No field value and no trailer value starts with OWS, wherever the       *)
(* buffer was cut between the colon and the value.                         *)
THEOREM ValuesAreLeftTrimmed == Spec => []ValueIsLeftTrimmed
<1>1. IInv /\ StreamInv => ValueIsLeftTrimmed
  <2> SUFFICES ASSUME IInv, StreamInv, code_ \in {"field_value", "trailer_value"},
                      token_size_ > 0
               PROVE  ibuffer[idx + 1] \notin is_ows
    BY DEF ValueIsLeftTrimmed
  <2>1. Stream[0 + 1] \notin is_ows
    BY DEF StreamInv, TokenIs
  <2>2. Stream[1] = ibuffer[idx + 1]
    BY StreamIsBuffer
  <2> QED
    BY <2>1, <2>2
<1> QED
  BY <1>1, StreamInvHolds, PTL

(* The reader never waits for body bytes while it has some, and never      *)
(* gives an empty chunk.                                                   *)
THEOREM BodyIsNeverStarved == Spec => []BodyNeverStarves
<1>1. IInv /\ StreamInv => BodyNeverStarves
  <2> SUFFICES ASSUME IInv, StreamInv PROVE BodyNeverStarves
    OBVIOUS
  <2>1. ASSUME code_ = INSUFFICIENT, expected_token = "body_chunk"
        PROVE  idx = Len(ibuffer)
    <3>1. state \in {"EXPECT_BODY", "EXPECT_UNSAFE_BODY", "EXPECT_CHUNK_DATA"}
      BY <2>1 DEF expected_token, INSUFFICIENT
    <3> QED
      BY <2>1, <3>1 DEF StreamInv, Waits
  <2>2. code_ = "body_chunk" => token_size_ > 0
    BY DEF StreamInv, TokenIs
  <2> QED
    BY <2>1, <2>2 DEF BodyNeverStarves
<1> QED
  BY <1>1, StreamInvHolds, PTL

-----------------------------------------------------------------------------
(* The bytes a case waited with do not make it go on. *)
LEMMA ReadTokenStays ==
    ASSUME NEW buf \in Seq(Byte), NEW i \in Nat, NEW n \in Nat, i # Len(buf),
           i + n <= Len(buf), Waits(state, n, buf, i), ReadToken(buf, i, n)
    PROVE  Stays(n)
<1>1. Len(buf) \in Nat /\ i < Len(buf)
  OBVIOUS
<1>2. /\ ~ExpectVersion(buf, i, n) /\ ~ExpectSpAfterVersion(buf, i, n)
      /\ ~ExpectSpAfterStatusCode(buf, i, n) /\ ~ExpectUnsafeBody(buf, i, n)
  BY DEF ExpectVersion, ExpectSpAfterVersion, ExpectSpAfterStatusCode, ExpectUnsafeBody, Waits
<1>3. ASSUME CrlfAfterHeaders(buf, i, n), Len(buf) = i + 1, buf[i + 1] = CR,
             state = "EXPECT_CRLF_AFTER_HEADERS"
      PROVE  Stays(n)
  <2>1. liberal_crlf(buf, i) = "insufficient_data"
    BY <1>3, LiberalCrlfWaits
  <2> QED
    BY <1>3, <2>1 DEF CrlfAfterHeaders, Suspend, Emit, Stays, framing
<1>4. CASE ExpectCrlfAfterHeaders(buf, i, n)
  BY <1>1, <1>3, <1>4 DEF ExpectCrlfAfterHeaders, Waits
<1>5. CASE ExpectFieldName(buf, i, n)
  <2>1. RestIn(is_tchar, buf, i)
    BY <1>5 DEF ExpectFieldName, Waits
  <2>2. PICK e \in i..Len(buf) :
          /\ Run(is_tchar, buf, i, e)
          /\ \/ e = i \/ e < Len(buf)
             \/ Suspend(state, n) /\ UNCHANGED framing
    BY <1>5 DEF ExpectFieldName
  <2>3. e = Len(buf)
    BY <2>1, <2>2, RunsToEnd
  <2> QED
    BY <1>1, <2>2, <2>3 DEF Suspend, Emit, Stays
<1>6. CASE ExpectVersionStaticStr(buf, i, n)
  <2>1. n = Len(buf) - i /\ n < Len(StaticStr) /\ Len(StaticStr) \in Nat
    BY <1>6, LiteralsAssumption DEF ExpectVersionStaticStr, Waits, LiteralState
  <2>2. (n + 1)..n = {}
    OBVIOUS
  <2>3. state' = state /\ code_' = INSUFFICIENT /\ token_size_' = n
    BY <1>1, <1>6, <2>1, <2>2 DEF ExpectVersionStaticStr, LiteralToken, Suspend, Emit
  <2> QED
    BY <1>6, <2>3 DEF ExpectVersionStaticStr, Stays
<1>7. CASE ExpectStatusCode(buf, i, n)
  <2>1. Len(buf) - i < 3
    BY <1>7 DEF ExpectStatusCode, Waits
  <2> QED
    BY <1>1, <1>7, <2>1 DEF ExpectStatusCode, Suspend, Emit, Stays
<1>8. CASE ExpectReasonPhrase(buf, i, n)
  <2>1. RestIn(is_reason_phrase_char, buf, i)
    BY <1>8 DEF ExpectReasonPhrase, Waits
  <2> QED
    BY <1>8, <2>1, RescanStays DEF ExpectReasonPhrase, Stays
<1>9. CASE ExpectCrlfAfterReasonPhrase(buf, i, n)
  <2>1. Len(buf) = i + 1 /\ buf[i + 1] = CR
    BY <1>1, <1>9 DEF ExpectCrlfAfterReasonPhrase, Waits
  <2> QED
    BY <1>9, <2>1, LiberalCrlfStays DEF ExpectCrlfAfterReasonPhrase, Stays
<1> QED
  BY <1>2, <1>4, <1>5, <1>6, <1>7, <1>8, <1>9, SharedStays
  DEF ReadToken, ResponseField, ResponseBody, ResponseChunks, ResponseTrailers

LEMMA NextOnStays ==
    ASSUME IInv, StreamInv, code_ = INSUFFICIENT, ~Closed,
           NEW buf \in Seq(Byte), NEW pos \in Nat,
           pos <= Len(buf), Len(buf) - pos = Len(ibuffer) - idx,
           \A k \in 1..(Len(ibuffer) - idx) : buf[pos + k] = ibuffer[idx + k],
           NextOn(buf, pos)
    PROVE  /\ ibuffer' = buf /\ idx' = pos
           /\ UNCHANGED <<state, code_, token_size_, framing>>
<1>1. /\ Len(buf) \in Nat /\ token_size_ \in Nat /\ idx \in Nat /\ ibuffer \in Seq(Byte)
      /\ Len(ibuffer) \in Nat /\ idx + token_size_ <= Len(ibuffer) /\ idx <= Len(ibuffer)
  BY DEF IInv, ReaderOK, TokenInsideBuffer
<1>2. pos + Consumed = pos /\ token_size_ - Consumed = token_size_
  BY <1>1 DEF Consumed
<1>3. Waits(state, token_size_, buf, pos)
  BY <1>1, WaitsIsShown DEF StreamInv
<1>4. pos + token_size_ <= Len(buf)
  BY <1>1
<1>5. /\ ibuffer' = buf
      /\ idx' = pos
      /\ \/ Suspend(state, token_size_) /\ UNCHANGED framing
         \/ pos # Len(buf) /\ ReadToken(buf, pos, token_size_)
  BY <1>2, <1>3 DEF NextOn, Waits, EndOfBody, EndOfMessage, Exhausted, Closed
<1>6. ASSUME pos # Len(buf), ReadToken(buf, pos, token_size_)
      PROVE  Stays(token_size_)
  BY <1>1, <1>3, <1>4, <1>6, ReadTokenStays
<1> QED
  BY <1>5, <1>6 DEF Suspend, Emit, Stays

(* A call that shows no new bytes leaves the reader as it was, as long as  *)
(* the connection has not ended: a suspended scan is resumed where it       *)
(* stopped.                                                                *)
THEOREM RetriesAreNoops == Spec => RetryIsNoop
<1> DEFINE Noop == code_ = INSUFFICIENT /\ ~Closed /\ held' = held /\ ibuffer' # <<>> =>
                      /\ Unread' = Unread
                      /\ UNCHANGED <<state, code_, token_size_, framing>>
<1>1. IInv /\ StreamInv /\ [Next]_vars => [Noop]_vars
  <2> SUFFICES ASSUME IInv, StreamInv, Next, code_ = INSUFFICIENT, ~Closed, held' = held,
                      ibuffer' # <<>>
               PROVE  /\ Unread' = Unread
                      /\ UNCHANGED <<state, code_, token_size_, framing>>
    OBVIOUS
  <2>1. /\ ibuffer \in Seq(Byte) /\ held \in Seq(Byte) /\ idx \in Nat /\ idx <= Len(ibuffer)
        /\ token_size_ \in Nat /\ Len(ibuffer) \in Nat
    BY DEF IInv, ReaderOK, TokenInsideBuffer
  <2>2. CASE Receive
    BY <2>2 DEF Receive, reader, Unread
  <2>3. CASE Feed
    <3>1. PICK k \in token_size_..Len(Stream) :
            /\ set_buffer(SubSeq(Stream, 1, k))
            /\ held' = SubSeq(Stream, k + 1, Len(Stream))
      BY <2>3 DEF Feed, Stream
    <3>2. k \in 0..Len(Stream)
      BY <2>1, StreamIsBuffer
    <3>3. SubSeq(Stream, 1, k) = Unread
      <4>1. SubSeq(Stream, k + 1, Len(Stream)) = held
        BY <3>1
      <4>2. SubSeq(Stream, 1, k) = SubSeq(ibuffer, idx + 1, Len(ibuffer))
        BY <2>1, <3>2, <4>1, StreamSame, StreamJoined
      <4> QED
        BY <4>2 DEF Unread
    <3>4. /\ Unread \in Seq(Byte) /\ Len(Unread) = Len(ibuffer) - idx
          /\ \A j \in 1..(Len(ibuffer) - idx) : Unread[0 + j] = ibuffer[idx + j]
      BY <2>1 DEF Unread
    <3>5. NextOn(Unread, 0)
      BY <3>1, <3>3 DEF set_buffer
    <3>6. 0 <= Len(Unread) /\ Len(Unread) - 0 = Len(ibuffer) - idx
      BY <2>1, <3>4
    <3>7. /\ ibuffer' = Unread /\ idx' = 0
          /\ UNCHANGED <<state, code_, token_size_, framing>>
      BY <3>4, <3>5, <3>6, NextOnStays
    <3>8. Unread' = SubSeq(Unread, 0 + 1, Len(Unread))
      BY <3>7 DEF Unread
    <3> QED
      BY <3>4, <3>7, <3>8, WholeSeq
  <2>4. CASE Advance
    <3>1. NextOn(ibuffer, idx)
      BY <2>4 DEF Advance, next
    <3>2. /\ ibuffer' = ibuffer /\ idx' = idx
          /\ UNCHANGED <<state, code_, token_size_, framing>>
      BY <2>1, <3>1, NextOnStays
    <3> QED
      BY <3>2 DEF Unread
  <2>5. ~Restart /\ ~SetMethod
    BY DEF Restart, reset, SetMethod, set_method, INSUFFICIENT
  <2>6. CASE PutEof
    BY <2>6 DEF PutEof, puteof, Unread
  <2> QED
    BY <2>2, <2>3, <2>4, <2>5, <2>6 DEF Next
<1>2. Spec => [][Noop]_vars
  BY <1>1, StreamInvHolds, PTL DEF Spec
<1> QED
  BY <1>2, PTL DEF RetryIsNoop

-----------------------------------------------------------------------------
(* The states in which expected_token() names a data token, and the token. *)
LEMMA ExpectedState ==
    ASSUME code_ = INSUFFICIENT, category(expected_token) = "data"
    PROVE  \/ state = "EXPECT_STATUS_CODE" /\ expected_token = "status_code"
           \/ state = "EXPECT_REASON_PHRASE" /\ expected_token = "reason_phrase"
           \/ state = "EXPECT_FIELD_NAME" /\ expected_token = "field_name"
           \/ state = "EXPECT_FIELD_VALUE" /\ expected_token = "field_value"
           \/ state = "EXPECT_CHUNK_EXT" /\ expected_token = "chunk_ext"
           \/ state = "EXPECT_TRAILER_NAME" /\ expected_token = "trailer_name"
           \/ state = "EXPECT_TRAILER_VALUE" /\ expected_token = "trailer_value"
           \/ state \in {"EXPECT_VERSION", "EXPECT_BODY", "EXPECT_UNSAFE_BODY",
                         "EXPECT_CHUNK_DATA"}
<1>1. category(INSUFFICIENT) # "data" /\ category("skip") # "data"
  BY DEF category, INSUFFICIENT, ErrorCode, DataCode, StructuralCode
<1>2. /\ category("end_of_body") # "data" /\ category("end_of_message") # "data"
      /\ category("error_use_another_connection") # "data"
  BY DEF category, ErrorCode, DataCode, StructuralCode
<1> QED
  BY <1>1, <1>2 DEF expected_token

LEMMA NextOnComes ==
    ASSUME IInv, StreamInv, code_ = INSUFFICIENT, idx < Len(ibuffer),
           category(expected_token) = "data",
           NEW buf \in Seq(Byte), NEW pos \in Nat,
           pos + token_size_ <= Len(buf), Shows(Stream, 0, buf, pos), NextOn(buf, pos),
           code_' \notin ErrorCode
    PROVE  code_' = expected_token
<1>1. /\ Len(buf) \in Nat /\ token_size_ \in Nat /\ idx \in Nat /\ ibuffer \in Seq(Byte)
      /\ Len(ibuffer) \in Nat /\ idx + token_size_ <= Len(ibuffer)
      /\ \A k \in 1..(Len(ibuffer) - idx) : Stream[k] = ibuffer[idx + k]
  BY StreamIsBuffer
<1>2. pos + Consumed = pos /\ token_size_ - Consumed = token_size_
  BY <1>1 DEF Consumed
<1>3. Waits(state, token_size_, ibuffer, idx)
  BY DEF StreamInv
<1>4. {INSUFFICIENT, "error_invalid_data", "error_use_another_connection",
       "error_invalid_content_length", "error_invalid_transfer_encoding"} \subseteq ErrorCode
  BY DEF ErrorCode, INSUFFICIENT
<1>5. pos < Len(buf) /\ ReadToken(buf, pos, token_size_)
  <2>1. \/ Suspend(state, token_size_)
        \/ Fail("error_use_another_connection", token_size_)
        \/ pos # Len(buf) /\ ReadToken(buf, pos, token_size_)
        \/ state = "EXPECT_UNSAFE_BODY"
    BY <1>2, <1>3 DEF NextOn, Waits, EndOfBody, EndOfMessage, Exhausted
  <2>2. state # "EXPECT_UNSAFE_BODY"
    BY <1>1, <1>3 DEF Waits
  <2> QED
    BY <1>1, <1>4, <2>1, <2>2 DEF Suspend, Fail, Emit
<1>6. state \notin {"EXPECT_VERSION", "EXPECT_BODY", "EXPECT_UNSAFE_BODY",
                   "EXPECT_CHUNK_DATA"}
  BY <1>1, <1>3 DEF Waits
<1>7. state = "EXPECT_CHUNK_EXT" => token_size_ > 0
  BY <1>1, <1>3 DEF Waits, ScanState
<1>8. state \in {"EXPECT_FIELD_NAME", "EXPECT_TRAILER_NAME"} => buf[pos + 1] \in is_tchar
  <2> SUFFICES ASSUME state \in {"EXPECT_FIELD_NAME", "EXPECT_TRAILER_NAME"}
               PROVE  buf[pos + 1] \in is_tchar
    OBVIOUS
  <2>1. RestIn(is_tchar, ibuffer, idx)
    BY <1>3 DEF Waits
  <2>2. 1 \in 1..(Len(ibuffer) - idx) /\ 1 \in 1..(Len(buf) - pos)
    BY <1>1, <1>5
  <2>3. ibuffer[idx + 1] \in is_tchar
    BY <2>1, <2>2 DEF RestIn
  <2>4. Stream[0 + 1] = buf[pos + 1]
    BY <2>2 DEF Shows
  <2> QED
    BY <1>1, <2>2, <2>3, <2>4
<1>9. CASE ExpectVersion(buf, pos, token_size_)
  BY <1>6, <1>9 DEF ExpectVersion
<1>10. CASE ExpectFieldName(buf, pos, token_size_)
  <2>1. state = "EXPECT_FIELD_NAME" /\ expected_token = "field_name"
    BY <1>10 DEF ExpectFieldName, expected_token
  <2>2. PICK e \in pos..Len(buf) :
          /\ Run(is_tchar, buf, pos, e)
          /\ \/ e = pos
             \/ Suspend(state, token_size_)
             \/ e > pos /\ FieldName(View(buf, pos, e), e - pos)
    BY <1>10 DEF ExpectFieldName
  <2>3. e # pos
    BY <1>1, <1>5, <1>8, <2>1, <2>2 DEF Run
  <2>4. CASE FieldName(View(buf, pos, e), e - pos)
    <3>1. code_' \in {"field_name", "error_invalid_content_length",
                      "error_invalid_transfer_encoding"}
      BY <2>4 DEF FieldName, TransferEncodingField, ContentLengthField,
                  OtherField, Emit, Fail
    <3> QED
      BY <1>4, <2>1, <3>1
  <2> QED
    BY <1>4, <2>2, <2>3, <2>4 DEF Suspend, Emit
<1>11. CASE ExpectCrlfAfterHeaders(buf, pos, token_size_)
  <2>1. expected_token = "skip"
    BY <1>11 DEF ExpectCrlfAfterHeaders, expected_token
  <2> QED
    BY <1>11, ExpectedState DEF ExpectCrlfAfterHeaders
<1>12. CASE ExpectStatusCode(buf, pos, token_size_)
  <2>1. expected_token = "status_code"
    BY <1>12 DEF ExpectStatusCode, expected_token
  <2> QED
    BY <1>4, <1>12, <2>1 DEF ExpectStatusCode, Suspend, Emit, Fail
<1>13. CASE ExpectReasonPhrase(buf, pos, token_size_)
  <2>1. expected_token = "reason_phrase"
    BY <1>13 DEF ExpectReasonPhrase, expected_token
  <2> QED
    BY <1>4, <1>13, <2>1 DEF ExpectReasonPhrase, RescanToken, Suspend, Emit
<1>14. CASE ExpectUnsafeBody(buf, pos, token_size_)
  BY <1>6, <1>14 DEF ExpectUnsafeBody
<1>15. CASE \/ ExpectVersionStaticStr(buf, pos, token_size_)
            \/ ExpectSpAfterVersion(buf, pos, token_size_)
            \/ ExpectSpAfterStatusCode(buf, pos, token_size_)
            \/ ExpectCrlfAfterReasonPhrase(buf, pos, token_size_)
  BY <1>15, ExpectedState
  DEF ExpectVersionStaticStr, ExpectSpAfterVersion, ExpectSpAfterStatusCode,
      ExpectCrlfAfterReasonPhrase
<1>16. CASE \/ FieldCase(buf, pos, token_size_) \/ ExpectBody(buf, pos, token_size_)
            \/ ChunkCase(buf, pos, token_size_)
            \/ TrailerCase(buf, pos, token_size_, "EXPECT_VERSION_STATIC_STR",
                           "UNKNOWN_BODY")
  <2>1. /\ state = "EXPECT_FIELD_VALUE" => code_' = "field_value"
        /\ state = "EXPECT_CHUNK_EXT" => code_' = "chunk_ext"
        /\ state = "EXPECT_TRAILER_NAME" => code_' = "trailer_name"
        /\ state = "EXPECT_TRAILER_VALUE" => code_' = "trailer_value"
    <3>1. pos # Len(buf) /\ (state = "EXPECT_TRAILER_NAME" => buf[pos + 1] \in is_tchar)
      BY <1>1, <1>5, <1>8
    <3> QED
      BY <1>1, <1>7, <1>16, <3>1, SharedComes, Zenon
  <2>2. state \notin {"EXPECT_STATUS_CODE", "EXPECT_REASON_PHRASE", "EXPECT_FIELD_NAME"}
    BY <1>16 DEF FieldCase, ExpectBody, ChunkCase, TrailerCase, ExpectColon,
       ExpectOwsAfterColon, ExpectFieldValue, ExpectCrlfAfterFieldValue, ExpectChunkSize,
       ExpectChunkExt, ExpectCrlfAfterChunkExt, ExpectChunkData, ExpectCrlfAfterChunkData,
       ExpectTrailerName, ExpectTrailerColon, ExpectOwsAfterTrailerColon,
       ExpectTrailerValue, ExpectCrlfAfterTrailerValue, ExpectCrlfAfterTrailers
  <2> QED
    BY <1>6, <2>1, <2>2, ExpectedState
<1> QED
  BY <1>5, <1>9, <1>10, <1>11, <1>12, <1>13, <1>14, <1>15, <1>16
  DEF ReadToken, ResponseField, ResponseBody, ResponseChunks, ResponseTrailers

(* expected_token() is a promise while bytes of an unfinished token are in *)
(* the buffer: the data token it names is the next one, or an error is.    *)
THEOREM ExpectedTokensCome == Spec => ExpectedTokenComes
<1> DEFINE Comes == code_ = INSUFFICIENT /\ Unread # <<>>
                    /\ category(expected_token) = "data" /\ code_' \notin ErrorCode
                    => code_' = expected_token
<1>1. IInv /\ StreamInv /\ [Next]_vars => [Comes]_vars
  <2> SUFFICES ASSUME IInv, StreamInv, Next, code_ = INSUFFICIENT, Unread # <<>>,
                      category(expected_token) = "data", code_' \notin ErrorCode
               PROVE  code_' = expected_token
    OBVIOUS
  <2>1. /\ ibuffer \in Seq(Byte) /\ held \in Seq(Byte) /\ idx \in Nat /\ idx <= Len(ibuffer)
        /\ token_size_ \in Nat /\ Len(ibuffer) \in Nat /\ idx + token_size_ <= Len(ibuffer)
    BY DEF IInv, ReaderOK, TokenInsideBuffer
  <2>2. idx < Len(ibuffer)
    <3>1. CASE idx = Len(ibuffer)
      <4>1. Unread = <<>>
        BY <2>1, <3>1 DEF Unread
      <4> QED
        BY <4>1
    <3> QED
      BY <2>1, <3>1
  <2>3. INSUFFICIENT \in ErrorCode
    BY DEF INSUFFICIENT, ErrorCode
  <2>4. Stream \in Seq(Byte) /\ Len(Stream) \in Nat
        /\ Shows(Stream, 0, ibuffer, idx)
    BY <2>1, StreamIsBuffer
  <2>5. CASE Receive \/ SetMethod \/ PutEof \/ Restart
    BY <2>3, <2>5 DEF Receive, reader, SetMethod, set_method, PutEof, puteof, Restart, reset
  <2>6. CASE Feed
    <3>1. PICK k \in token_size_..Len(Stream) : set_buffer(SubSeq(Stream, 1, k))
      BY <2>6 DEF Feed, Stream
    <3> DEFINE buf == SubSeq(Stream, 1, k)
    <3>2. /\ buf \in Seq(Byte) /\ Len(buf) = k
          /\ \A m \in 1..k : buf[m] = Stream[m]
      BY <2>1, <2>4
    <3>3. NextOn(buf, 0)
      BY <3>1 DEF set_buffer
    <3> HIDE DEF buf
    <3>4. Shows(Stream, 0, buf, 0) /\ 0 + token_size_ <= Len(buf)
      BY <2>1, <2>4, <3>2 DEF Shows
    <3> QED
      BY <2>2, <3>2, <3>3, <3>4, NextOnComes
  <2>7. CASE Advance
    BY <2>1, <2>2, <2>4, <2>7, NextOnComes DEF Advance, next
  <2> QED
    BY <2>5, <2>6, <2>7 DEF Next
<1>2. Spec => [][Comes]_vars
  BY <1>1, StreamInvHolds, PTL DEF Spec
<1> QED
  BY <1>2, PTL DEF ExpectedTokenComes

-----------------------------------------------------------------------------
(* The grammar of the tokens. *)

(* The status line and the header section as steps from token to token. *)
OwnSkipEdge == {<<"EXPECT_VERSION_STATIC_STR", "EXPECT_VERSION">>,
                <<"EXPECT_SP_AFTER_VERSION", "EXPECT_STATUS_CODE">>,
                <<"EXPECT_SP_AFTER_STATUS_CODE", "EXPECT_REASON_PHRASE">>,
                <<"EXPECT_CRLF_AFTER_REASON_PHRASE", "EXPECT_FIELD_NAME">>}

OwnTokenEdge == {<<"EXPECT_VERSION", "version", "EXPECT_SP_AFTER_VERSION">>,
                 <<"EXPECT_STATUS_CODE", "status_code", "EXPECT_SP_AFTER_STATUS_CODE">>,
                 <<"EXPECT_FIELD_NAME", "field_name", "EXPECT_COLON">>}

OwnStep == \/ WaitStep \/ ErrorStep
           \/ code_' = "skip" /\ token_size_' > 0 /\ <<state, state'>> \in OwnSkipEdge
           \/ token_size_' > 0 /\ <<state, code_', state'>> \in OwnTokenEdge
           \/ /\ state = "EXPECT_REASON_PHRASE" /\ code_' = "reason_phrase"
              /\ state' = "EXPECT_CRLF_AFTER_REASON_PHRASE"
           \/ /\ state \in {"EXPECT_FIELD_NAME", "EXPECT_CRLF_AFTER_HEADERS"}
              /\ code_' = "end_of_headers" /\ token_size_' > 0
              /\ state' \in {"EXPECT_UNSAFE_BODY", "EXPECT_END_OF_BODY",
                             "EXPECT_CHUNK_SIZE", "EXPECT_BODY"}
           \/ /\ state = "EXPECT_UNSAFE_BODY" /\ code_' = "body_chunk"
              /\ token_size_' > 0 /\ state' = state

(* The ends of a body, of a message and of a connection. *)
EndStep ==
    \/ /\ state = "EXPECT_END_OF_BODY" /\ code_' = "end_of_body"
       /\ state' = "EXPECT_END_OF_MESSAGE" /\ token_size_' = 0
    \/ /\ state = "EXPECT_UNSAFE_BODY" /\ code_' = "end_of_body"
       /\ state' = "EXPECT_END_OF_MESSAGE" /\ token_size_' = 0
       /\ body_type' = body_type
    \/ /\ state = "EXPECT_END_OF_MESSAGE" /\ code_' = "end_of_message"
       /\ state' = IF LastMessage THEN "EXPECT_END_OF_CONNECTION_ERROR"
                   ELSE "EXPECT_VERSION_STATIC_STR"
       /\ token_size_' = 0
    \/ /\ state = "EXPECT_END_OF_CONNECTION_ERROR"
       /\ code_' = "error_use_another_connection" /\ state' = "ERRORED"

LEMMA StatusLineStep ==
    ASSUME NEW buf \in Seq(Byte), NEW i \in Nat, NEW n \in Nat, i # Len(buf),
           i + n <= Len(buf),
           \/ ExpectVersion(buf, i, n)
           \/ ExpectVersionStaticStr(buf, i, n)
           \/ ExpectSpAfterVersion(buf, i, n)
           \/ ExpectStatusCode(buf, i, n)
           \/ ExpectSpAfterStatusCode(buf, i, n)
           \/ ExpectReasonPhrase(buf, i, n)
           \/ ExpectCrlfAfterReasonPhrase(buf, i, n)
    PROVE  OwnStep
<1>1. Len(buf) \in Nat /\ i <= Len(buf)
  OBVIOUS
<1>2. {"error_invalid_data", "error_set_method"} \subseteq ErrorCode \ {INSUFFICIENT}
  BY DEF ErrorCode, INSUFFICIENT
<1>3. CASE ExpectVersionStaticStr(buf, i, n)
  <2>1. Len(StaticStr) > 0
    BY LiteralsAssumption
  <2> QED
    BY <1>2, <1>3, <2>1
    DEF ExpectVersionStaticStr, LiteralToken, Emit, Suspend, Fail, framing, OwnStep,
        WaitStep, ErrorStep, OwnSkipEdge
<1>4. CASE ExpectVersion(buf, i, n)
  BY <1>2, <1>4 DEF ExpectVersion, ByteToken, Emit, Fail, OwnStep, ErrorStep, OwnTokenEdge
<1>5. CASE ExpectSpAfterVersion(buf, i, n)
  BY <1>2, <1>5
  DEF ExpectSpAfterVersion, ByteToken, Emit, Fail, OwnStep, ErrorStep, OwnSkipEdge
<1>6. CASE ExpectStatusCode(buf, i, n)
  BY <1>2, <1>6
  DEF ExpectStatusCode, Emit, Suspend, Fail, framing, OwnStep, WaitStep, ErrorStep,
      OwnTokenEdge
<1>7. CASE ExpectSpAfterStatusCode(buf, i, n)
  BY <1>2, <1>7
  DEF ExpectSpAfterStatusCode, ByteToken, Emit, Fail, OwnStep, ErrorStep, OwnSkipEdge
<1>8. CASE ExpectReasonPhrase(buf, i, n)
  BY <1>8
  DEF ExpectReasonPhrase, RescanToken, Emit, Suspend, framing, OwnStep, WaitStep
<1>9. CASE ExpectCrlfAfterReasonPhrase(buf, i, n)
  BY <1>2, <1>9
  DEF ExpectCrlfAfterReasonPhrase, LiberalCrlf, Emit, Suspend, Fail, framing, OwnStep,
      WaitStep, ErrorStep, OwnSkipEdge
<1> QED
  BY <1>3, <1>4, <1>5, <1>6, <1>7, <1>8, <1>9

LEMMA FieldNameStep ==
    ASSUME NEW buf \in Seq(Byte), NEW i \in Nat, NEW n \in Nat, i # Len(buf),
           i + n <= Len(buf),
           ExpectFieldName(buf, i, n) \/ ExpectCrlfAfterHeaders(buf, i, n)
    PROVE  OwnStep
<1>1. Len(buf) \in Nat /\ i <= Len(buf)
  OBVIOUS
<1>2. {"error_invalid_data", "error_invalid_transfer_encoding",
       "error_invalid_content_length"} \subseteq ErrorCode \ {INSUFFICIENT}
  BY DEF ErrorCode, INSUFFICIENT
<1>3. ASSUME CrlfAfterHeaders(buf, i, n),
             state \in {"EXPECT_FIELD_NAME", "EXPECT_CRLF_AFTER_HEADERS"}
      PROVE  OwnStep
  <2>1. CASE \E size \in {1, 2} : EndOfHeaders(size)
    BY <1>3, <2>1 DEF EndOfHeaders, Emit, OwnStep
  <2>2. CASE Suspend("EXPECT_CRLF_AFTER_HEADERS", n) /\ UNCHANGED body_size
    BY <1>3, <2>2 DEF Suspend, Emit, OwnStep, WaitStep, WaitEdge
  <2> QED
    BY <1>2, <1>3, <2>1, <2>2 DEF CrlfAfterHeaders, Emit, Fail, OwnStep, ErrorStep
<1>4. CASE ExpectFieldName(buf, i, n)
  <2>1. PICK e \in i..Len(buf) :
          \/ CrlfAfterHeaders(buf, i, n)
          \/ Suspend(state, n) /\ UNCHANGED framing
          \/ e > i /\ FieldName(View(buf, i, e), e - i)
    BY <1>4 DEF ExpectFieldName
  <2>2. state = "EXPECT_FIELD_NAME"
    BY <1>4 DEF ExpectFieldName
  <2>3. CASE e > i /\ FieldName(View(buf, i, e), e - i)
    <3>1. \/ Emit("EXPECT_COLON", "field_name", e - i)
          \/ \E code \in {"error_invalid_transfer_encoding",
                          "error_invalid_content_length"} : Fail(code, e - i)
      BY <2>3 DEF FieldName, TransferEncodingField, ContentLengthField, OtherField
    <3>2. e - i > 0
      BY <1>1, <2>3
    <3> QED
      BY <1>2, <2>2, <3>1, <3>2 DEF Emit, Fail, OwnStep, ErrorStep, OwnTokenEdge
  <2> QED
    BY <1>3, <2>1, <2>2, <2>3 DEF Suspend, Emit, framing, OwnStep, WaitStep
<1> QED
  BY <1>3, <1>4 DEF ExpectCrlfAfterHeaders

(* With nothing to read, the reader waits, ends the body that the           *)
(* connection delimits, or refuses the connection.                          *)
LEMMA ExhaustedStep ==
    ASSUME NEW n, Exhausted(n),
           state \notin {"ERRORED", "EXPECT_END_OF_CONNECTION_ERROR"}
    PROVE  OwnStep \/ EndStep
<1>1. "error_use_another_connection" \in ErrorCode \ {INSUFFICIENT}
  BY DEF ErrorCode, INSUFFICIENT
<1> QED
  BY <1>1
  DEF Exhausted, Suspend, Emit, Fail, framing, OwnStep, WaitStep, ErrorStep, EndStep

(* next() takes one such step, or reports its error once more. *)
LEMMA NextOnStep ==
    ASSUME ReaderOK, FramingConsistent, NEW buf \in Seq(Byte), NEW pos \in Nat,
           pos + token_size_ <= Len(buf), NextOn(buf, pos)
    PROVE  \/ /\ state = "ERRORED"
              /\ UNCHANGED <<state, code_, token_size_, framing, connection_flags>>
           \/ MessageStep("EXPECT_VERSION_STATIC_STR") \/ OwnStep \/ EndStep
<1> DEFINE i == pos + Consumed
           n == token_size_ - Consumed
<1>1. Len(buf) \in Nat /\ token_size_ \in Nat
  BY DEF ReaderOK
<1>2. i \in Nat /\ n \in Nat /\ i + n <= Len(buf)
  BY <1>1 DEF Consumed
<1>3. body_size \in Uint /\ Suitable(state)
  BY DEF ReaderOK, FramingConsistent, FramingSuits, Suitable
<1>4. CASE EndOfBody \/ EndOfMessage
  BY <1>4 DEF EndOfBody, EndOfMessage, LastMessage, Emit, EndStep
<1>5. CASE /\ state = "EXPECT_END_OF_CONNECTION_ERROR"
           /\ Fail("error_use_another_connection", token_size_)
  BY <1>5 DEF Fail, Emit, EndStep
<1>6. CASE /\ state \notin {"ERRORED", "EXPECT_END_OF_CONNECTION_ERROR"}
           /\ Exhausted(n)
  BY <1>6, ExhaustedStep
<1> HIDE DEF i, n
<1>7. CASE i # Len(buf) /\ ReadToken(buf, i, n)
  <2>1. CASE ExpectUnsafeBody(buf, i, n)
    BY <1>1, <1>2, <1>7, <2>1 DEF ExpectUnsafeBody, Emit, OwnStep
  <2> QED
    BY <1>2, <1>3, <1>7, <2>1, StatusLineStep, FieldNameStep, FieldStep, BodyStep, ChunkStep,
       TrailerStep
    DEF ReadToken, ResponseField, ResponseBody, ResponseChunks, ResponseTrailers
<1> QED
  BY <1>4, <1>5, <1>6, <1>7 DEF NextOn, i, n

(* The part of the message that each state belongs to. *)
LEMMA Phases ==
    /\ \A s \in {"EXPECT_VERSION_STATIC_STR", "EXPECT_VERSION"} : PhaseOf[s] = "version"
    /\ \A s \in {"EXPECT_SP_AFTER_VERSION", "EXPECT_STATUS_CODE"} :
          PhaseOf[s] = "status_code"
    /\ \A s \in {"EXPECT_SP_AFTER_STATUS_CODE", "EXPECT_REASON_PHRASE"} :
          PhaseOf[s] = "reason_phrase"
    /\ \A s \in {"EXPECT_CRLF_AFTER_REASON_PHRASE", "EXPECT_FIELD_NAME",
                 "EXPECT_CRLF_AFTER_FIELD_VALUE", "EXPECT_CRLF_AFTER_HEADERS"} :
          PhaseOf[s] = "fields"
    /\ \A s \in InField : PhaseOf[s] = "value"
    /\ PhaseOf["EXPECT_BODY"] = "body" /\ PhaseOf["EXPECT_END_OF_BODY"] = "body"
    /\ PhaseOf["EXPECT_UNSAFE_BODY"] = "stream"
    /\ PhaseOf["EXPECT_END_OF_MESSAGE"] = "end"
    /\ PhaseOf["EXPECT_END_OF_CONNECTION_ERROR"] = "closed"
    /\ PhaseOf["EXPECT_CHUNK_SIZE"] = "chunks"
    /\ PhaseOf["EXPECT_CRLF_AFTER_CHUNK_DATA"] = "chunks"
    /\ PhaseOf["EXPECT_CHUNK_EXT"] = "chunk_line"
    /\ PhaseOf["EXPEXT_CRLF_AFTER_CHUNK_EXT"] = "chunk_line_end"
    /\ PhaseOf["EXPECT_CHUNK_DATA"] = "chunk_data"
    /\ \A s \in {"EXPECT_TRAILER_COLON", "EXPECT_OWS_AFTER_TRAILER_COLON",
                 "EXPECT_TRAILER_VALUE"} : PhaseOf[s] = "trailer_value"
    /\ \A s \in {"EXPECT_TRAILER_NAME", "EXPECT_CRLF_AFTER_TRAILER_VALUE",
                 "EXPECT_CRLF_AFTER_TRAILERS"} : PhaseOf[s] = "trailers"
    /\ PhaseOf["ERRORED"] = "dead"
BY DEF PhaseOf, State, BeforeStatusCode, AfterStatusCode, MessageState, InHeaders, InField,
       InChunks, InTrailers

LEMMA Alive ==
    \A s \in State \ {"ERRORED", "EXPECT_END_OF_CONNECTION_ERROR"} :
        PhaseOf[s] \notin {"closed", "dead"}
BY Phases DEF State, BeforeStatusCode, AfterStatusCode, MessageState, InHeaders, InField,
              InChunks, InTrailers

(* The variables of the grammar. *)
Phase == IF state = "EXPECT_END_OF_MESSAGE" /\ LastMessage THEN "last" ELSE PhaseOf[state]

Counted == {"EXPECT_BODY", "EXPECT_CHUNK_EXT", "EXPECT_CHUNK_DATA",
            "EXPEXT_CRLF_AFTER_CHUNK_EXT"}

Left == IF state \in Counted THEN body_size ELSE 0

(* Waiting at the end of a message never happens: next() ends it at once. *)
LEMMA WaitIsToken ==
    ASSUME IInv, WaitStep, state # "EXPECT_END_OF_MESSAGE" PROVE Tokens!Next
<1>1. state \in State \ {"ERRORED", "EXPECT_END_OF_CONNECTION_ERROR"}
  BY DEF IInv, ReaderOK, WaitStep
<1>2. Left' = Left
  BY DEF WaitStep, WaitEdge, Left, Counted
<1>3. state' # "EXPECT_END_OF_MESSAGE"
  BY DEF WaitStep, WaitEdge
<1>4. \/ PhaseOf[state'] = PhaseOf[state]
      \/ PhaseOf[state] = "chunk_line" /\ PhaseOf[state'] = "chunk_line_end"
  BY Phases DEF WaitStep, WaitEdge, InField
<1>5. Tokens!Wait
  BY <1>1, <1>2, <1>3, <1>4, Alive DEF WaitStep, INSUFFICIENT, Left, Counted, Tokens!Wait
<1> QED
  BY <1>5 DEF Tokens!Next

LEMMA ErrorIsToken == ASSUME IInv, IInv', ErrorStep PROVE Tokens!Next
<1>1. state \in State \ {"ERRORED", "EXPECT_END_OF_CONNECTION_ERROR"} /\ token_size_' \in Nat
  BY DEF IInv, ReaderOK, ErrorStep
<1>2. Left' = 0 /\ Phase' = "dead" /\ Phase \notin {"closed", "dead"}
  BY <1>1, Phases, Alive DEF ErrorStep, Left, Counted, Phase
<1>3. code_' \in Tokens!ErrorCode \ {"error_insufficient_data"}
  BY DEF ErrorStep, INSUFFICIENT, ErrorCode, Tokens!ErrorCode
<1>4. Tokens!Error
  BY <1>1, <1>2, <1>3 DEF INSUFFICIENT, Left, Counted, Phase, Tokens!Error
<1> QED
  BY <1>4 DEF Tokens!Next

LEMMA SkipIsToken ==
    ASSUME code_' = "skip", token_size_' > 0,
           <<state, state'>> \in SkipEdge \cup OwnSkipEdge
    PROVE  Tokens!Next
<1>1. Left' = 0 /\ Left = 0
  BY DEF SkipEdge, OwnSkipEdge, Left, Counted
<1>2. Phase' = Phase /\ Phase \notin {"closed", "dead"}
  BY Phases DEF SkipEdge, OwnSkipEdge, InField, Phase
<1>3. Tokens!Skip
  BY <1>1, <1>2 DEF INSUFFICIENT, Left, Counted, Phase, Tokens!Skip
<1> QED
  BY <1>3 DEF Tokens!Next

LEMMA FieldIsToken ==
    ASSUME IInv',
           \/ ValueStep
           \/ token_size_' > 0 /\ <<state, code_', state'>> \in OwnTokenEdge
           \/ /\ state = "EXPECT_REASON_PHRASE" /\ code_' = "reason_phrase"
              /\ state' = "EXPECT_CRLF_AFTER_REASON_PHRASE"
    PROVE  Tokens!Next
<1>1. Left' = 0 /\ Left = 0 /\ token_size_' \in Nat
  BY DEF ValueStep, OwnTokenEdge, Left, Counted, IInv, ReaderOK
<1>2. CASE ValueStep \/ code_' = "field_name"
  <2>1. Tokens!FieldToken
    BY <1>1, <1>2, Phases
    DEF ValueStep, OwnTokenEdge, InField, INSUFFICIENT, Left, Counted, Tokens!FieldToken,
        Tokens!Step
  <2> QED
    BY <2>1 DEF Tokens!Next
<1>3. CASE ~ValueStep /\ code_' # "field_name"
  <2>1. Tokens!StartLineToken
    BY <1>1, <1>3, Phases
    DEF OwnTokenEdge, StatusLine, INSUFFICIENT, Left, Counted, Tokens!StartLineToken
  <2> QED
    BY <2>1 DEF Tokens!Next
<1> QED
  BY <1>2, <1>3

LEMMA DataIsToken ==
    ASSUME IInv, IInv',
           \/ DataStep
           \/ /\ state = "EXPECT_UNSAFE_BODY" /\ code_' = "body_chunk"
              /\ token_size_' > 0 /\ state' = state
    PROVE  Tokens!Next
<1>1. body_size \in Nat /\ body_size' \in Nat /\ token_size_' \in Nat
  BY UintMaxAssumption DEF IInv, ReaderOK, Uint
<1>2. CASE DataStep
  <2>1. /\ Left = body_size /\ Left' = Left - token_size_'
        /\ code_' = "body_chunk" /\ token_size_' \in 1..Left
    BY <1>1, <1>2 DEF DataStep, Left, Counted
  <2>2. \/ Phase = "body" /\ Phase' = "body"
        \/ Phase = "chunk_data" /\ Phase' = IF Left' = 0 THEN "chunks" ELSE "chunk_data"
    <3>1. CASE state = "EXPECT_BODY"
      BY <1>1, <1>2, <3>1, Phases DEF DataStep, Phase
    <3>2. CASE state = "EXPECT_CHUNK_DATA" /\ body_size' = 0
      BY <1>2, <3>2, Phases DEF DataStep, Left, Counted, Phase
    <3>3. CASE state = "EXPECT_CHUNK_DATA" /\ body_size' # 0
      BY <1>2, <3>3, Phases DEF DataStep, Left, Counted, Phase
    <3> QED
      BY <1>2, <3>1, <3>2, <3>3 DEF DataStep
  <2>3. Tokens!BodyChunk
    BY <2>1, <2>2 DEF INSUFFICIENT, Left, Counted, Phase, Tokens!BodyChunk, Tokens!Step
  <2> QED
    BY <2>3 DEF Tokens!Next
<1>3. CASE /\ state = "EXPECT_UNSAFE_BODY" /\ code_' = "body_chunk"
           /\ token_size_' > 0 /\ state' = state
  <2>1. Tokens!BodyChunk
    BY <1>3, Phases DEF INSUFFICIENT, Tokens!BodyChunk, Tokens!Step
  <2> QED
    BY <2>1 DEF Tokens!Next
<1> QED
  BY <1>2, <1>3

LEMMA ChunkLineIsToken == ASSUME IInv, IInv', ChunkLineStep PROVE Tokens!Next
<1>1. body_size \in Nat /\ body_size' \in Nat
  BY UintMaxAssumption DEF IInv, ReaderOK, Uint
<1>2. Tokens!ChunkLine \/ Tokens!EndOfBody
  BY <1>1, Phases
  DEF ChunkLineStep, INSUFFICIENT, Tokens!ChunkLine, Tokens!EndOfBody, Tokens!Step
<1> QED
  BY <1>2 DEF Tokens!Next

LEMMA HeadersEndIsToken ==
    ASSUME IInv', state \in {"EXPECT_FIELD_NAME", "EXPECT_CRLF_AFTER_HEADERS"},
           code_' = "end_of_headers", token_size_' > 0,
           state' \in {"EXPECT_UNSAFE_BODY", "EXPECT_END_OF_BODY", "EXPECT_CHUNK_SIZE",
                       "EXPECT_BODY"}
    PROVE  Tokens!Next
<1>1. body_size' \in Nat
  BY UintMaxAssumption DEF IInv, ReaderOK, Uint
<1>2. Tokens!EndOfHeaders
  BY <1>1, Phases DEF INSUFFICIENT, Tokens!EndOfHeaders, Tokens!Step
<1> QED
  BY <1>2 DEF Tokens!Next

(* A message that only the end of the connection delimits is the last one. *)
LEMMA EndIsToken ==
    ASSUME IInv, IInv', EndStep \/ LastStep("EXPECT_VERSION_STATIC_STR")
    PROVE  Tokens!Next
<1>1. token_size_' \in Nat /\ FramingConsistent
  BY DEF IInv, ReaderOK
<1>2. CASE /\ state = "EXPECT_END_OF_BODY" /\ code_' = "end_of_body"
           /\ state' = "EXPECT_END_OF_MESSAGE" /\ token_size_' = 0
  <2>1. Tokens!EndOfBody
    BY <1>2, Phases DEF INSUFFICIENT, Tokens!EndOfBody, Tokens!Step
  <2> QED
    BY <2>1 DEF Tokens!Next
<1>3. CASE /\ state = "EXPECT_UNSAFE_BODY" /\ code_' = "end_of_body"
           /\ state' = "EXPECT_END_OF_MESSAGE" /\ token_size_' = 0
           /\ body_type' = body_type
  <2>1. LastMessage'
    BY <1>1, <1>3 DEF FramingConsistent, FramingSuits, OwnSuits, LastMessage
  <2>2. Tokens!EndOfBody
    BY <1>3, <2>1, Phases DEF INSUFFICIENT, Tokens!EndOfBody, Tokens!Step
  <2> QED
    BY <2>2 DEF Tokens!Next
<1>4. CASE /\ state = "EXPECT_END_OF_MESSAGE" /\ code_' = "end_of_message"
           /\ state' = IF LastMessage THEN "EXPECT_END_OF_CONNECTION_ERROR"
                       ELSE "EXPECT_VERSION_STATIC_STR"
           /\ token_size_' = 0
  <2>1. Tokens!EndOfMessage
    BY <1>4, Phases DEF INSUFFICIENT, Tokens!EndOfMessage, Tokens!Step
  <2> QED
    BY <2>1 DEF Tokens!Next
<1>5. CASE /\ state = "EXPECT_END_OF_CONNECTION_ERROR"
           /\ code_' = "error_use_another_connection" /\ state' = "ERRORED"
  <2>1. Tokens!Error
    BY <1>1, <1>5, Phases DEF INSUFFICIENT, Tokens!ErrorCode, Tokens!Error
  <2> QED
    BY <2>1 DEF Tokens!Next
<1>6. CASE LastStep("EXPECT_VERSION_STATIC_STR")
  <2>1. Tokens!EndOfMessage
    BY <1>6, Phases DEF LastStep, INSUFFICIENT, Tokens!EndOfMessage, Tokens!Step
  <2> QED
    BY <2>1 DEF Tokens!Next
<1> QED
  BY <1>2, <1>3, <1>4, <1>5, <1>6 DEF EndStep

(* A call of next() is a step of the grammar or leaves the token as it is. *)
LEMMA NextOnIsToken ==
    ASSUME IInv, IInv', NEW buf \in Seq(Byte), NEW pos \in Nat,
           pos + token_size_ <= Len(buf), NextOn(buf, pos)
    PROVE  Tokens!Next \/ UNCHANGED Tokens!vars
<1>1. CASE UNCHANGED <<state, code_, token_size_, framing, connection_flags>>
  BY <1>1 DEF framing, LastMessage, Tokens!vars
<1>2. WaitStep => state # "EXPECT_END_OF_MESSAGE"
  BY DEF NextOn, EndOfMessage, EndOfBody, Emit, WaitStep, INSUFFICIENT
<1>3. CASE MessageStep("EXPECT_VERSION_STATIC_STR")
  BY <1>2, <1>3, WaitIsToken, ErrorIsToken, SkipIsToken, FieldIsToken, DataIsToken,
     ChunkLineIsToken, EndIsToken
  DEF MessageStep, SkipStep
<1>4. CASE OwnStep
  BY <1>2, <1>4, WaitIsToken, ErrorIsToken, SkipIsToken, FieldIsToken, DataIsToken,
     HeadersEndIsToken
  DEF OwnStep
<1> QED
  BY <1>1, <1>3, <1>4, NextOnStep, EndIsToken DEF IInv

(* For every stream, every way of cutting it and every order of calls, the  *)
(* tokens of the response reader come in the order of a message: a field    *)
(* value after each name, a body that is counted down to its end or lasts   *)
(* as long as the connection, one end per message, nothing but              *)
(* error_use_another_connection after the last message of a connection, and *)
(* after an error nothing until reset().  ResponseReader implements         *)
(* MessageTokens under the mapping of ResponseTokens.                       *)
THEOREM TokensImplementGrammar == Spec => TokensFollowGrammar
<1>1. Init => Tokens!Init
  BY Phases DEF Init, ReaderInit, INSUFFICIENT, Tokens!Init
<1>2. IInv /\ IInv' /\ [Next]_vars => [Tokens!Next]_(Tokens!vars)
  <2> SUFFICES ASSUME IInv, IInv', [Next]_vars
               PROVE  Tokens!Next \/ UNCHANGED Tokens!vars
    OBVIOUS
  <2>1. CASE Receive \/ UNCHANGED vars
    BY <2>1 DEF Receive, vars, reader, framing, LastMessage, Tokens!vars
  <2>2. CASE Feed
    <3>1. /\ ibuffer \in Seq(Byte) /\ held \in Seq(Byte) /\ idx \in Nat
          /\ idx <= Len(ibuffer) /\ token_size_ \in Nat
      BY DEF IInv, ReaderOK, TokenInsideBuffer
    <3>2. PICK k \in token_size_..Len(Stream) : set_buffer(SubSeq(Stream, 1, k))
      BY <2>2 DEF Feed, Stream
    <3> DEFINE buf == SubSeq(Stream, 1, k)
    <3>3. Stream \in Seq(Byte) /\ Len(Stream) \in Nat
      BY <3>1, StreamIsBuffer
    <3>4. buf \in Seq(Byte) /\ Len(buf) = k
      BY <3>1, <3>2, <3>3
    <3> HIDE DEF buf
    <3>5. CASE NextOn(buf, 0)
      BY <3>1, <3>2, <3>4, <3>5, NextOnIsToken
    <3>6. CASE UNCHANGED <<state, code_, token_size_, framing, connection_flags>>
      BY <3>6 DEF framing, LastMessage, Tokens!vars
    <3> QED
      BY <3>2, <3>5, <3>6 DEF set_buffer, buf
  <2>3. CASE Advance
    BY <2>3, NextOnIsToken DEF Advance, next, IInv, ReaderOK, TokenInsideBuffer
  <2>4. CASE SetMethod
    <3>1. state = "EXPECT_SP_AFTER_STATUS_CODE"
          /\ UNCHANGED <<state, code_, token_size_>>
      BY <2>4 DEF SetMethod, set_method, IInv, StatusCodeIsLast
    <3> QED
      BY <3>1 DEF Tokens!vars
  <2>5. CASE PutEof
    <3>1. /\ UNCHANGED <<state, code_, token_size_, framing>>
          /\ ("HTTP_1_0" \in connection_flags)' <=> "HTTP_1_0" \in connection_flags
      BY <2>5 DEF PutEof, puteof
    <3> QED
      BY <3>1 DEF framing, LastMessage, Tokens!vars
  <2>6. CASE Restart
    <3>1. Tokens!Reset
      BY <2>6, Phases DEF Restart, reset, INSUFFICIENT, Tokens!Reset
    <3> QED
      BY <3>1 DEF Tokens!Next
  <2> QED
    BY <2>1, <2>2, <2>3, <2>4, <2>5, <2>6 DEF Next
<1> QED
  BY <1>1, <1>2, IInvHolds, PTL DEF Spec, TokensFollowGrammar, Tokens!Spec

-----------------------------------------------------------------------------
(* What the consumer remembers is of this type; in particular it has never  *)
(* been given more bytes of a body than it was told to expect, and never   *)
(* met framing fields that it could not resolve.                           *)
Seen == [http10 : BOOLEAN,
         kind : {"unknown", "none", "tunnel", "fields", "chunked", "close", "length"},
         name : {"none", "Transfer-Encoding", "Content-Length", "other"},
         te : {"absent", "other", "chunked", "bad"}, cl : Int, left : Nat, final : BOOLEAN]

SeenOK == seen \in Seen

(* The reader and the consumer agree on the version of the connection ...  *)
VersionSeen == seen.http10 <=> "HTTP_1_0" \in connection_flags

(* ... on what the method and the status imply ... *)
KindSeen ==
    /\ body_type = "UNKNOWN_BODY" => seen.kind = "unknown"
    /\ body_type = "FORCE_NO_BODY" => seen.kind = "none"
    /\ body_type = "FORCE_NO_BODY_AND_STOP" => seen.kind = "tunnel"
    /\ body_type \in {"CONNECTION_DELIMITED"} \cup FieldBodyType => seen.kind = "fields"

(* ... on the framing fields, of which an HTTP/1.0 server has one ... *)
FieldsSeen ==
    /\ body_type \in {"UNKNOWN_BODY"} \cup Forced =>
          seen.te = "absent" /\ seen.cl = NONE /\ seen.name = "none"
    /\ body_type = "CONNECTION_DELIMITED" =>
          /\ seen.te = "absent" /\ seen.cl = NONE /\ seen.name # "Content-Length"
          /\ seen.name = "Transfer-Encoding" => seen.http10
    /\ body_type = "READING_CONTENT_LENGTH" =>
          seen.te = "absent" /\ seen.cl = NONE /\ seen.name = "Content-Length"
    /\ body_type = "READING_ENCODING" =>
          seen.te \in {"absent", "other"} /\ seen.name = "Transfer-Encoding"
    /\ body_type = "CONTENT_LENGTH_READ" =>
          /\ seen.te = "absent" /\ seen.cl = body_size /\ seen.name # "Content-Length"
          /\ seen.name = "Transfer-Encoding" => seen.http10
    /\ body_type = "CHUNKED_ENCODING_READ" =>
          seen.te = "chunked" /\ seen.name # "Transfer-Encoding"
    /\ body_type = "RANDOM_ENCODING_READ" =>
          seen.te = "other" /\ seen.name # "Transfer-Encoding"

(* The parts of a message, as the consumer sees them. *)
InStatusLine == {"EXPECT_SP_AFTER_VERSION", "EXPECT_STATUS_CODE",
                 "EXPECT_SP_AFTER_STATUS_CODE"} \cup AfterStatusCode

AfterVersion == InStatusLine \cup InHeaders

InChunkLine == {"EXPECT_CHUNK_EXT", "EXPEXT_CRLF_AFTER_CHUNK_EXT"}

InData == InChunkLine \cup {"EXPECT_BODY", "EXPECT_CHUNK_DATA"}

AfterData == {"EXPECT_CHUNK_SIZE", "EXPECT_CRLF_AFTER_CHUNK_DATA", "EXPECT_UNSAFE_BODY",
              "EXPECT_END_OF_BODY", "EXPECT_END_OF_MESSAGE"} \cup InTrailers

(* ... and on the body: its kind, the bytes that are left of it in the      *)
(* states where the reader still knows them, and whether this chunk is the *)
(* last one.                                                               *)
BodySeen ==
    /\ state \in InChunks \cup InTrailers => seen.kind = "chunked"
    /\ state = "EXPECT_BODY" => seen.kind = "length"
    /\ state = "EXPECT_UNSAFE_BODY" => seen.kind = "close"
    /\ state = "EXPECT_END_OF_BODY" => seen.kind \in {"none", "tunnel", "length"}
    /\ state = "EXPECT_END_OF_MESSAGE" => seen.kind # "chunked"
    /\ state \in {"EXPECT_END_OF_BODY", "EXPECT_END_OF_MESSAGE"} =>
          (seen.kind \in {"tunnel", "close"} <=> body_type = "FORCE_NO_BODY_AND_STOP")
    /\ state = "EXPECT_END_OF_CONNECTION_ERROR" =>
          seen.http10 \/ seen.kind \in {"tunnel", "close"}
    /\ state \in InData => seen.left = body_size
    /\ state \in AfterData => seen.left = 0
    /\ state \in InChunkLine => (seen.final <=> body_size = 0)

Heard == /\ SeenOK
         /\ VersionSeen
         /\ state \in AfterVersion => KindSeen /\ FieldsSeen /\ seen.left = 0
         /\ state \in InStatusLine => seen.name = "none"
         /\ BodySeen

(* The token status_code has three digits. *)
StatusIsWhole == code_ = "status_code" => token_size_ = 3

(* When the connection has ended the reader's buffer shows all that is     *)
(* left of the stream, unless the caller goes on to shrink it.             *)
NothingHeld == Closed /\ ~ShrinkAfterEof => held = <<>>

(* What is shown of the consumer; a buffer that shrinks after puteof() may *)
(* cut a body that ends with the connection.                               *)
Verdicts == /\ FramingFollowsFields /\ ConnectionIsReused /\ RefusalIsJustified
            /\ ~ShrinkAfterEof => BodyIsComplete

CInv == IInv /\ StreamInv /\ StatusIsWhole /\ NothingHeld /\ Heard /\ Verdicts

(* What Learn() makes of each token; the others say nothing. *)
LEMMA Learns ==
    ASSUME NEW bytes
    PROVE  /\ Learn("version", bytes) =
                 [Fresh EXCEPT !.http10 = (seen.http10 \/ bytes[1] = 48)]
           /\ Learn("field_name", bytes) =
                 IF seen.kind = "fields" THEN [seen EXCEPT !.name = NameOf(bytes)] ELSE seen
           /\ Learn("field_value", bytes) =
                 IF seen.name = "Transfer-Encoding" /\ ~seen.http10
                 THEN [seen EXCEPT !.te = MergeCodings(@, decode_field_value(bytes)),
                                   !.name = "none"]
                 ELSE IF seen.name = "Content-Length"
                 THEN [seen EXCEPT !.cl = MergeLengths(@, decode_field_value(bytes)),
                                   !.name = "none"]
                 ELSE [seen EXCEPT !.name = "none"]
           /\ Learn("end_of_headers", bytes) =
                 [Fresh EXCEPT !.http10 = seen.http10, !.kind = Resolved,
                               !.left = IF Resolved = "length" THEN seen.cl ELSE 0]
           /\ Learn("skip", bytes) =
                 IF state = "EXPECT_CHUNK_SIZE"
                 THEN [seen EXCEPT !.left = seen.left + Number(bytes, HexValue, 16),
                                   !.final = (Number(bytes, HexValue, 16) = 0)]
                 ELSE seen
           /\ Learn("body_chunk", bytes) =
                 IF seen.kind # "close" THEN [seen EXCEPT !.left = @ - Len(bytes)] ELSE seen
           /\ \A code \in {"status_code", "reason_phrase", "chunk_ext", "trailer_name",
                           "trailer_value", "end_of_body", "end_of_message"} :
                 Learn(code, bytes) = seen
<1>1. Learn("version", bytes) = [Fresh EXCEPT !.http10 = (seen.http10 \/ bytes[1] = 48)]
  BY DEF Learn
<1>2. Learn("field_name", bytes) =
        IF seen.kind = "fields" THEN [seen EXCEPT !.name = NameOf(bytes)] ELSE seen
  <2>1. CASE seen.kind = "fields"
    BY <2>1 DEF Learn
  <2>2. CASE seen.kind # "fields"
    BY <2>2 DEF Learn
  <2> QED
    BY <2>1, <2>2
<1>3. Learn("field_value", bytes) =
        IF seen.name = "Transfer-Encoding" /\ ~seen.http10
        THEN [seen EXCEPT !.te = MergeCodings(@, decode_field_value(bytes)), !.name = "none"]
        ELSE IF seen.name = "Content-Length"
        THEN [seen EXCEPT !.cl = MergeLengths(@, decode_field_value(bytes)), !.name = "none"]
        ELSE [seen EXCEPT !.name = "none"]
  <2>1. CASE seen.name = "Transfer-Encoding" /\ ~seen.http10
    BY <2>1 DEF Learn
  <2>2. CASE seen.name = "Content-Length"
    BY <2>2 DEF Learn
  <2>3. CASE ~(seen.name = "Transfer-Encoding" /\ ~seen.http10) /\ seen.name # "Content-Length"
    BY <2>3 DEF Learn
  <2> QED
    BY <2>1, <2>2, <2>3
<1>4. Learn("end_of_headers", bytes) =
        [Fresh EXCEPT !.http10 = seen.http10, !.kind = Resolved,
                      !.left = IF Resolved = "length" THEN seen.cl ELSE 0]
  BY DEF Learn
<1>5. Learn("skip", bytes) = IF state = "EXPECT_CHUNK_SIZE"
                             THEN [seen EXCEPT !.left = seen.left + Number(bytes, HexValue, 16),
                                               !.final = (Number(bytes, HexValue, 16) = 0)]
                             ELSE seen
  <2>1. CASE state = "EXPECT_CHUNK_SIZE"
    BY <2>1 DEF Learn
  <2>2. CASE state # "EXPECT_CHUNK_SIZE"
    BY <2>2 DEF Learn
  <2> QED
    BY <2>1, <2>2
<1>6. Learn("body_chunk", bytes) =
        IF seen.kind # "close" THEN [seen EXCEPT !.left = @ - Len(bytes)] ELSE seen
  <2>1. CASE seen.kind # "close"
    BY <2>1 DEF Learn
  <2>2. CASE seen.kind = "close"
    BY <2>2 DEF Learn
  <2> QED
    BY <2>1, <2>2
<1>7. ASSUME NEW code \in {"status_code", "reason_phrase", "chunk_ext", "trailer_name",
                           "trailer_value", "end_of_body", "end_of_message"}
      PROVE  Learn(code, bytes) = seen
  BY DEF Learn
<1> QED
  BY <1>1, <1>2, <1>3, <1>4, <1>5, <1>6, <1>7
-----------------------------------------------------------------------------
(* No state is in two parts of a message. *)
BeforeVersion == {"EXPECT_VERSION_STATIC_STR", "EXPECT_VERSION"}

InBody == InChunks \cup InTrailers \cup
            {"EXPECT_BODY", "EXPECT_UNSAFE_BODY", "EXPECT_END_OF_BODY",
             "EXPECT_END_OF_MESSAGE", "EXPECT_END_OF_CONNECTION_ERROR"}

LEMMA Parts ==
    /\ BeforeVersion \cap (AfterVersion \cup InBody) = {}
    /\ AfterVersion \cap InBody = {}
    /\ InStatusLine \subseteq AfterVersion /\ InHeaders \subseteq AfterVersion
    /\ InStatusLine \cap InHeaders = {}
    /\ "ERRORED" \notin BeforeVersion \cup AfterVersion \cup InBody
    /\ InChunkLine \subseteq InData /\ InData \cup AfterData \subseteq InBody
BY DEF BeforeVersion, AfterVersion, InStatusLine, InHeaders, InField, InBody, InChunks,
       InTrailers, AfterStatusCode, InChunkLine, InData, AfterData

(* A step whose token says nothing, between two states of the same part. *)
QuietCode == {INSUFFICIENT, "error_invalid_data", "error_chunk_size_overflow",
              "status_code", "reason_phrase", "chunk_ext", "trailer_name", "trailer_value"}

LEMMA QuietVerdicts ==
    ASSUME Heard', code_' \in QuietCode \cup {"skip", "version", "field_name", "field_value",
                                              "body_chunk"}
    PROVE  Verdicts'
<1>1. seen'.left >= 0
  BY DEF Heard, SeenOK, Seen
<1> QED
  BY <1>1
  DEF QuietCode, INSUFFICIENT, Verdicts, FramingFollowsFields, BodyIsComplete,
      ConnectionIsReused, RefusalIsJustified

LEMMA QuietSeen ==
    ASSUME Look(TRUE),
           \/ code_' \in QuietCode \cup ErrorCode \cup {"end_of_body", "end_of_message"}
           \/ code_' = "skip" /\ state # "EXPECT_CHUNK_SIZE"
           \/ state = "ERRORED"
    PROVE  seen' = seen
<1>0. INSUFFICIENT \in ErrorCode /\ "error_invalid_data" \in ErrorCode
      /\ "error_chunk_size_overflow" \in ErrorCode
  BY DEF ErrorCode, INSUFFICIENT
<1>1. CASE code_' \in ErrorCode \/ state = "ERRORED"
  BY <1>1 DEF Look
<1>2. CASE code_' \in {"status_code", "reason_phrase", "chunk_ext", "trailer_name",
                       "trailer_value", "end_of_body", "end_of_message"}
  BY <1>2, Learns DEF Look
<1>3. CASE code_' = "skip" /\ state # "EXPECT_CHUNK_SIZE"
  BY <1>3, Learns DEF Look
<1> QED
  BY <1>0, <1>1, <1>2, <1>3 DEF QuietCode

LEMMA QuietHeard ==
    ASSUME Heard, Look(TRUE), UNCHANGED <<framing, connection_flags>>,
           code_' \in QuietCode \/ (code_' = "skip" /\ state # "EXPECT_CHUNK_SIZE"),
           \/ state' = "ERRORED" \/ state' = state
           \/ state \in BeforeVersion /\ state' \in BeforeVersion
           \/ state \in InStatusLine /\ state' \in AfterVersion
           \/ state \in InHeaders /\ state' \in InHeaders
    PROVE  Heard' /\ Verdicts'
<1>1. seen' = seen
  BY QuietSeen
<1>2. /\ SeenOK' /\ VersionSeen'
      /\ (KindSeen <=> KindSeen') /\ (FieldsSeen <=> FieldsSeen')
  BY <1>1 DEF Heard, SeenOK, VersionSeen, KindSeen, FieldsSeen, framing
<1>3. Heard'
  <2>1. CASE state' = state
    BY <1>1, <1>2, <2>1 DEF Heard, BodySeen, framing
  <2>2. CASE state' # state
    <3>1. state' \notin InBody
      BY <2>2, Parts
    <3>2. BodySeen'
      BY <3>1, Parts DEF BodySeen, InBody
    <3> QED
      BY <1>1, <1>2, <2>2, <3>2, Parts DEF Heard
  <2> QED
    BY <2>1, <2>2
<1> QED
  BY <1>3, QuietVerdicts

(* The ways in which a step of the header section ends well. *)
LEMMA FieldsHeard ==
    ASSUME state' \in InHeaders, SeenOK', VersionSeen', KindSeen', FieldsSeen',
           seen'.left = 0, code_' \in {"field_name", "field_value"}
    PROVE  Heard' /\ Verdicts'
<1>1. BodySeen'
  BY Parts DEF BodySeen, InBody
<1>2. Heard'
  BY <1>1, Parts DEF Heard
<1> QED
  BY <1>2, QuietVerdicts

LEMMA RefusedHeard ==
    ASSUME Heard, Look(TRUE), state' = "ERRORED", code_' \in ErrorCode,
           UNCHANGED connection_flags, seen' = seen => RefusalIsJustified'
    PROVE  Heard' /\ Verdicts'
<1>1. seen' = seen
  BY QuietSeen
<1>2. BodySeen'
  BY Parts DEF BodySeen, InBody
<1>3. Heard'
  BY <1>1, <1>2, Parts DEF Heard, SeenOK, VersionSeen
<1>4. code_' \notin {"end_of_headers", "end_of_body", "end_of_message"}
  BY DEF ErrorCode
<1>5. seen'.left >= 0
  BY <1>3 DEF Heard, SeenOK, Seen
<1> QED
  BY <1>1, <1>3, <1>4, <1>5
  DEF Verdicts, FramingFollowsFields, BodyIsComplete, ConnectionIsReused

-----------------------------------------------------------------------------
(* The status line: the consumer knows of the version only, until it is    *)
(* asked for the method.                                                   *)
LEMMA FreshIs == Fresh \in Seen /\ Fresh.kind = "unknown" /\ Fresh.name = "none"
                 /\ Fresh.te = "absent" /\ Fresh.cl = NONE /\ Fresh.left = 0
BY DEF Fresh, Seen, NONE

LEMMA VersionHeard ==
    ASSUME IInv, Heard, Look(TRUE), NEW buf \in Seq(Byte), NEW i \in Nat, NEW n \in Nat,
           ibuffer' = buf, idx' = i, i + n <= Len(buf), i # Len(buf),
           ExpectVersion(buf, i, n)
    PROVE  Heard' /\ Verdicts'
<1>1. state = "EXPECT_VERSION" /\ state \in BeforeVersion /\ state # "ERRORED"
  BY DEF ExpectVersion, BeforeVersion
<1>2. CASE buf[i + 1] \notin isdigit /\ Fail("error_invalid_data", n)
  <2>1. 48 \in isdigit
    BY DEF isdigit
  <2>2. UNCHANGED <<framing, connection_flags>>
    BY <1>2, <2>1 DEF ExpectVersion
  <2> QED
    BY <1>1, <1>2, <2>2, QuietHeard DEF Fail, Emit, QuietCode
<1>3. CASE buf[i + 1] \in isdigit /\ Emit("EXPECT_SP_AFTER_VERSION", "version", 1)
  <2>1. TokenBytes'[1] = buf[i + 1]
    <3>1. TokenBytes' = View(buf, i, i + 1)
      BY <1>3 DEF TokenBytes, Emit
    <3>2. i + 1 \in i..Len(buf) /\ Len(buf) \in Nat
      OBVIOUS
    <3> QED
      BY <3>1, <3>2 DEF View
  <2> DEFINE http10 == seen.http10 \/ buf[i + 1] = 48
  <2>2. seen' = [Fresh EXCEPT !.http10 = http10]
    <3>1. seen' = Learn("version", TokenBytes')
      BY <1>1, <1>3 DEF Look, Emit, ErrorCode
    <3>2. seen' = [Fresh EXCEPT !.http10 = (seen.http10 \/ TokenBytes'[1] = 48)]
      BY <3>1, Learns
    <3> QED
      BY <2>1, <3>2
  <2>3. http10 \in BOOLEAN /\ (http10 <=> "HTTP_1_0" \in connection_flags')
    BY DEF ExpectVersion, Heard, VersionSeen
  <2> HIDE DEF http10
  <2>4. SeenOK' /\ seen'.http10 = http10
    BY <2>2, <2>3, FreshIs DEF SeenOK, Seen
  <2>5. /\ seen'.kind = "unknown" /\ seen'.name = "none" /\ seen'.te = "absent"
        /\ seen'.cl = NONE /\ seen'.left = 0
    BY <2>2, FreshIs DEF Fresh
  <2>6. body_type' = "UNKNOWN_BODY"
    BY <1>1 DEF ExpectVersion, IInv, FramingConsistent, FramingSuits, OwnSuits,
                BeforeStatusCode, framing
  <2>7. VersionSeen' /\ KindSeen' /\ FieldsSeen'
    BY <2>3, <2>4, <2>5, <2>6 DEF VersionSeen, KindSeen, FieldsSeen, Forced, FieldBodyType, Reading
  <2>8. state' \in InStatusLine /\ state' \notin InBody /\ code_' = "version"
    BY <1>3, Parts DEF Emit, InStatusLine
  <2>9. BodySeen'
    BY <2>8, Parts DEF BodySeen, InBody
  <2>10. Heard'
    BY <2>4, <2>5, <2>7, <2>8, <2>9, Parts DEF Heard
  <2> QED
    BY <2>8, <2>10, QuietVerdicts
<1> QED
  BY <1>2, <1>3 DEF ExpectVersion, ByteToken

LEMMA StatusLineHeard ==
    ASSUME IInv, Heard, Look(TRUE), NEW buf \in Seq(Byte), NEW i \in Nat, NEW n \in Nat,
           i + n <= Len(buf), i # Len(buf), UNCHANGED connection_flags,
           \/ ExpectVersionStaticStr(buf, i, n)
           \/ ExpectSpAfterVersion(buf, i, n)
           \/ ExpectStatusCode(buf, i, n)
           \/ ExpectSpAfterStatusCode(buf, i, n)
           \/ ExpectReasonPhrase(buf, i, n)
           \/ ExpectCrlfAfterReasonPhrase(buf, i, n)
    PROVE  Heard' /\ Verdicts'
<1>1. ASSUME NEW s, NEW code \in QuietCode \cup {"skip"}, Outcome(buf, i, state, s, code),
             UNCHANGED framing,
             \/ state \in BeforeVersion /\ s \in BeforeVersion
             \/ state \in InStatusLine /\ s \in AfterVersion
      PROVE  Heard' /\ Verdicts'
  <2>1. state # "EXPECT_CHUNK_SIZE"
    BY <1>1, Parts DEF InBody, InChunks
  <2> QED
    BY <1>1, <2>1, QuietHeard DEF Outcome, QuietCode
<1>2. CASE ExpectVersionStaticStr(buf, i, n)
  <2>1. Outcome(buf, i, state, "EXPECT_VERSION", "skip")
    BY <1>2, LiteralsAssumption, LiteralTokenOutcome DEF ExpectVersionStaticStr
  <2> QED
    BY <1>1, <1>2, <2>1 DEF ExpectVersionStaticStr, BeforeVersion
<1>3. CASE ExpectSpAfterVersion(buf, i, n)
  <2>1. Outcome(buf, i, state, "EXPECT_STATUS_CODE", "skip")
    BY <1>3, ByteTokenOutcome DEF ExpectSpAfterVersion
  <2> QED
    BY <1>1, <1>3, <2>1, Parts DEF ExpectSpAfterVersion, InStatusLine
<1>4. CASE ExpectStatusCode(buf, i, n)
  <2>1. /\ state = "EXPECT_STATUS_CODE" /\ UNCHANGED framing
        /\ \/ state' = state /\ code_' = INSUFFICIENT
           \/ state' = "EXPECT_SP_AFTER_STATUS_CODE" /\ code_' = "status_code"
           \/ state' = "ERRORED" /\ code_' = "error_invalid_data"
    BY <1>4 DEF ExpectStatusCode, Suspend, Fail, Emit
  <2> QED
    BY <2>1, Parts, QuietHeard DEF InStatusLine, QuietCode
<1>5. CASE ExpectSpAfterStatusCode(buf, i, n)
  <2>1. state = "EXPECT_SP_AFTER_STATUS_CODE" /\ UNCHANGED framing /\ state \in InStatusLine
    BY <1>5 DEF ExpectSpAfterStatusCode, InStatusLine
  <2>2. CASE body_type = "UNKNOWN_BODY" /\ Fail("error_set_method", n)
    <3>1. KindSeen
      BY <2>1, Parts DEF Heard
    <3>2. seen' = seen => RefusalIsJustified'
      BY <2>2, <3>1 DEF Fail, Emit, KindSeen, RefusalIsJustified
    <3>3. code_' \in ErrorCode /\ state' = "ERRORED"
      BY <2>2 DEF Fail, Emit, ErrorCode
    <3> QED
      BY <3>2, <3>3, RefusedHeard
  <2>3. CASE ByteToken({SP}, buf, i, n, "EXPECT_REASON_PHRASE", "skip")
    <3>1. Outcome(buf, i, state, "EXPECT_REASON_PHRASE", "skip")
      BY <2>3, ByteTokenOutcome
    <3> QED
      BY <1>1, <2>1, <3>1, Parts DEF InStatusLine, AfterStatusCode
  <2> QED
    BY <1>5, <2>2, <2>3 DEF ExpectSpAfterStatusCode
<1>6. CASE ExpectReasonPhrase(buf, i, n)
  <2>1. /\ state = "EXPECT_REASON_PHRASE" /\ UNCHANGED framing
        /\ \/ state' = state /\ code_' = INSUFFICIENT
           \/ state' = "EXPECT_CRLF_AFTER_REASON_PHRASE" /\ code_' = "reason_phrase"
    BY <1>6 DEF ExpectReasonPhrase, RescanToken, Suspend, Emit
  <2> QED
    BY <2>1, Parts, QuietHeard DEF InStatusLine, AfterStatusCode, QuietCode
<1>7. CASE ExpectCrlfAfterReasonPhrase(buf, i, n)
  <2>1. Outcome(buf, i, state, "EXPECT_FIELD_NAME", "skip")
    BY <1>7, LiberalCrlfOutcome DEF ExpectCrlfAfterReasonPhrase
  <2> QED
    BY <1>1, <1>7, <2>1
    DEF ExpectCrlfAfterReasonPhrase, InStatusLine, AfterStatusCode, AfterVersion, InHeaders
<1> QED
  BY <1>2, <1>3, <1>4, <1>5, <1>6, <1>7

-----------------------------------------------------------------------------
(* The header fields. *)

(* The reader and the consumer take a field name for the same field. *)
LEMMA NameIs ==
    ASSUME NEW name
    PROVE  /\ iequals(name, TransferEncodingName) <=> NameOf(name) = "Transfer-Encoding"
           /\ iequals(name, ContentLength) <=> NameOf(name) = "Content-Length"
           /\ NameOf(name) \in {"Transfer-Encoding", "Content-Length", "other"}
<1>1. ~(iequals(name, TransferEncodingName) /\ iequals(name, ContentLength))
  BY SameName, LiteralsAssumption
<1> QED
  BY <1>1 DEF NameOf

(* A field name. *)
LEMMA FieldNameHeard ==
    ASSUME IInv, Heard, Look(TRUE), state = "EXPECT_FIELD_NAME", UNCHANGED connection_flags,
           NEW name, NEW size, FieldName(name, size), TokenBytes' = name
    PROVE  Heard' /\ Verdicts'
<1>1. /\ state \in AfterVersion /\ state \in InHeaders /\ state # "ERRORED"
      /\ "EXPECT_COLON" \in InHeaders /\ "field_name" \notin ErrorCode
      /\ {"error_invalid_transfer_encoding", "error_invalid_content_length"} \subseteq ErrorCode
  BY DEF AfterVersion, InHeaders, InField, ErrorCode
<1>2. VersionSeen /\ KindSeen /\ FieldsSeen /\ seen.left = 0 /\ seen \in Seen
  BY <1>1 DEF Heard, SeenOK
<1>3. /\ body_type \in {"CONNECTION_DELIMITED"} \cup Forced \cup (FieldBodyType \ Reading)
      /\ body_size \in Uint
      /\ body_type \in {"CHUNKED_ENCODING_READ", "RANDOM_ENCODING_READ"} => ~seen.http10
  BY <1>1, <1>2
  DEF IInv, ReaderOK, BodyType, FramingConsistent, FramingSuits, OwnSuits, BodySuits, InField,
      VersionSeen
<1>4. CASE body_type \in Forced /\ OtherField(size)
  <2>1. seen.kind # "fields"
    BY <1>2, <1>4 DEF KindSeen, Forced
  <2>2. seen' = Learn("field_name", name)
    BY <1>1, <1>4 DEF Look, OtherField, Emit
  <2>3. seen' = seen
    BY <2>1, <2>2, Learns
  <2>4. SeenOK' /\ VersionSeen' /\ KindSeen' /\ FieldsSeen' /\ seen'.left = 0
    BY <1>2, <1>4, <2>3
    DEF SeenOK, VersionSeen, KindSeen, FieldsSeen, OtherField, framing
  <2> QED
    BY <1>1, <1>4, <2>4, FieldsHeard DEF OtherField, Emit
<1>5. ASSUME body_type \notin Forced, Emit("EXPECT_COLON", "field_name", size),
             \/ /\ body_type' = body_type /\ body_size' = body_size
                /\ NameOf(name) # "Content-Length"
                /\ NameOf(name) = "Transfer-Encoding" => seen.http10
             \/ /\ NameOf(name) = "Transfer-Encoding" /\ body_type' = "READING_ENCODING"
                /\ body_type \in {"CONNECTION_DELIMITED", "CONTENT_LENGTH_READ",
                                  "RANDOM_ENCODING_READ"}
             \/ /\ NameOf(name) = "Content-Length"
                /\ \/ body_type = "CONNECTION_DELIMITED" /\ body_type' = "READING_CONTENT_LENGTH"
                   \/ /\ body_type \in {"CHUNKED_ENCODING_READ", "RANDOM_ENCODING_READ"}
                      /\ body_type' = body_type
      PROVE  Heard' /\ Verdicts'
  <2>1. state' = "EXPECT_COLON" /\ code_' = "field_name"
    BY <1>5 DEF Emit
  <2>2. seen.kind = "fields"
    BY <1>2, <1>3, <1>5 DEF KindSeen
  <2>3. seen' = [seen EXCEPT !.name = NameOf(name)]
    <3>1. seen' = Learn("field_name", name)
      BY <1>1, <2>1 DEF Look
    <3> QED
      BY <2>2, <3>1, Learns
  <2>4. /\ seen' \in Seen /\ seen'.name = NameOf(name) /\ seen'.kind = "fields"
        /\ seen'.http10 = seen.http10 /\ seen'.te = seen.te /\ seen'.cl = seen.cl
        /\ seen'.left = 0
    BY <1>2, <2>2, <2>3, NameIs DEF Seen
  <2>5. VersionSeen'
    BY <1>2, <2>4 DEF VersionSeen
  <2>6. KindSeen'
    BY <1>3, <1>5, <2>4 DEF KindSeen, FieldBodyType, Forced, Reading
  <2>7. FieldsSeen'
    BY <1>2, <1>3, <1>5, <2>4 DEF FieldsSeen, FieldBodyType, Forced, Reading
  <2> QED
    BY <1>1, <2>1, <2>4, <2>5, <2>6, <2>7, FieldsHeard DEF SeenOK
<1>6. CASE /\ body_type \notin Forced /\ iequals(name, TransferEncodingName)
           /\ "HTTP_1_0" \notin connection_flags
           /\ TransferEncodingField(size, "CONNECTION_DELIMITED")
  <2>1. CASE /\ body_type = "CHUNKED_ENCODING_READ"
             /\ Fail("error_invalid_transfer_encoding", size)
    <3>1. seen' = seen => RefusalIsJustified'
      BY <1>2, <1>3, <1>6, <2>1, NameIs
      DEF Fail, Emit, FieldsSeen, KindSeen, FieldBodyType, RefusalIsJustified
    <3> QED
      BY <1>1, <2>1, <3>1, RefusedHeard DEF Fail, Emit
  <2>2. CASE body_type \in {"CONNECTION_DELIMITED", "CONTENT_LENGTH_READ",
                            "RANDOM_ENCODING_READ"}
    BY <1>5, <1>6, <2>2, NameIs DEF TransferEncodingField
  <2> QED
    BY <1>6, <2>1, <2>2 DEF TransferEncodingField
<1>7. CASE /\ body_type \notin Forced /\ iequals(name, ContentLength)
           /\ ContentLengthField(size, "CONNECTION_DELIMITED")
  <2>1. CASE /\ body_type = "CONTENT_LENGTH_READ"
             /\ Fail("error_invalid_content_length", size)
    <3>1. seen' = seen => RefusalIsJustified'
      BY <1>2, <1>3, <1>7, <2>1, NameIs, NoneIsNoLength
      DEF Fail, Emit, FieldsSeen, KindSeen, FieldBodyType, RefusalIsJustified
    <3> QED
      BY <1>1, <2>1, <3>1, RefusedHeard DEF Fail, Emit
  <2>2. CASE body_type \in {"CONNECTION_DELIMITED", "CHUNKED_ENCODING_READ",
                            "RANDOM_ENCODING_READ"}
    BY <1>5, <1>7, <2>2, NameIs DEF ContentLengthField
  <2> QED
    BY <1>7, <2>1, <2>2 DEF ContentLengthField
<1>8. CASE /\ body_type \notin Forced /\ ~iequals(name, ContentLength)
           /\ ~(iequals(name, TransferEncodingName) /\ "HTTP_1_0" \notin connection_flags)
           /\ OtherField(size)
  <2>1. NameOf(name) # "Content-Length"
    BY <1>8, NameIs
  <2>2. NameOf(name) = "Transfer-Encoding" => seen.http10
    BY <1>2, <1>8, NameIs DEF VersionSeen
  <2> QED
    BY <1>5, <1>8, <2>1, <2>2 DEF OtherField, framing
<1> QED
  BY <1>4, <1>6, <1>7, <1>8 DEF FieldName

(* The token is known from where it was read. *)
LEMMA TokenRead ==
    ASSUME IInv', NEW buf \in Seq(Byte), NEW i \in Nat, ibuffer' = buf, idx' = i
    PROVE  /\ TokenBytes' = View(buf, i, i + token_size_')
           /\ TokenBytes' \in Seq(Byte) /\ Len(TokenBytes') = token_size_'
<1>1. TokenBytes' = View(buf, i, i + token_size_')
  BY DEF TokenBytes
<1>2. token_size_' \in Nat /\ i + token_size_' <= Len(buf) /\ Len(buf) \in Nat
  BY DEF IInv, ReaderOK, TokenInsideBuffer
<1>3. i + token_size_' \in i..Len(buf) /\ (i + token_size_') - i = token_size_'
  BY <1>2, EndsInside
<1> QED
  BY <1>1, <1>3, ViewIsView

(* A field from its colon to its line end. *)
LEMMA FieldHeard ==
    ASSUME IInv, IInv', Heard, Look(TRUE), NEW buf \in Seq(Byte), NEW i \in Nat, NEW n \in Nat,
           ibuffer' = buf, idx' = i, i + n <= Len(buf), i # Len(buf),
           FieldCase(buf, i, n), UNCHANGED connection_flags
    PROVE  Heard' /\ Verdicts'
<1>1. body_size \in Uint /\ body_type \in BodyType /\ body_size' \in Int
  BY UintMaxAssumption DEF IInv, ReaderOK, Uint
<1>2. state \in InHeaders
  BY <1>1, FieldTaken
<1>3. /\ state \in AfterVersion /\ state # "ERRORED" /\ state # "EXPECT_CHUNK_SIZE"
  BY <1>2 DEF AfterVersion, InHeaders, InField
<1>4. VersionSeen /\ KindSeen /\ FieldsSeen /\ seen.left = 0 /\ seen \in Seen
  BY <1>3 DEF Heard, SeenOK
<1>5. CASE /\ code_' \in {INSUFFICIENT, "skip", "error_invalid_data"}
           /\ state' \in InHeaders \cup {"ERRORED"} /\ UNCHANGED framing
  BY <1>2, <1>3, <1>5, QuietHeard DEF QuietCode
<1>6. body_type \in {"READING_ENCODING", "CHUNKED_ENCODING_READ", "RANDOM_ENCODING_READ"}
        => ~seen.http10
  BY <1>4 DEF IInv, FramingConsistent, FramingSuits, OwnSuits, VersionSeen
<1>7. CASE /\ state' = "ERRORED"
           /\ ValueRefused(decode_field_value(View(buf, i, i + token_size_')))
  <2>0. ValueRefused(decode_field_value(TokenBytes'))
    BY <1>7, TokenRead
  <2>1. seen' = seen => RefusalIsJustified'
    BY <1>4, <1>6, <2>0
    DEF ValueRefused, KindSeen, FieldsSeen, FieldBodyType, Reading, RefusalIsJustified,
        LengthOf, CodingsOf
  <2>2. code_' \in ErrorCode
    BY <1>7 DEF ValueRefused, ErrorCode
  <2> QED
    BY <1>7, <2>1, <2>2, RefusedHeard
<1>8. CASE /\ state' = "EXPECT_CRLF_AFTER_FIELD_VALUE" /\ code_' = "field_value"
           /\ ValueTaken(decode_field_value(View(buf, i, i + token_size_')))
  <2> DEFINE value == decode_field_value(TokenBytes')
  <2>1. ValueTaken(value) /\ value \in Seq(Byte)
    BY <1>8, TokenRead, FieldValueIsView
  <2>2. seen' = IF seen.name = "Transfer-Encoding" /\ ~seen.http10
                THEN [seen EXCEPT !.te = MergeCodings(@, value), !.name = "none"]
                ELSE IF seen.name = "Content-Length"
                THEN [seen EXCEPT !.cl = MergeLengths(@, value), !.name = "none"]
                ELSE [seen EXCEPT !.name = "none"]
    <3>1. seen' = Learn("field_value", TokenBytes')
      BY <1>3, <1>8 DEF Look, ErrorCode
    <3> QED
      BY <3>1, Learns
  <2> HIDE DEF value
  <2>3. /\ seen' \in Seen /\ seen'.name = "none" /\ seen'.kind = seen.kind
        /\ seen'.http10 = seen.http10 /\ seen'.left = seen.left
        /\ seen'.te = IF seen.name = "Transfer-Encoding" /\ ~seen.http10
                      THEN MergeCodings(seen.te, value) ELSE seen.te
        /\ seen'.cl = IF seen.name = "Content-Length" THEN MergeLengths(seen.cl, value)
                      ELSE seen.cl
    <3>1. /\ MergeCodings(seen.te, value) \in {"other", "chunked", "bad"}
          /\ MergeLengths(seen.cl, value) \in Int
      BY <2>1, CodingIs, LengthIsInt
    <3>2. CASE seen.name = "Transfer-Encoding" /\ ~seen.http10
      BY <1>4, <2>2, <3>1, <3>2 DEF Seen
    <3>3. CASE seen.name = "Content-Length"
      BY <1>4, <2>2, <3>1, <3>3 DEF Seen
    <3>4. CASE ~(seen.name = "Transfer-Encoding" /\ ~seen.http10)
               /\ seen.name # "Content-Length"
      BY <1>4, <2>2, <3>4 DEF Seen
    <3> QED
      BY <3>2, <3>3, <3>4
  <2>4. VersionSeen'
    BY <1>4, <2>3 DEF VersionSeen
  <2>5. KindSeen' /\ FieldsSeen'
    <3>1. CASE body_type = "READING_CONTENT_LENGTH"
      BY <1>4, <2>1, <2>3, <3>1
      DEF ValueTaken, KindSeen, FieldsSeen, Forced, FieldBodyType, Reading
    <3>2. CASE body_type = "READING_ENCODING"
      BY <1>4, <1>6, <2>1, <2>3, <3>2
      DEF ValueTaken, KindSeen, FieldsSeen, Forced, FieldBodyType, Reading
    <3>3. CASE body_type \notin Reading
      <4>1. body_type' = body_type /\ body_size' = body_size
        BY <2>1, <3>3 DEF ValueTaken, Reading, framing
      <4>2. seen'.te = seen.te
        BY <1>1, <1>4, <2>3, <3>3 DEF FieldsSeen, BodyType, FieldBodyType, Forced
      <4>3. KindSeen'
        BY <1>4, <2>3, <4>1 DEF KindSeen
      <4> QED
        BY <1>4, <2>3, <3>3, <4>1, <4>2, <4>3 DEF FieldsSeen, Reading, Forced
    <3> QED
      BY <3>1, <3>2, <3>3 DEF Reading
  <2>6. state' \in InHeaders
    BY <1>8 DEF InHeaders
  <2> QED
    BY <1>4, <1>8, <2>3, <2>4, <2>5, <2>6, FieldsHeard DEF SeenOK
<1> QED
  BY <1>1, <1>5, <1>7, <1>8, FieldTaken

(* The empty line. *)
LEMMA ResolvedIs ==
    ASSUME KindSeen, FieldsSeen, body_size \in Uint
    PROVE  /\ body_type = "FORCE_NO_BODY" => Resolved = "none"
           /\ body_type = "FORCE_NO_BODY_AND_STOP" => Resolved = "tunnel"
           /\ body_type \in {"RANDOM_ENCODING_READ", "CONNECTION_DELIMITED"} =>
                 Resolved = "close"
           /\ body_type = "CHUNKED_ENCODING_READ" => Resolved = "chunked"
           /\ body_type = "CONTENT_LENGTH_READ" => Resolved = "length" /\ seen.cl = body_size
<1>1. CASE body_type \in Forced
  BY <1>1 DEF Resolved, KindSeen, Forced
<1>2. CASE body_type \in {"CONNECTION_DELIMITED"} \cup (FieldBodyType \ Reading)
  <2>1. seen.kind = "fields" /\ NONE \notin 0..UintMax
    BY <1>2, UintMaxAssumption DEF KindSeen, NONE
  <2>2. CASE body_type = "CONTENT_LENGTH_READ"
    <3>1. seen.te = "absent" /\ seen.cl = body_size /\ seen.cl \in 0..UintMax
      BY <2>2 DEF FieldsSeen, Uint
    <3> QED
      BY <2>1, <2>2, <3>1 DEF Resolved
  <2>3. CASE body_type # "CONTENT_LENGTH_READ"
    BY <1>2, <2>1, <2>3 DEF Resolved, FieldsSeen, FieldBodyType, Reading, Forced
  <2> QED
    BY <2>2, <2>3
<1> QED
  BY <1>1, <1>2 DEF Forced, FieldBodyType, Reading

LEMMA HeadersEndHeard ==
    ASSUME IInv, Heard, Look(TRUE), NEW buf, NEW i, NEW n, CrlfAfterHeaders(buf, i, n),
           UNCHANGED connection_flags,
           state \in {"EXPECT_FIELD_NAME", "EXPECT_CRLF_AFTER_HEADERS"}
    PROVE  Heard' /\ Verdicts'
<1>1. /\ state \in AfterVersion /\ state \in InHeaders /\ state # "ERRORED"
      /\ "EXPECT_CRLF_AFTER_HEADERS" \in InHeaders /\ "end_of_headers" \notin ErrorCode
  BY DEF AfterVersion, InHeaders, ErrorCode
<1>2. VersionSeen /\ KindSeen /\ FieldsSeen /\ seen.left = 0 /\ seen \in Seen
  BY <1>1 DEF Heard, SeenOK
<1>3. body_size' = body_size /\ body_size \in Uint /\ body_size \in Nat
  BY UintMaxAssumption DEF CrlfAfterHeaders, IInv, ReaderOK, Uint
<1>4. CASE /\ Suspend("EXPECT_CRLF_AFTER_HEADERS", n) \/ Fail("error_invalid_data", n)
           /\ UNCHANGED body_type
  BY <1>1, <1>3, <1>4, QuietHeard DEF Suspend, Fail, Emit, QuietCode, framing
<1>5. ASSUME code_' = "end_of_headers",
             \/ /\ state' = "EXPECT_UNSAFE_BODY"
                /\ body_type \in {"RANDOM_ENCODING_READ", "CONNECTION_DELIMITED"}
             \/ /\ state' = "EXPECT_END_OF_BODY" /\ body_type' = body_type
                /\ body_type \in Forced \/ (body_type = "CONTENT_LENGTH_READ" /\ body_size = 0)
             \/ state' = "EXPECT_CHUNK_SIZE" /\ body_type = "CHUNKED_ENCODING_READ"
             \/ /\ state' = "EXPECT_BODY"
                /\ body_type = "CONTENT_LENGTH_READ" /\ body_size # 0
      PROVE  Heard' /\ Verdicts'
  <2> DEFINE left == IF Resolved = "length" THEN seen.cl ELSE 0
  <2>1. seen' = [Fresh EXCEPT !.http10 = seen.http10, !.kind = Resolved, !.left = left]
    <3>1. seen' = Learn("end_of_headers", TokenBytes')
      BY <1>1, <1>5 DEF Look
    <3> QED
      BY <3>1, Learns
  <2>2. \/ state' = "EXPECT_UNSAFE_BODY" /\ Resolved = "close" /\ left = 0
        \/ /\ state' = "EXPECT_END_OF_BODY" /\ Resolved = "none" /\ left = 0
           /\ body_type' = "FORCE_NO_BODY"
        \/ /\ state' = "EXPECT_END_OF_BODY" /\ Resolved = "tunnel" /\ left = 0
           /\ body_type' = "FORCE_NO_BODY_AND_STOP"
        \/ /\ state' = "EXPECT_END_OF_BODY" /\ Resolved = "length" /\ left = 0
           /\ body_type' = "CONTENT_LENGTH_READ"
        \/ state' = "EXPECT_CHUNK_SIZE" /\ Resolved = "chunked" /\ left = 0
        \/ /\ state' = "EXPECT_BODY" /\ Resolved = "length" /\ left = body_size'
           /\ left > 0
    BY <1>2, <1>3, <1>5, ResolvedIs DEF Forced
  <2> HIDE DEF left
  <2>3. /\ Resolved \in {"none", "tunnel", "close", "length", "chunked"} /\ left \in Nat
    BY <1>3, <2>2
  <2>4. /\ seen' \in Seen /\ seen'.left = left /\ seen'.http10 = seen.http10
        /\ seen'.kind = Resolved
    <3>1. Fresh \in Seen /\ seen.http10 \in BOOLEAN
      BY <1>2, FreshIs DEF Seen
    <3> QED
      BY <2>1, <2>3, <3>1 DEF Seen
  <2>5. BodySeen'
    BY <2>2, <2>4 DEF BodySeen, InChunks, InTrailers, InData, InChunkLine, AfterData
  <2>6. Heard'
    <3>1. state' \in InBody
      BY <2>2 DEF InBody, InChunks
    <3> QED
      BY <1>2, <2>4, <2>5, <3>1, Parts DEF Heard, SeenOK, VersionSeen
  <2>7. FramingFollowsFields'
    <3>1. CASE seen'.kind \in {"none", "tunnel", "chunked", "close"}
      BY <2>2, <2>4, <3>1 DEF FramingFollowsFields
    <3>2. CASE seen'.kind = "length" /\ seen'.left = 0
      BY <2>2, <2>4, <3>2 DEF FramingFollowsFields
    <3>3. CASE seen'.kind = "length" /\ seen'.left > 0
      BY <2>2, <2>4, <3>3 DEF FramingFollowsFields
    <3> QED
      BY <2>3, <2>4, <3>1, <3>2, <3>3
  <2>8. seen'.left >= 0
    BY <2>3, <2>4
  <2> QED
    BY <1>5, <2>6, <2>7, <2>8
    DEF Verdicts, BodyIsComplete, ConnectionIsReused, RefusalIsJustified
<1>6. ASSUME NEW size, EndOfHeaders(size) PROVE Heard' /\ Verdicts'
  <2>1. code_' = "end_of_headers"
    BY <1>6 DEF EndOfHeaders, Emit
  <2>2. \/ /\ state' = "EXPECT_UNSAFE_BODY"
           /\ body_type \in {"RANDOM_ENCODING_READ", "CONNECTION_DELIMITED"}
        \/ /\ state' = "EXPECT_END_OF_BODY" /\ body_type' = body_type
           /\ body_type \in Forced \/ (body_type = "CONTENT_LENGTH_READ" /\ body_size = 0)
        \/ state' = "EXPECT_CHUNK_SIZE" /\ body_type = "CHUNKED_ENCODING_READ"
        \/ /\ state' = "EXPECT_BODY"
           /\ body_type = "CONTENT_LENGTH_READ" /\ body_size # 0
    BY <1>6 DEF EndOfHeaders, Emit
  <2> QED
    BY <1>5, <2>1, <2>2
<1> QED
  BY <1>4, <1>6 DEF CrlfAfterHeaders

-----------------------------------------------------------------------------
(* The body: the reader counts down what the consumer does. *)
LEMMA BodyHeard ==
    ASSUME IInv, Heard, Look(TRUE), state \in InChunks \cup InTrailers \cup {"EXPECT_BODY"},
           UNCHANGED connection_flags, MessageStep("EXPECT_VERSION_STATIC_STR"),
           Len(TokenBytes') = token_size_', state' = "ERRORED" => code_' \in QuietCode,
           state = "EXPECT_BODY" => body_type' = "CONTENT_LENGTH_READ",
           /\ state = "EXPECT_CHUNK_SIZE" /\ code_' = "skip" =>
                 body_size' = Number(TokenBytes', HexValue, 16) /\ body_size' \in Nat
    PROVE  Heard' /\ Verdicts'
<1>1. /\ state # "ERRORED" /\ state \in InBody
      /\ {"skip", "body_chunk", "end_of_body", "end_of_message"} \cap ErrorCode = {}
  BY Parts DEF ErrorCode, InBody
<1>2. SeenOK /\ VersionSeen /\ BodySeen
  BY DEF Heard
<1>3. ASSUME SeenOK', seen'.http10 = seen.http10, BodySeen',
             state' \in InBody \cup BeforeVersion
      PROVE  Heard'
  BY <1>2, <1>3, Parts DEF Heard, VersionSeen
<1>4. CASE WaitStep
  <2>1. seen' = seen /\ body_size' = body_size /\ code_' \in QuietCode
    BY <1>4, QuietSeen DEF WaitStep, QuietCode
  <2>2. \/ state' = state
        \/ state \in InChunkLine /\ state' \in InChunkLine
        \/ state \in InTrailers /\ state' \in InTrailers
    BY <1>4 DEF WaitStep, WaitEdge, InTrailers, InChunkLine, InChunks
  <2>3. BodySeen'
    BY <1>2, <2>1, <2>2 DEF BodySeen, InChunks, InTrailers, InChunkLine, InData, AfterData
  <2>4. state' \in InBody
    BY <1>1, <2>2 DEF InBody, InChunkLine, InChunks
  <2> QED
    BY <1>2, <1>3, <2>1, <2>3, <2>4, QuietVerdicts DEF SeenOK
<1>5. CASE ErrorStep
  <2>1. state' = "ERRORED" /\ code_' \in QuietCode /\ seen' = seen
    BY <1>5, QuietSeen DEF ErrorStep
  <2>2. BodySeen'
    BY <2>1, Parts DEF BodySeen, InBody
  <2>3. Heard'
    BY <1>2, <2>1, <2>2, Parts DEF Heard, SeenOK, VersionSeen
  <2> QED
    BY <2>1, <2>3, QuietVerdicts
<1>6. CASE SkipStep \/ ValueStep
  <2>1. /\ code_' \in QuietCode \cup {"skip"} /\ state # "EXPECT_CHUNK_SIZE"
        /\ \/ /\ state = "EXPECT_CRLF_AFTER_CHUNK_DATA" /\ state' = "EXPECT_CHUNK_SIZE"
           \/ state \in InTrailers /\ state' \in InTrailers
    BY <1>6
    DEF SkipStep, SkipEdge, ValueStep, QuietCode, InTrailers, InChunks
  <2>2. seen' = seen
    BY <2>1, QuietSeen
  <2>3. BodySeen'
    BY <1>2, <2>1, <2>2 DEF BodySeen, InChunks, InTrailers, InChunkLine, InData, AfterData
  <2>4. state' \in InBody
    BY <2>1 DEF InBody, InChunks
  <2> QED
    BY <1>2, <1>3, <2>1, <2>2, <2>3, <2>4, QuietVerdicts DEF SeenOK
<1>7. CASE DataStep
  <2>1. /\ state \in InData /\ seen.left = body_size /\ token_size_' \in 1..body_size
        /\ body_size \in Nat /\ body_size' = body_size - token_size_'
    <3>1. /\ state \in InData /\ token_size_' \in 1..body_size
          /\ body_size' = body_size - token_size_'
      BY <1>7 DEF DataStep, InData
    <3>2. body_size \in Nat
      BY UintMaxAssumption DEF IInv, ReaderOK, Uint
    <3> QED
      BY <1>2, <3>1, <3>2 DEF BodySeen
  <2>2. body_size' \in Nat
    BY <2>1, RestIsNat
  <2>3. \/ state = "EXPECT_BODY" /\ seen.kind = "length"
        \/ state = "EXPECT_CHUNK_DATA" /\ seen.kind = "chunked"
    BY <1>2, <1>7 DEF DataStep, BodySeen, InChunks
  <2>4. seen' = [seen EXCEPT !.left = body_size']
    <3>1. seen' = Learn("body_chunk", TokenBytes')
      BY <1>1, <1>7 DEF Look, DataStep
    <3>2. seen' = [seen EXCEPT !.left = @ - Len(TokenBytes')]
      BY <2>3, <3>1, Learns
    <3> QED
      BY <2>1, <3>2
  <2>5. /\ SeenOK' /\ seen'.left = body_size' /\ seen'.kind = seen.kind
        /\ seen'.http10 = seen.http10
    BY <1>2, <2>2, <2>4 DEF SeenOK, Seen
  <2>6. /\ code_' = "body_chunk"
        /\ \/ state = "EXPECT_BODY" /\ state' = "EXPECT_END_OF_BODY" /\ body_size' = 0
           \/ state = "EXPECT_CHUNK_DATA" /\ state' = "EXPECT_CRLF_AFTER_CHUNK_DATA"
              /\ body_size' = 0
           \/ state' = state
    BY <1>7 DEF DataStep
  <2>7. BodySeen'
    BY <2>3, <2>5, <2>6 DEF BodySeen, InChunks, InTrailers, InChunkLine, InData, AfterData
  <2>8. state' \in InBody
    BY <1>1, <2>6 DEF InBody, InChunks
  <2> QED
    BY <1>3, <2>5, <2>6, <2>7, <2>8, QuietVerdicts
<1>8. CASE ChunkLineStep
  <2>1. CASE state = "EXPECT_CHUNK_SIZE" /\ code_' = "skip" /\ state' = "EXPECT_CHUNK_EXT"
    <3>1. /\ seen' = Learn("skip", TokenBytes') /\ body_size' \in Nat
          /\ body_size' = Number(TokenBytes', HexValue, 16)
      BY <1>1, <2>1 DEF Look
    <3>2. seen' = [seen EXCEPT !.left = body_size', !.final = (body_size' = 0)]
      <4>1. seen.left = 0
        BY <1>2, <2>1 DEF BodySeen, AfterData
      <4>2. seen.left + Number(TokenBytes', HexValue, 16) = body_size'
        BY <3>1, <4>1
      <4>3. seen' = [seen EXCEPT !.left = seen.left + Number(TokenBytes', HexValue, 16),
                                 !.final = (Number(TokenBytes', HexValue, 16) = 0)]
        BY <2>1, <3>1, Learns
      <4> QED
        BY ONLY <3>1, <4>2, <4>3
    <3>3. seen.kind = "chunked"
      BY <1>2, <2>1 DEF BodySeen, InChunks
    <3>4. /\ SeenOK' /\ seen'.left = body_size' /\ seen'.kind = "chunked"
          /\ seen'.http10 = seen.http10 /\ (seen'.final <=> body_size' = 0)
      BY <1>2, <3>1, <3>2, <3>3 DEF SeenOK, Seen
    <3>5. BodySeen' /\ state' \in InBody
      BY <2>1, <3>4
      DEF BodySeen, InBody, InChunks, InTrailers, InChunkLine, InData, AfterData
    <3> QED
      BY <1>3, <2>1, <3>4, <3>5, QuietVerdicts
  <2>2. CASE /\ code_' \in {"chunk_ext", "skip"} /\ body_size' = body_size
             /\ state \in InChunkLine
             /\ state' \in {"EXPECT_CHUNK_DATA", "EXPEXT_CRLF_AFTER_CHUNK_EXT"}
    <3>1. state # "EXPECT_CHUNK_SIZE"
      BY <2>2 DEF InChunkLine
    <3>2. seen' = seen
      BY <2>2, <3>1, QuietSeen DEF QuietCode
    <3>3. BodySeen' /\ state' \in InBody
      BY <1>2, <2>2, <3>2
      DEF BodySeen, InBody, InChunks, InTrailers, InChunkLine, InData, AfterData
    <3> QED
      BY <1>2, <1>3, <2>2, <3>2, <3>3, QuietVerdicts DEF SeenOK, QuietCode
  <2>3. CASE /\ code_' = "end_of_body" /\ body_size = 0 /\ body_size' = 0
             /\ state \in InChunkLine /\ state' = "EXPECT_TRAILER_NAME"
    <3>1. seen' = seen
      BY <2>3, QuietSeen
    <3>2. seen.left = 0 /\ seen.kind = "chunked" /\ seen.final
      BY <1>2, <2>3 DEF BodySeen, InData, InChunkLine, InChunks
    <3>3. BodySeen' /\ state' \in InBody
      BY <2>3, <3>1, <3>2
      DEF BodySeen, InBody, InChunks, InTrailers, InChunkLine, InData, AfterData
    <3>4. Heard'
      BY <1>2, <1>3, <3>1, <3>3 DEF SeenOK
    <3> QED
      BY <2>3, <3>1, <3>2, <3>4
      DEF Verdicts, FramingFollowsFields, BodyIsComplete, ConnectionIsReused,
          RefusalIsJustified
  <2> QED
    BY <1>8, <2>1, <2>2, <2>3 DEF ChunkLineStep, InChunkLine
<1>9. CASE LastStep("EXPECT_VERSION_STATIC_STR")
  <2>1. /\ code_' = "end_of_message" /\ state' = "EXPECT_VERSION_STATIC_STR"
        /\ state \in InTrailers /\ seen' = seen
    BY <1>9, QuietSeen DEF LastStep, InTrailers
  <2>2. seen.kind = "chunked" /\ ~seen.http10 /\ seen.left = 0
    BY <1>2, <2>1
    DEF BodySeen, VersionSeen, IInv, FramingConsistent, FramingSuits, OwnSuits, BodySuits,
        AfterData
  <2>3. BodySeen' /\ state' \in BeforeVersion
    BY <2>1, Parts DEF BodySeen, InBody, BeforeVersion
  <2>4. Heard'
    BY <1>2, <1>3, <2>1, <2>3 DEF SeenOK
  <2>5. expected_token' = "skip"
    BY <2>1 DEF expected_token
  <2> QED
    BY <2>1, <2>2, <2>4, <2>5
    DEF Verdicts, FramingFollowsFields, BodyIsComplete, ConnectionIsReused,
        RefusalIsJustified
<1> QED
  BY <1>4, <1>5, <1>6, <1>7, <1>8, <1>9 DEF MessageStep

LEMMA BodyCaseHeard ==
    ASSUME IInv, IInv', Heard, Look(TRUE), NEW buf \in Seq(Byte), NEW i \in Nat, NEW n \in Nat,
           ibuffer' = buf, idx' = i, i + n <= Len(buf), i # Len(buf), UNCHANGED connection_flags,
           \/ ExpectBody(buf, i, n)
           \/ ChunkCase(buf, i, n)
           \/ TrailerCase(buf, i, n, "EXPECT_VERSION_STATIC_STR", "UNKNOWN_BODY")
    PROVE  Heard' /\ Verdicts'
<1>1. body_size \in Uint /\ body_size' \in Nat /\ Suitable(state)
  BY UintMaxAssumption
  DEF IInv, ReaderOK, Uint, FramingConsistent, FramingSuits, Suitable
<1>2. MessageStep("EXPECT_VERSION_STATIC_STR")
  BY <1>1, BodyStep, ChunkStep, TrailerStep
<1>3. /\ TokenBytes' = View(buf, i, i + token_size_') /\ Len(TokenBytes') = token_size_'
  BY TokenRead
<1>4. state \in InChunks \cup InTrailers \cup {"EXPECT_BODY"}
  BY DEF ExpectBody, ChunkCase, TrailerCase, ExpectChunkSize, ExpectChunkExt,
         ExpectCrlfAfterChunkExt, ExpectChunkData, ExpectCrlfAfterChunkData,
         ExpectTrailerName, ExpectTrailerColon, ExpectOwsAfterTrailerColon,
         ExpectTrailerValue, ExpectCrlfAfterTrailerValue, ExpectCrlfAfterTrailers,
         InChunks, InTrailers
<1>5. state' = "ERRORED" => code_' \in QuietCode
  <2>1. code_' \in BodyCode
    BY BodyCodes
  <2>2. state' = "ERRORED" => code_' \in ErrorCode
    BY <1>2
    DEF MessageStep, WaitStep, ErrorStep, SkipStep, SkipEdge, ValueStep, DataStep,
        ChunkLineStep, LastStep, ErrorCode, INSUFFICIENT
  <2> QED
    BY <2>1, <2>2 DEF BodyCode, QuietCode, ErrorCode
<1>6. state = "EXPECT_CHUNK_SIZE" /\ code_' = "skip" =>
        body_size' = Number(TokenBytes', HexValue, 16) /\ body_size' \in Nat
  <2> SUFFICES ASSUME state = "EXPECT_CHUNK_SIZE", code_' = "skip"
               PROVE  body_size' = Number(TokenBytes', HexValue, 16)
    BY <1>1
  <2>1. ExpectChunkSize(buf, i, n)
    BY DEF ExpectBody, ChunkCase, TrailerCase, ExpectChunkExt,
         ExpectCrlfAfterChunkExt, ExpectChunkData, ExpectCrlfAfterChunkData,
         ExpectTrailerName, ExpectTrailerColon, ExpectOwsAfterTrailerColon,
         ExpectTrailerValue, ExpectCrlfAfterTrailerValue, ExpectCrlfAfterTrailers
  <2> QED
    BY <1>1, <1>3, <2>1, ChunkSizeTaken
<1>7. state = "EXPECT_BODY" => body_type' = "CONTENT_LENGTH_READ"
  <2> SUFFICES ASSUME state = "EXPECT_BODY" PROVE body_type' = "CONTENT_LENGTH_READ"
    OBVIOUS
  <2>1. ExpectBody(buf, i, n)
    BY DEF ExpectBody, ChunkCase, TrailerCase, ExpectChunkSize, ExpectChunkExt,
         ExpectCrlfAfterChunkExt, ExpectChunkData, ExpectCrlfAfterChunkData,
         ExpectTrailerName, ExpectTrailerColon, ExpectOwsAfterTrailerColon,
         ExpectTrailerValue, ExpectCrlfAfterTrailerValue, ExpectCrlfAfterTrailers
  <2> QED
    BY <1>1, <2>1, BodyReached
<1> QED
  BY <1>2, <1>3, <1>4, <1>5, <1>6, <1>7, BodyHeard

(* The body that ends with the connection has no length to count down. *)
LEMMA UnsafeBodyHeard ==
    ASSUME Heard, Look(TRUE), NEW buf, NEW i, NEW n, ExpectUnsafeBody(buf, i, n),
           UNCHANGED connection_flags
    PROVE  Heard' /\ Verdicts'
<1>1. /\ state = "EXPECT_UNSAFE_BODY" /\ state' = state /\ code_' = "body_chunk"
      /\ "body_chunk" \notin ErrorCode /\ UNCHANGED framing
  BY DEF ExpectUnsafeBody, Emit, ErrorCode
<1>2. seen.kind = "close"
  BY <1>1 DEF Heard, BodySeen
<1>3. seen' = Learn("body_chunk", TokenBytes')
  BY <1>1 DEF Look
<1>4. seen' = seen
  BY <1>2, <1>3, Learns
<1>5. SeenOK' /\ VersionSeen' /\ BodySeen'
  BY <1>1, <1>4 DEF Heard, SeenOK, VersionSeen, BodySeen, framing
<1>6. state' \in InBody
  BY <1>1 DEF InBody
<1>7. Heard'
  BY <1>5, <1>6, Parts DEF Heard
<1> QED
  BY <1>1, <1>7, QuietVerdicts

LEMMA FieldNameCaseHeard ==
    ASSUME IInv, IInv', Heard, Look(TRUE), NEW buf \in Seq(Byte), NEW i \in Nat, NEW n \in Nat,
           ibuffer' = buf, idx' = i, i + n <= Len(buf), i # Len(buf), UNCHANGED connection_flags,
           ExpectFieldName(buf, i, n) \/ ExpectCrlfAfterHeaders(buf, i, n)
    PROVE  Heard' /\ Verdicts'
<1>1. CASE /\ CrlfAfterHeaders(buf, i, n)
           /\ state \in {"EXPECT_FIELD_NAME", "EXPECT_CRLF_AFTER_HEADERS"}
  BY <1>1, HeadersEndHeard
<1>2. CASE ExpectFieldName(buf, i, n)
  <2>1. state = "EXPECT_FIELD_NAME"
    BY <1>2 DEF ExpectFieldName
  <2>2. PICK e \in i..Len(buf) :
          \/ CrlfAfterHeaders(buf, i, n)
          \/ Suspend(state, n) /\ UNCHANGED framing
          \/ FieldName(View(buf, i, e), e - i)
    BY <1>2 DEF ExpectFieldName
  <2>3. CASE Suspend(state, n) /\ UNCHANGED framing
    BY <2>1, <2>3, QuietHeard DEF Suspend, Emit, QuietCode
  <2>4. CASE FieldName(View(buf, i, e), e - i)
    <3>1. token_size_' = e - i
      BY <2>4
      DEF FieldName, TransferEncodingField, ContentLengthField, OtherField, Fail, Emit
    <3>2. i + (e - i) = e
      OBVIOUS
    <3>3. TokenBytes' = View(buf, i, e)
      BY <3>1, <3>2, TokenRead
    <3> QED
      BY <2>1, <2>4, <3>3, FieldNameHeard
  <2> QED
    BY <1>1, <2>1, <2>2, <2>3, <2>4
<1> QED
  BY <1>1, <1>2 DEF ExpectCrlfAfterHeaders

-----------------------------------------------------------------------------
(* There is nothing to read: the reader waits, or the connection has ended. *)
LEMMA ExhaustedHeard ==
    ASSUME IInv, Heard, NothingHeld', Look(TRUE), NEW buf \in Seq(Byte), NEW n,
           ibuffer' = buf, idx' = Len(buf), Exhausted(n), UNCHANGED connection_flags
    PROVE  Heard' /\ Verdicts'
<1>1. UNCHANGED framing
  BY DEF Exhausted
<1>2. CASE Suspend(state, n)
  BY <1>1, <1>2, QuietHeard DEF Suspend, Emit, QuietCode
<1>3. CASE Closed /\ Fail("error_use_another_connection", n)
  <2>1. state' = "ERRORED" /\ code_' = "error_use_another_connection" /\ Closed'
    BY <1>3 DEF Fail, Emit, Closed
  <2>2. RefusalIsJustified' /\ code_' \in ErrorCode
    BY <2>1 DEF RefusalIsJustified, ErrorCode
  <2> QED
    BY <2>1, <2>2, RefusedHeard
<1>4. CASE /\ Closed /\ state = "EXPECT_UNSAFE_BODY"
           /\ Emit("EXPECT_END_OF_MESSAGE", "end_of_body", 0)
  <2>1. /\ state' = "EXPECT_END_OF_MESSAGE" /\ code_' = "end_of_body" /\ seen' = seen
        /\ Closed'
    BY <1>4, QuietSeen DEF Emit, Closed
  <2>2. seen.kind = "close" /\ seen.left = 0 /\ body_type' = "FORCE_NO_BODY_AND_STOP"
    BY <1>1, <1>4
    DEF Heard, BodySeen, AfterData, IInv, FramingConsistent, FramingSuits, OwnSuits, framing
  <2>3. SeenOK' /\ VersionSeen'
    BY <2>1 DEF Heard, SeenOK, VersionSeen
  <2>4. BodySeen'
    BY <2>1, <2>2 DEF BodySeen, InChunks, InTrailers, InData, InChunkLine, AfterData
  <2>5. Heard'
    <3>1. state' \in InBody
      BY <2>1 DEF InBody
    <3> QED
      BY <2>3, <2>4, <3>1, Parts DEF Heard
  <2>6. Unread' = <<>> /\ (~ShrinkAfterEof => held' = <<>>)
    BY <2>1 DEF Unread, NothingHeld
  <2> QED
    BY <2>1, <2>2, <2>5, <2>6
    DEF Verdicts, FramingFollowsFields, BodyIsComplete, ConnectionIsReused,
        RefusalIsJustified
<1> QED
  BY <1>2, <1>3, <1>4 DEF Exhausted, Closed

(* The ends of a body, of a message and of the connection. *)
LEMMA EndHeard ==
    ASSUME IInv, Heard, Look(TRUE), UNCHANGED connection_flags,
           \/ EndOfBody
           \/ EndOfMessage
           \/ /\ state = "EXPECT_END_OF_CONNECTION_ERROR"
              /\ \E size : Fail("error_use_another_connection", size)
    PROVE  Heard' /\ Verdicts'
<1>1. SeenOK /\ VersionSeen /\ BodySeen
  BY DEF Heard
<1>2. CASE EndOfBody
  <2>1. /\ state = "EXPECT_END_OF_BODY" /\ state' = "EXPECT_END_OF_MESSAGE"
        /\ code_' = "end_of_body" /\ UNCHANGED framing /\ seen' = seen
    BY <1>2, QuietSeen DEF EndOfBody, Emit
  <2>2. seen.kind \in {"none", "tunnel", "length"} /\ seen.left = 0
        /\ (seen.kind \in {"tunnel", "close"} <=> body_type = "FORCE_NO_BODY_AND_STOP")
    BY <1>1, <2>1 DEF BodySeen, AfterData
  <2>3. BodySeen' /\ state' \in InBody
    BY <2>1, <2>2
    DEF BodySeen, InBody, InChunks, InTrailers, InData, InChunkLine, AfterData, framing
  <2>4. Heard'
    BY <1>1, <2>1, <2>3, Parts DEF Heard, SeenOK, VersionSeen
  <2> QED
    BY <2>1, <2>2, <2>4
    DEF Verdicts, FramingFollowsFields, BodyIsComplete, ConnectionIsReused,
        RefusalIsJustified
<1>3. CASE EndOfMessage
  <2> DEFINE over == body_type = "FORCE_NO_BODY_AND_STOP" \/ "HTTP_1_0" \in connection_flags
  <2>1. /\ state = "EXPECT_END_OF_MESSAGE" /\ code_' = "end_of_message" /\ seen' = seen
        /\ state' = IF over THEN "EXPECT_END_OF_CONNECTION_ERROR"
                    ELSE "EXPECT_VERSION_STATIC_STR"
    BY <1>3, QuietSeen DEF EndOfMessage, Emit
  <2>2. over <=> seen.http10 \/ seen.kind \in {"tunnel", "close"}
    BY <1>1, <2>1 DEF BodySeen, VersionSeen
  <2> HIDE DEF over
  <2>3. BodySeen'
    BY <2>1, <2>2
    DEF BodySeen, InChunks, InTrailers, InData, InChunkLine, AfterData
  <2>4. state' \in InBody \cup BeforeVersion
    BY <2>1 DEF InBody, BeforeVersion
  <2>5. Heard'
    BY <1>1, <2>1, <2>3, <2>4, Parts DEF Heard, SeenOK, VersionSeen
  <2>6. expected_token' = IF over THEN "error_use_another_connection" ELSE "skip"
    BY <2>1 DEF expected_token
  <2>7. ConnectionIsReused'
    BY <2>1, <2>2, <2>6 DEF ConnectionIsReused
  <2>8. seen'.left >= 0
    BY <2>5 DEF Heard, SeenOK, Seen
  <2> QED
    BY <2>1, <2>5, <2>7, <2>8
    DEF Verdicts, FramingFollowsFields, BodyIsComplete, RefusalIsJustified
<1>4. CASE /\ state = "EXPECT_END_OF_CONNECTION_ERROR"
           /\ \E size : Fail("error_use_another_connection", size)
  <2>1. state' = "ERRORED" /\ code_' = "error_use_another_connection"
    BY <1>4 DEF Fail, Emit
  <2>2. seen.http10 \/ seen.kind \in {"tunnel", "close"}
    BY <1>1, <1>4 DEF BodySeen
  <2>3. (seen' = seen => RefusalIsJustified') /\ code_' \in ErrorCode
    BY <2>1, <2>2 DEF RefusalIsJustified, ErrorCode
  <2> QED
    BY <2>1, <2>3, RefusedHeard
<1> QED
  BY <1>2, <1>3, <1>4

LEMMA NextOnHeard ==
    ASSUME IInv, IInv', Heard, Verdicts, NothingHeld', Look(TRUE),
           StreamInv, NEW buf \in Seq(Byte), NEW pos \in Nat, pos + token_size_ <= Len(buf),
           code_ = INSUFFICIENT \/ (buf = ibuffer /\ pos = idx), NextOn(buf, pos)
    PROVE  Heard' /\ Verdicts'
<1> DEFINE i == pos + Consumed
           n == token_size_ - Consumed
<1>1. i \in Nat /\ n \in Nat /\ i + n <= Len(buf) /\ ibuffer' = buf
  <2>1. Len(buf) \in Nat /\ token_size_ \in Nat
    BY DEF IInv, ReaderOK
  <2> QED
    BY <2>1 DEF Consumed, NextOn
<1>2. CASE /\ state = "ERRORED" /\ idx' = pos
           /\ UNCHANGED <<state, code_, token_size_, framing, connection_flags>>
  <2>1. seen' = seen
    BY <1>2 DEF Look
  <2>2. Heard'
    BY <1>2, <2>1, Parts DEF Heard, SeenOK, VersionSeen, BodySeen, InBody
  <2>3. code_ \in ErrorCode /\ "end_of_body" \notin ErrorCode
        /\ "end_of_message" \notin ErrorCode /\ "end_of_headers" \notin ErrorCode
    BY <1>2 DEF StreamInv, ErrorCode
  <2>4. CASE code_ = INSUFFICIENT
    BY <1>2, <2>2, <2>4, QuietVerdicts DEF QuietCode
  <2>5. CASE buf = ibuffer /\ pos = idx
    <3>1. TokenBytes' = TokenBytes
      BY <1>1, <1>2, <2>5 DEF TokenBytes
    <3> QED
      BY <1>2, <2>1, <2>2, <2>3, <3>1
      DEF Verdicts, FramingFollowsFields, BodyIsComplete, ConnectionIsReused,
          RefusalIsJustified, Closed
  <2> QED
    BY <2>4, <2>5
<1>3. CASE (EndOfBody \/ EndOfMessage) /\ UNCHANGED connection_flags
  BY <1>3, EndHeard
<1>4. CASE /\ state = "EXPECT_END_OF_CONNECTION_ERROR"
           /\ Fail("error_use_another_connection", token_size_)
           /\ UNCHANGED <<framing, connection_flags>>
  BY <1>4, EndHeard
<1>5. CASE idx' = i /\ i = Len(buf) /\ Exhausted(n) /\ UNCHANGED connection_flags
  BY <1>1, <1>5, ExhaustedHeard
<1>6. CASE idx' = i /\ i # Len(buf) /\ ReadToken(buf, i, n)
  <2> HIDE DEF i, n
  <2>1. CASE ExpectVersion(buf, i, n)
    BY <1>1, <1>6, <2>1, VersionHeard
  <2>2. CASE /\ \/ ExpectVersionStaticStr(buf, i, n)
                \/ ExpectSpAfterVersion(buf, i, n)
                \/ ExpectStatusCode(buf, i, n)
                \/ ExpectSpAfterStatusCode(buf, i, n)
                \/ ExpectReasonPhrase(buf, i, n)
                \/ ExpectCrlfAfterReasonPhrase(buf, i, n)
             /\ UNCHANGED connection_flags
    BY <1>1, <1>6, <2>2, StatusLineHeard
  <2>3. CASE /\ ExpectFieldName(buf, i, n) \/ ExpectCrlfAfterHeaders(buf, i, n)
             /\ UNCHANGED connection_flags
    BY <1>1, <1>6, <2>3, FieldNameCaseHeard
  <2>4. CASE ResponseField(buf, i, n) /\ UNCHANGED connection_flags
    BY <1>1, <1>6, <2>4, FieldHeard DEF ResponseField
  <2>5. CASE ExpectUnsafeBody(buf, i, n) /\ UNCHANGED connection_flags
    BY <2>5, UnsafeBodyHeard
  <2>6. CASE /\ \/ ExpectBody(buf, i, n)
                \/ ResponseChunks(buf, i, n)
                \/ ResponseTrailers(buf, i, n)
             /\ UNCHANGED connection_flags
    BY <1>1, <1>6, <2>6, BodyCaseHeard DEF ResponseChunks, ResponseTrailers
  <2> QED
    BY <1>6, <2>1, <2>2, <2>3, <2>4, <2>5, <2>6 DEF ReadToken, ResponseBody
<1> QED
  BY <1>2, <1>3, <1>4, <1>5, <1>6 DEF NextOn

-----------------------------------------------------------------------------
(* The caller's part: what a step does that reads no token. *)
LEMMA SameHeard ==
    ASSUME Heard, Verdicts, UNCHANGED <<state, code_, framing, seen>>,
           TokenBytes' = TokenBytes,
           "HTTP_1_0" \in connection_flags <=> "HTTP_1_0" \in connection_flags',
           Closed => Closed',
           Closed /\ Unread = <<>> /\ held = <<>> => Unread' = <<>> /\ held' = <<>>
    PROVE  Heard' /\ Verdicts'
<1>1. /\ SeenOK' /\ VersionSeen' /\ BodySeen'
      /\ (KindSeen <=> KindSeen') /\ (FieldsSeen <=> FieldsSeen')
  BY DEF Heard, SeenOK, VersionSeen, KindSeen, FieldsSeen, BodySeen, framing
<1>2. Heard'
  BY <1>1 DEF Heard
<1>3. expected_token' = expected_token
  BY DEF expected_token
<1>4. FramingFollowsFields'
  BY DEF Verdicts, FramingFollowsFields, framing
<1>5. ConnectionIsReused' /\ RefusalIsJustified'
  BY <1>3 DEF Verdicts, ConnectionIsReused, RefusalIsJustified
<1>6. ~ShrinkAfterEof => BodyIsComplete'
  BY DEF Verdicts, BodyIsComplete
<1> QED
  BY <1>2, <1>4, <1>5, <1>6 DEF Verdicts

(* next() never learns of the end of the connection. *)
LEMMA ClosedStays ==
    ASSUME NEW buf, NEW pos, NextOn(buf, pos) PROVE Closed' <=> Closed
BY DEF NextOn, ReadToken, ExpectVersion, Closed

LEMMA NextNothingHeld ==
    ASSUME IInv, NothingHeld, [Next]_vars PROVE NothingHeld'
<1> SUFFICES ASSUME Closed', ~ShrinkAfterEof PROVE held' = <<>>
  BY DEF NothingHeld
<1>1. CASE Receive
  BY <1>1 DEF Receive, reader, Closed
<1>2. CASE Feed
  <2> DEFINE bytes == Unread \o held
  <2>1. Len(bytes) \in Nat
    BY DEF IInv, ReaderOK, TokenInsideBuffer, Unread
  <2>2. PICK k \in token_size_..Len(bytes) :
          /\ Closed /\ ~ShrinkAfterEof => k = Len(bytes)
          /\ set_buffer(SubSeq(bytes, 1, k))
          /\ held' = SubSeq(bytes, k + 1, Len(bytes))
    BY <1>2 DEF Feed
  <2> HIDE DEF bytes
  <2>3. Closed
    BY <2>2, ClosedStays DEF set_buffer, Closed
  <2> QED
    BY <2>1, <2>2, <2>3
<1>3. CASE Advance
  <2>1. Closed
    BY <1>3, ClosedStays DEF Advance, next
  <2> QED
    BY <1>3, <2>1 DEF Advance, NothingHeld
<1>4. CASE SetMethod \/ UNCHANGED vars
  BY <1>4 DEF SetMethod, set_method, vars, reader, Closed, NothingHeld
<1>5. CASE PutEof \/ Restart
  BY <1>5 DEF PutEof, Restart
<1> QED
  BY <1>1, <1>2, <1>3, <1>4, <1>5 DEF Next

(* status_code is reported when the three digits of it are at hand. *)
LEMMA NextOnWhole ==
    ASSUME ReaderOK, FramingConsistent, StatusIsWhole, NEW buf \in Seq(Byte), NEW pos \in Nat,
           pos + token_size_ <= Len(buf), NextOn(buf, pos)
    PROVE  StatusIsWhole'
<1> SUFFICES ASSUME code_' = "status_code" PROVE token_size_' = 3
  BY DEF StatusIsWhole
<1>1. CASE UNCHANGED <<state, code_, token_size_, framing, connection_flags>>
  BY <1>1 DEF StatusIsWhole
<1>2. CASE state = "EXPECT_STATUS_CODE"
  <2>1. PICK i, n : Exhausted(n) \/ ReadToken(buf, i, n)
    BY <1>2 DEF NextOn, EndOfBody, EndOfMessage
  <2>2. ~Exhausted(n)
    BY DEF Exhausted, Suspend, Fail, Emit, INSUFFICIENT
  <2>3. ExpectStatusCode(buf, i, n)
    BY <1>2, <2>1, <2>2
    DEF ReadToken, ExpectVersion, ExpectVersionStaticStr, ExpectSpAfterVersion,
        ExpectSpAfterStatusCode, ExpectReasonPhrase, ExpectCrlfAfterReasonPhrase,
        ExpectFieldName, ExpectCrlfAfterHeaders, ResponseField, ResponseBody, ResponseChunks,
        ResponseTrailers, ExpectUnsafeBody, FieldCase, ExpectBody, ChunkCase, TrailerCase,
        ExpectColon, ExpectOwsAfterColon, ExpectFieldValue, ExpectCrlfAfterFieldValue,
        ExpectChunkSize, ExpectChunkExt, ExpectCrlfAfterChunkExt, ExpectChunkData,
        ExpectCrlfAfterChunkData, ExpectTrailerName, ExpectTrailerColon,
        ExpectOwsAfterTrailerColon, ExpectTrailerValue, ExpectCrlfAfterTrailerValue,
        ExpectCrlfAfterTrailers
  <2> QED
    BY <2>3 DEF ExpectStatusCode, Suspend, Fail, Emit, INSUFFICIENT
<1>3. CASE MessageStep("EXPECT_VERSION_STATIC_STR") \/ OwnStep \/ EndStep
  <2>1. code_' \notin ErrorCode /\ code_' # INSUFFICIENT
    BY DEF ErrorCode, INSUFFICIENT
  <2>2. state = "EXPECT_STATUS_CODE"
    BY <1>3, <2>1
    DEF MessageStep, WaitStep, ErrorStep, SkipStep, ValueStep, DataStep, ChunkLineStep,
        LastStep, OwnStep, OwnTokenEdge, EndStep
  <2> QED
    BY <1>2, <2>2
<1> QED
  BY <1>1, <1>3, NextOnStep

(* status_code::decode() and the kinds of body that a status implies. *)
ThreeDigits(view) == /\ view \in Seq(Byte) /\ Len(view) = 3
                     /\ \A k \in 1..3 : view[k] \in isdigit

LEMMA StatusDecodes ==
    ASSUME NEW view, ThreeDigits(view)
    PROVE  /\ status_code_decode(view) = Number(view, DecimalValue, 10)
           /\ status_code_decode(view) \in 0..999
<1>0. view \in Seq(Byte) /\ Len(view) = 3 /\ \A k \in 1..3 : view[k] \in isdigit
  BY DEF ThreeDigits
<1>1. DecimalValue \in [Byte -> Int] /\ \A c \in isdigit : DecimalValue[c] = c - 48
  BY DecimalValued DEF Valued, DecimalValue, Byte, isdigit
<1>2. PICK num : PrefixNumbers(view, DecimalValue, 10, num)
                 /\ Number(view, DecimalValue, 10) = num[Len(view)]
  BY <1>0, <1>1, NumberPrefixes
<1>3. PICK a \in isdigit, b \in isdigit, c \in isdigit :
        view[1] = a /\ view[2] = b /\ view[3] = c
  BY <1>0
<1>4. /\ num[1] = 0 * 10 + (a - 48) /\ num[2] = num[1] * 10 + (b - 48)
      /\ num[3] = num[2] * 10 + (c - 48)
  <2>1. num[0] = 0 /\ \A k \in 1..3 : num[k] = num[k - 1] * 10 + DecimalValue[view[k]]
    BY <1>0, <1>2 DEF PrefixNumbers
  <2> QED
    BY <1>1, <1>3, <2>1
<1>5. a \in 48..57 /\ b \in 48..57 /\ c \in 48..57
  BY DEF isdigit
<1> HIDE DEF isdigit
<1> QED
  BY <1>0, <1>2, <1>3, <1>4, <1>5 DEF status_code_decode

LEMMA Hundreds ==
    \A status \in 0..999 : /\ status \div 100 = 1 <=> status \in 100..199
                           /\ status \div 100 = 2 <=> status \in 200..299
OBVIOUS

(* The consumer's answer to status_code settles the kind of body for the   *)
(* reader as well.                                                         *)
LEMMA TellHeard ==
    ASSUME CInv, NEW method, TellMethod(method)
    PROVE  Heard' /\ Verdicts'
<1>1. IInv /\ StreamInv /\ StatusIsWhole /\ Heard /\ code_ = "status_code"
  BY DEF CInv, TellMethod, set_method
<1>2. /\ state = "EXPECT_SP_AFTER_STATUS_CODE" /\ state \in InStatusLine
      /\ UNCHANGED <<state, code_, connection_flags>> /\ code_' \in QuietCode
  BY <1>1 DEF IInv, StatusCodeIsLast, TellMethod, set_method, InStatusLine, QuietCode
<1>3. /\ KindSeen /\ FieldsSeen /\ seen.left = 0 /\ seen.name = "none" /\ seen \in Seen
      /\ VersionSeen
  BY <1>1, <1>2, Parts DEF Heard, SeenOK
<1>4. body_type \in {"UNKNOWN_BODY", "CONNECTION_DELIMITED"} \cup Forced
  BY <1>1, <1>2 DEF IInv, FramingConsistent, FramingSuits, OwnSuits
<1> DEFINE status == status_code_decode(TokenBytes)
           kind == KindOf(method, status)
<1>5. status \in 0..999 /\ seen' = [seen EXCEPT !.kind = kind]
  <2>1. /\ ibuffer \in Seq(Byte) /\ idx \in Nat /\ token_size_ = 3 /\ idx + 3 <= Len(ibuffer)
    BY <1>1 DEF IInv, ReaderOK, TokenInsideBuffer, StatusIsWhole
  <2>2. TokenBytes = View(ibuffer, idx, idx + 3) /\ idx + 3 \in idx..Len(ibuffer)
    BY <2>1 DEF TokenBytes
  <2>3. TokenBytes \in Seq(Byte) /\ Len(TokenBytes) = 3
    <3>1. (idx + 3) - idx = 3
      BY <2>1
    <3> QED
      BY <2>1, <2>2, <3>1, ViewIsView
  <2>4. \A k \in (idx + 1)..(idx + 3) : ibuffer[k] \in isdigit
    BY <1>1, <2>1, StreamImpliesRun DEF TokenIsMaximalRun, TokenClass
  <2>5. ASSUME NEW k \in 1..3 PROVE TokenBytes[k] \in isdigit
    <3>1. idx + k \in (idx + 1)..(idx + 3)
      BY <2>1
    <3>2. TokenBytes[k] = ibuffer[idx + k]
      <4>1. k \in 1..((idx + 3) - idx)
        BY <2>1
      <4> QED
        BY <2>1, <2>2, <4>1, ViewAt
    <3> QED
      BY <2>4, <3>1, <3>2
  <2>6. /\ status = Number(TokenBytes, DecimalValue, 10)
        /\ status \in 0..999
    <3>1. ThreeDigits(TokenBytes)
      BY <2>3, <2>5 DEF ThreeDigits
    <3> QED
      BY <3>1, StatusDecodes
  <2> QED
    BY <2>6 DEF TellMethod
<1>6. /\ body_type' \in Forced \cup {"CONNECTION_DELIMITED"}
      /\ body_type' = "FORCE_NO_BODY" <=> kind = "none"
      /\ body_type' = "FORCE_NO_BODY_AND_STOP" <=> kind = "tunnel"
      /\ body_type' = "CONNECTION_DELIMITED" <=> kind = "fields"
  <2> HIDE DEF status
  <2> DEFINE noBody == status \div 100 = 1 \/ status \in {204, 304} \/ method = HEAD
             tunnel == status \div 100 = 2 /\ method = CONNECT
  <2>1. \/ noBody /\ body_type' = "FORCE_NO_BODY"
        \/ ~noBody /\ tunnel /\ body_type' = "FORCE_NO_BODY_AND_STOP"
        \/ ~noBody /\ ~tunnel /\ body_type' = "CONNECTION_DELIMITED"
    BY DEF TellMethod, set_method, status
  <2>2. /\ noBody <=> method = HEAD \/ status \in (100..199) \cup {204, 304}
        /\ ~noBody /\ tunnel <=> ~noBody /\ method = CONNECT /\ status \in (200..299) \ {204}
    BY <1>5, Hundreds
  <2>3. method = CONNECT /\ status \in (200..299) \ {204} => ~noBody
    BY <1>5, MethodsAssumption, Hundreds
  <2> HIDE DEF noBody, tunnel
  <2>4. CASE noBody
    <3>1. kind = "none"
      BY <2>2, <2>3, <2>4 DEF KindOf
    <3> QED
      BY <2>1, <2>4, <3>1 DEF Forced
  <2>5. CASE ~noBody /\ tunnel
    <3>1. kind = "tunnel"
      BY <2>2, <2>3, <2>5 DEF KindOf
    <3> QED
      BY <2>1, <2>5, <3>1 DEF Forced
  <2>6. CASE ~noBody /\ ~tunnel
    <3>1. kind = "fields"
      BY <2>2, <2>3, <2>6 DEF KindOf
    <3> QED
      BY <2>1, <2>6, <3>1 DEF Forced
  <2> QED
    BY <2>4, <2>5, <2>6
<1> HIDE DEF kind, status
<1>7. /\ seen' \in Seen /\ seen'.kind = kind /\ seen'.http10 = seen.http10
      /\ seen'.te = seen.te /\ seen'.cl = seen.cl /\ seen'.name = "none" /\ seen'.left = 0
  BY <1>3, <1>5, <1>6 DEF Seen, Forced
<1>8. KindSeen'
  BY <1>6, <1>7 DEF KindSeen, Forced, FieldBodyType, Reading
<1>9. FieldsSeen'
  BY <1>3, <1>4, <1>6, <1>7 DEF FieldsSeen, Forced
<1>10. BodySeen'
  BY <1>2, Parts DEF BodySeen, InBody
<1>11. Heard'
  BY <1>2, <1>3, <1>7, <1>8, <1>9, <1>10, Parts DEF Heard, SeenOK, VersionSeen
<1> QED
  BY <1>2, <1>11, QuietVerdicts

-----------------------------------------------------------------------------
LEMMA InitCInv == ConsumerInit => CInv
<1> SUFFICES ASSUME ConsumerInit PROVE CInv
  OBVIOUS
<1>1. /\ state \in BeforeVersion /\ code_ = INSUFFICIENT /\ seen = Fresh /\ held = <<>>
      /\ connection_flags = {}
  BY DEF ConsumerInit, Init, ReaderInit, BeforeVersion
<1>2. IInv /\ StreamInv
  BY InitIInv, InitStreamInv DEF ConsumerInit
<1>3. VersionSeen
  BY <1>1 DEF VersionSeen, Fresh
<1>4. Heard
  BY <1>1, <1>3, FreshIs, Parts DEF Heard, SeenOK, BodySeen, InBody
<1>5. Verdicts
  BY <1>1, <1>4
  DEF Heard, SeenOK, Seen, INSUFFICIENT, Verdicts, FramingFollowsFields, BodyIsComplete,
      ConnectionIsReused, RefusalIsJustified
<1> QED
  BY <1>1, <1>2, <1>4, <1>5 DEF CInv, StatusIsWhole, NothingHeld, INSUFFICIENT

(* Every call of the caller, and every token that is looked at, keep CInv. *)
LEMMA NextCInv == CInv /\ [ConsumerNext]_<<vars, seen>> => CInv'
<1> SUFFICES ASSUME CInv, [ConsumerNext]_<<vars, seen>> PROVE CInv'
  OBVIOUS
<1>1. IInv /\ StreamInv /\ StatusIsWhole /\ NothingHeld /\ Heard /\ Verdicts
  BY DEF CInv
<1>2. IInv' /\ StreamInv' /\ NothingHeld'
  <2>1. [Next]_vars
    BY DEF ConsumerNext, Next, TellMethod, SetMethod
  <2> QED
    BY <1>1, <2>1, NextIInv, NextStreamInv, NextNothingHeld
<1>3. ASSUME StatusIsWhole', Heard' /\ Verdicts' PROVE CInv'
  BY <1>2, <1>3 DEF CInv
<1>4. CASE Receive /\ Look(FALSE)
  <2>1. /\ UNCHANGED <<state, code_, token_size_, framing, connection_flags, seen>>
        /\ ~Closed /\ TokenBytes' = TokenBytes
    BY <1>4 DEF Receive, reader, Look, TokenBytes
  <2>2. Heard' /\ Verdicts'
    BY <1>1, <2>1, SameHeard DEF Closed
  <2> QED
    BY <1>1, <1>3, <2>1, <2>2 DEF StatusIsWhole
<1>5. CASE Feed /\ Look(code_ = INSUFFICIENT)
  <2> DEFINE bytes == Unread \o held
  <2>0. Joined(bytes, ibuffer, idx, held)
    BY DEF Joined, Unread
  <2>1. bytes \in Seq(Byte) /\ Len(bytes) \in Nat /\ token_size_ \in Nat
    BY <1>1 DEF IInv, ReaderOK, TokenInsideBuffer, Unread
  <2>2. PICK k \in token_size_..Len(bytes) :
          /\ set_buffer(SubSeq(bytes, 1, k))
          /\ held' = SubSeq(bytes, k + 1, Len(bytes))
    BY <1>5 DEF Feed
  <2>3. Unread = <<>> /\ held = <<>> => bytes = <<>>
    OBVIOUS
  <2> HIDE DEF bytes
  <2>4. SubSeq(bytes, 1, k) \in Seq(Byte) /\ 0 + token_size_ <= Len(SubSeq(bytes, 1, k))
    BY <2>1, <2>2
  <2>5. CASE code_ = INSUFFICIENT
    <3>1. NextOn(SubSeq(bytes, 1, k), 0) /\ Look(TRUE)
      BY <1>5, <2>2, <2>5 DEF set_buffer, Look
    <3>2. Heard' /\ Verdicts'
      BY <1>1, <1>2, <2>4, <2>5, <3>1, NextOnHeard
    <3>3. StatusIsWhole'
      BY <1>1, <2>4, <3>1, NextOnWhole DEF IInv
    <3> QED
      BY <1>3, <3>2, <3>3
  <2>6. CASE code_ # INSUFFICIENT
    <3>1. /\ UNCHANGED <<state, code_, token_size_, framing, connection_flags, seen>>
          /\ ibuffer' = SubSeq(bytes, 1, k) /\ idx' = 0
      BY <1>5, <2>2, <2>6 DEF set_buffer, Look
    <3>2. ASSUME bytes = <<>> PROVE Unread' = <<>> /\ held' = <<>>
      <4>1. k = 0 /\ ibuffer' = <<>>
        BY <2>1, <2>2, <3>1, <3>2
      <4> QED
        BY <2>2, <3>1, <3>2, <4>1 DEF Unread
    <3>3. TokenBytes' = TokenBytes
      <4>1. View(SubSeq(bytes, 1, k), 0, 0 + token_size_) = TokenBytes
        BY <1>1, <2>0, <2>2, TokenSurvives DEF IInv, ReaderOK, TokenInsideBuffer
      <4> QED
        BY <3>1, <4>1 DEF TokenBytes
    <3>4. Heard' /\ Verdicts'
      BY <1>1, <2>3, <3>1, <3>2, <3>3, SameHeard DEF Closed
    <3> QED
      BY <1>1, <1>3, <3>1, <3>4 DEF StatusIsWhole
  <2> QED
    BY <2>5, <2>6
<1>6. CASE Advance /\ Look(TRUE)
  <2>1. /\ NextOn(ibuffer, idx) /\ ibuffer \in Seq(Byte) /\ idx \in Nat
        /\ idx + token_size_ <= Len(ibuffer)
    BY <1>1, <1>6 DEF Advance, next, IInv, ReaderOK, TokenInsideBuffer
  <2>2. Heard' /\ Verdicts'
    BY <1>1, <1>2, <1>6, <2>1, NextOnHeard
  <2>3. StatusIsWhole'
    BY <1>1, <2>1, NextOnWhole DEF IInv
  <2> QED
    BY <1>3, <2>2, <2>3
<1>7. CASE PutEof /\ Look(FALSE)
  <2>1. /\ UNCHANGED <<state, code_, token_size_, ibuffer, idx, framing, held, seen>>
        /\ connection_flags' = connection_flags \cup {"EOF_RECEIVED"}
    BY <1>7 DEF PutEof, puteof, Look
  <2>2. Heard' /\ Verdicts'
    BY <1>1, <2>1, SameHeard DEF Closed, Unread, TokenBytes
  <2> QED
    BY <1>1, <1>3, <2>1, <2>2 DEF StatusIsWhole
<1>8. CASE \E method \in Methods : TellMethod(method)
  <2>1. StatusIsWhole'
    BY <1>1, <1>8 DEF TellMethod, set_method, StatusIsWhole
  <2> QED
    BY <1>3, <1>8, <2>1, TellHeard
<1>9. CASE Restart /\ seen' = Fresh
  <2>1. state' \in BeforeVersion /\ code_' = INSUFFICIENT /\ connection_flags' = {}
    BY <1>9 DEF Restart, reset, BeforeVersion
  <2>2. VersionSeen'
    BY <1>9, <2>1 DEF VersionSeen, Fresh
  <2>3. Heard'
    BY <1>9, <2>1, <2>2, FreshIs, Parts DEF Heard, SeenOK, BodySeen, InBody
  <2>4. StatusIsWhole'
    BY <2>1 DEF StatusIsWhole, INSUFFICIENT
  <2> QED
    BY <1>3, <2>1, <2>3, <2>4, QuietVerdicts DEF QuietCode
<1>10. CASE UNCHANGED <<vars, seen>>
  <2>1. UNCHANGED <<state, code_, token_size_, ibuffer, idx, framing, connection_flags, held,
                    seen>>
    BY <1>10 DEF vars, reader
  <2>2. Heard' /\ Verdicts'
    BY <1>1, <2>1, SameHeard DEF Closed, Unread, TokenBytes
  <2> QED
    BY <1>1, <1>3, <2>1, <2>2 DEF StatusIsWhole
<1> QED
  BY <1>4, <1>5, <1>6, <1>7, <1>8, <1>9, <1>10 DEF ConsumerNext

LEMMA CInvHolds == ConsumerSpec => []CInv
BY InitCInv, NextCInv, PTL DEF ConsumerSpec

(* At end_of_headers the reader is in the state, and has the length, that  *)
(* the method, the status and the header fields of this message imply,     *)
(* whatever an earlier message left in body_type, body_size and            *)
(* connection_flags.                                                       *)
THEOREM FramingFollows == ConsumerSpec => []FramingFollowsFields
<1>1. CInv => FramingFollowsFields
  BY DEF CInv, Verdicts
<1> QED
  BY <1>1, CInvHolds, PTL

(* The consumer is given the bytes that were announced, all of them before *)
(* end_of_body and never more, and end_of_body of a body that ends with    *)
(* the connection when nothing of the stream is left.  For the callers     *)
(* that do not shrink the buffer after puteof(): the one that does cuts    *)
(* such a body, as next() looks at the end of the buffer only.             *)
THEOREM BodiesAreComplete ==
    ASSUME ~ShrinkAfterEof PROVE ConsumerSpec => []BodyIsComplete
<1>1. CInv => BodyIsComplete
  BY DEF CInv, Verdicts
<1> QED
  BY <1>1, CInvHolds, PTL

(* end_of_message is followed by error_use_another_connection exactly when *)
(* the version, the method and status or the framing of this connection    *)
(* exclude another message.                                                *)
THEOREM ConnectionsAreReused == ConsumerSpec => []ConnectionIsReused
<1>1. CInv => ConnectionIsReused
  BY DEF CInv, Verdicts
<1> QED
  BY <1>1, CInvHolds, PTL

(* error_set_method, error_use_another_connection and the errors of the    *)
(* framing fields are reported only when what the consumer was told and    *)
(* the refused token are a reason: a value that is no length or does not   *)
(* fit, codings in which chunked is not the last and only one.             *)
THEOREM RefusalsAreJustified == ConsumerSpec => []RefusalIsJustified
<1>1. CInv => RefusalIsJustified
  BY DEF CInv, Verdicts
<1> QED
  BY <1>1, CInvHolds, PTL
=============================================================================
