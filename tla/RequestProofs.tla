--------------------------- MODULE RequestProofs ----------------------------
(***************************************************************************)
(* The reader's invariants, for every alphabet, every capacity of the      *)
(* caller's memory, every width of body_size and every set of literals.    *)
(*                                                                         *)
(* TokenInsideBuffer needs the type of token_size_; the type of code_ and   *)
(* the cases of next() need FramingConsistent, which excludes the states   *)
(* where the code is UNREACHABLE.  Together they are inductive.            *)
(***************************************************************************)
EXTENDS RequestTokens, RequestConsumer, MessageProofs

IInv == ReaderOK /\ held \in Seq(Byte) /\ TokenInsideBuffer /\ FramingConsistent

(* What IInv requires of the reader after next() has read at offset i. *)
Post(buf, i) == /\ state' \in State
                /\ code_' \in RequestCode
                /\ token_size_' \in Nat
                /\ i + token_size_' <= Len(buf)
                /\ version' \in Version
                /\ body_type' \in BodyType
                /\ body_size' \in Uint
                /\ FramingConsistent'

-----------------------------------------------------------------------------
(* A state that the framing read so far allows. *)
Suits(s) == s \in State /\ FramingSuits(s, body_type, body_size)

(* The codes that next() gives are codes of a request reader. *)
LEMMA RequestCodes ==
    /\ INSUFFICIENT \in RequestCode
    /\ {"skip", "method", "request_target", "version", "field_name",
        "field_value", "chunk_ext", "body_chunk", "trailer_name",
        "trailer_value", "end_of_headers", "end_of_body", "end_of_message",
        "error_invalid_data", "error_no_host", "error_invalid_content_length",
        "error_content_length_overflow", "error_invalid_transfer_encoding",
        "error_chunk_size_overflow"} \subseteq RequestCode
    /\ MessageCode \subseteq RequestCode
BY DEF INSUFFICIENT, MessageCode, RequestCode, Code, ErrorCode, DataCode, StructuralCode

(* The current state suits itself, and ERRORED suits every framing. *)
LEMMA SuitsHere ==
    ASSUME ReaderOK, FramingConsistent
    PROVE  Suits(state) /\ Suits("ERRORED")
BY DEF Suits, ReaderOK, FramingConsistent, FramingSuits, BodySuits, State, MessageState,
       StartLine, InChunks, InTrailers

(* A case that only moves to another state. *)
LEMMA MovePost ==
    ASSUME ReaderOK, NEW buf, NEW i, NEW s, Suits(s), state' = s,
           code_' \in RequestCode, token_size_' \in Nat,
           i + token_size_' <= Len(buf), UNCHANGED <<framing, version>>
    PROVE  Post(buf, i)
BY DEF Post, Suits, ReaderOK, FramingConsistent, framing

LEMMA OutcomePost ==
    ASSUME ReaderOK, FramingConsistent, NEW buf, NEW i, NEW here, NEW s, NEW code,
           Suits(here), Suits(s), code \in RequestCode,
           Outcome(buf, i, here, s, code), UNCHANGED <<framing, version>>
    PROVE  Post(buf, i)
BY RequestCodes, SuitsHere, MovePost DEF Outcome

(* The sections that both readers share: MessageProofs says which states    *)
(* and framings they reach.                                                *)
LEMMA ReachedPost ==
    ASSUME ReaderOK, NEW buf, NEW i, NEW S, S \subseteq State, Reached(buf, i, S),
           version' = version, body_type' \in BodyType,
           state' \in StartLine => body_type' = "NO_BODY",
           state' \in {"EXPECT_END_OF_BODY", "EXPECT_END_OF_MESSAGE"} =>
               body_type' = "CONTENT_LENGTH_READ" /\ body_size' = 0
    PROVE  Post(buf, i)
BY RequestCodes DEF Reached, Post, ReaderOK, FramingConsistent, FramingSuits

LEMMA SharedPost ==
    ASSUME ReaderOK, FramingConsistent,
           NEW buf \in Seq(Byte), NEW i \in Nat, NEW n \in Nat,
           i + n <= Len(buf), i # Len(buf), version' = version,
           \/ FieldCase(buf, i, n)
           \/ ExpectBody(buf, i, n)
           \/ ChunkCase(buf, i, n)
           \/ TrailerCase(buf, i, n, "EXPECT_METHOD", "NO_BODY")
    PROVE  Post(buf, i)
<1>1. body_size \in Uint /\ Suitable(state) /\ body_type \in BodyType
  BY DEF ReaderOK, FramingConsistent, FramingSuits, Suitable
<1>2. CASE FieldCase(buf, i, n)
  <2>1. Reached(buf, i, InHeaders \cup {"ERRORED"}) /\ Settled
    BY <1>1, <1>2, FieldReached
  <2>2. state' \notin StartLine \cup {"EXPECT_END_OF_BODY", "EXPECT_END_OF_MESSAGE"}
    BY <2>1 DEF Reached, InHeaders, InField, StartLine
  <2>3. body_type' \in BodyType /\ InHeaders \cup {"ERRORED"} \subseteq State
    BY <1>1, <2>1 DEF Settled, BodyType, FieldBodyType, State, MessageState
  <2> QED
    BY <2>1, <2>2, <2>3, ReachedPost
<1>3. CASE ExpectBody(buf, i, n)
  <2>1. /\ Reached(buf, i, {"EXPECT_BODY", "EXPECT_END_OF_BODY"})
        /\ body_type' = "CONTENT_LENGTH_READ"
        /\ state' = "EXPECT_END_OF_BODY" => body_size' = 0
    BY <1>1, <1>3, BodyReached
  <2>2. state' \notin StartLine \cup {"EXPECT_END_OF_MESSAGE"}
    BY <2>1 DEF Reached, StartLine
  <2>3. /\ body_type' \in BodyType
        /\ {"EXPECT_BODY", "EXPECT_END_OF_BODY"} \subseteq State
    BY <2>1 DEF BodyType, FieldBodyType, State, MessageState
  <2> QED
    BY <2>1, <2>2, <2>3, ReachedPost
<1>4. CASE ChunkCase(buf, i, n)
  <2>1. /\ Reached(buf, i, InChunks \cup {"EXPECT_TRAILER_NAME", "ERRORED"})
        /\ body_type' = body_type
    BY <1>1, <1>4, ChunkReached
  <2>2. state' \notin StartLine \cup {"EXPECT_END_OF_BODY", "EXPECT_END_OF_MESSAGE"}
    BY <2>1 DEF Reached, InChunks, StartLine
  <2>3. InChunks \cup {"EXPECT_TRAILER_NAME", "ERRORED"} \subseteq State
    BY DEF State, MessageState, InTrailers
  <2> QED
    BY <1>1, <2>1, <2>2, <2>3, ReachedPost
<1>5. CASE TrailerCase(buf, i, n, "EXPECT_METHOD", "NO_BODY")
  <2> DEFINE S == InTrailers \cup {"ERRORED", "EXPECT_METHOD"}
  <2>1. /\ "EXPECT_METHOD" \notin InChunks \cup InTrailers \cup {"EXPECT_BODY"}
        /\ "NO_BODY" \notin Reading
    BY DEF InChunks, InTrailers, Reading
  <2>2. /\ Reached(buf, i, S)
        /\ \/ state' = "EXPECT_METHOD" /\ body_type' = "NO_BODY"
           \/ state' \in InTrailers \cup {"ERRORED"} /\ body_type' = body_type
    BY <1>1, <1>5, <2>1, TrailerReached
  <2>3. /\ S \subseteq State
        /\ body_type' \in BodyType
    BY <1>1, <2>2 DEF State, MessageState, StartLine, BodyType
  <2>4. /\ state' \in StartLine => body_type' = "NO_BODY"
        /\ state' \notin {"EXPECT_END_OF_BODY", "EXPECT_END_OF_MESSAGE"}
    BY <2>2 DEF StartLine, InTrailers
  <2> HIDE DEF S
  <2> QED
    BY <2>2, <2>3, <2>4, ReachedPost
<1> QED
  BY <1>2, <1>3, <1>4, <1>5

-----------------------------------------------------------------------------
(* The sections of a request of its own, one step per case of next(). *)

(* The start line: the framing is NO_BODY and stays so. *)
LEMMA StartLinePost ==
    ASSUME ReaderOK, FramingConsistent,
           NEW buf \in Seq(Byte), NEW i \in Nat, NEW n \in Nat,
           i + n <= Len(buf), i # Len(buf),
           \/ ExpectVersion(buf, i, n)
           \/ /\ \/ ExpectMethod(buf, i, n)
                 \/ ExpectSpAfterMethod(buf, i, n)
                 \/ ExpectRequestTarget(buf, i, n)
                 \/ ExpectStaticStrAfterTarget(buf, i, n)
                 \/ ExpectCrlfAfterVersion(buf, i, n)
              /\ UNCHANGED version
    PROVE  Post(buf, i)
<1>1. Len(buf) \in Nat
  OBVIOUS
<1>2. state \in StartLine => /\ \A s \in StartLine : Suits(s)
                            /\ Suits("EXPECT_FIELD_NAME")
  BY DEF Suits, State, MessageState, InHeaders, FramingConsistent, FramingSuits,
         BodySuits, StartLine, InField, InChunks, InTrailers, Reading
<1>3. CASE ExpectMethod(buf, i, n) /\ UNCHANGED version
  <2>1. Outcome(buf, i, state, "EXPECT_SP_AFTER_METHOD", "method")
    BY <1>3, ScanTokenOutcome DEF ExpectMethod
  <2> QED
    BY <1>3, <2>1, <1>2, OutcomePost, SuitsHere, RequestCodes DEF ExpectMethod, StartLine
<1>4. CASE ExpectSpAfterMethod(buf, i, n) /\ UNCHANGED version
  <2>1. Outcome(buf, i, state, "EXPECT_REQUEST_TARGET", "skip")
    BY <1>4, ByteTokenOutcome DEF ExpectSpAfterMethod
  <2> QED
    BY <1>4, <2>1, <1>2, OutcomePost, SuitsHere, RequestCodes
    DEF ExpectSpAfterMethod, StartLine
<1>5. CASE ExpectRequestTarget(buf, i, n) /\ UNCHANGED version
  <2>1. Outcome(buf, i, state, "EXPECT_STATIC_STR_AFTER_TARGET", "request_target")
    BY <1>5, ScanTokenOutcome DEF ExpectRequestTarget
  <2> QED
    BY <1>5, <2>1, <1>2, OutcomePost, SuitsHere, RequestCodes
    DEF ExpectRequestTarget, StartLine
<1>6. CASE ExpectStaticStrAfterTarget(buf, i, n) /\ UNCHANGED version
  <2>1. StaticStr \in Seq(Byte)
    BY LiteralsAssumption
  <2>2. Outcome(buf, i, state, "EXPECT_VERSION", "skip")
    BY <1>6, <2>1, LiteralTokenOutcome DEF ExpectStaticStrAfterTarget
  <2> QED
    BY <1>6, <2>2, <1>2, OutcomePost, SuitsHere, RequestCodes
    DEF ExpectStaticStrAfterTarget, StartLine
<1>7. CASE ExpectVersion(buf, i, n)
  <2>1. Outcome(buf, i, state, "EXPECT_CRLF_AFTER_VERSION", "version")
    BY <1>7, ByteTokenOutcome DEF ExpectVersion
  <2>2. version' \in Version
    BY <1>7 DEF ExpectVersion, Version, ReaderOK
  <2>3. body_type' = "NO_BODY" /\ body_size' \in Uint
    BY <1>7 DEF ExpectVersion, ReaderOK, FramingConsistent, FramingSuits, StartLine, framing
  <2>4. /\ state' \in {"EXPECT_VERSION", "EXPECT_CRLF_AFTER_VERSION", "ERRORED"}
        /\ code_' \in RequestCode
    BY <1>7, <2>1, RequestCodes DEF Outcome, ExpectVersion
  <2>5. FramingConsistent'
    BY <2>3, <2>4
    DEF FramingConsistent, FramingSuits, BodySuits, Reading, InField, InChunks, InTrailers
  <2> QED
    BY <2>1, <2>2, <2>3, <2>4, <2>5 DEF Post, Outcome, State, StartLine, MessageState, BodyType
<1>8. CASE ExpectCrlfAfterVersion(buf, i, n) /\ UNCHANGED version
  <2>1. Outcome(buf, i, state, "EXPECT_FIELD_NAME", "skip")
    BY <1>8, LiberalCrlfOutcome DEF ExpectCrlfAfterVersion
  <2> QED
    BY <1>8, <2>1, <1>2, OutcomePost, SuitsHere, RequestCodes
    DEF ExpectCrlfAfterVersion, StartLine
<1> QED
  BY <1>3, <1>4, <1>5, <1>6, <1>7, <1>8

(* A complete field name: a READING_* framing starts here. *)
LEMMA FieldNamePost ==
    ASSUME ReaderOK, FramingConsistent, state = "EXPECT_FIELD_NAME",
           NEW buf \in Seq(Byte), NEW i \in Nat, NEW size \in Nat,
           i + size <= Len(buf), NEW name, FieldName(name, size)
    PROVE  Post(buf, i)
<1>1. Suits("EXPECT_COLON") /\ Suits("ERRORED") /\ body_type \notin Reading
  BY DEF Suits, State, MessageState, InHeaders, FramingConsistent, FramingSuits,
         BodySuits, StartLine, InField, InChunks, InTrailers
<1>2. CASE HostName(size)
  BY <1>1, <1>2, RequestCodes
  DEF HostName, Fail, Emit, framing, Post, Suits, FramingConsistent, ReaderOK, Version
<1>3. ASSUME NEW type \in BodyType, body_type' = type,
             UNCHANGED <<body_size, version>>, Emit("EXPECT_COLON", "field_name", size)
      PROVE  Post(buf, i)
  BY <1>3, RequestCodes
  DEF Emit, Post, FramingConsistent, FramingSuits, BodySuits, ReaderOK, State, MessageState,
      InHeaders, StartLine, InField, InChunks, InTrailers
<1>4. ASSUME NEW code \in RequestCode, Fail(code, size), UNCHANGED <<framing, version>>
      PROVE  Post(buf, i)
  BY <1>1, <1>4, MovePost DEF Fail, Emit
<1>5. CASE TransferEncodingField(size, "NO_BODY") /\ UNCHANGED version
  BY <1>3, <1>4, <1>5, RequestCodes
  DEF TransferEncodingField, BodyType, FieldBodyType, Reading
<1>6. CASE ContentLengthField(size, "NO_BODY") /\ UNCHANGED version
  BY <1>3, <1>4, <1>6, RequestCodes
  DEF ContentLengthField, BodyType, FieldBodyType, Reading
<1>7. CASE OtherField(size) /\ UNCHANGED version
  BY <1>1, <1>7, MovePost, RequestCodes DEF OtherField, Emit
<1> QED
  BY <1>2, <1>5, <1>6, <1>7 DEF FieldName

(* The empty line: the body state that follows has its framing. *)
LEMMA CrlfAfterHeadersPost ==
    ASSUME ReaderOK, FramingConsistent,
           state \in {"EXPECT_FIELD_NAME", "EXPECT_CRLF_AFTER_HEADERS"},
           NEW buf \in Seq(Byte), NEW i \in Nat, NEW n \in Nat,
           i + n <= Len(buf), i # Len(buf), CrlfAfterHeaders(buf, i, n)
    PROVE  Post(buf, i)
<1>1. UNCHANGED <<framing, version>> /\ i <= Len(buf)
  BY DEF CrlfAfterHeaders
<1>2. ASSUME NEW size \in Nat, i + size <= Len(buf), EndOfHeaders(size)
      PROVE  Post(buf, i)
  <2>1. CASE Fail("error_no_host", size) \/ Fail("error_invalid_transfer_encoding", size)
    BY <1>1, <1>2, <2>1, SuitsHere, MovePost, RequestCodes DEF Fail, Emit
  <2>2. ASSUME NEW s, Suits(s), Emit(s, "end_of_headers", size)
        PROVE  Post(buf, i)
    BY <1>1, <1>2, <2>2, MovePost, RequestCodes DEF Emit
  <2>3. CASE body_type = "NO_BODY"
    <3>1. Suits("EXPECT_END_OF_BODY")
      BY <2>3 DEF Suits, FramingSuits, BodySuits, State, MessageState, Reading, StartLine,
                 InChunks, InTrailers
    <3> QED
      BY <1>2, <2>1, <2>2, <2>3, <3>1 DEF EndOfHeaders
  <2>4. CASE body_type = "CONTENT_LENGTH_READ"
    <3>1. body_size = 0 => Suits("EXPECT_END_OF_BODY")
      BY <2>4 DEF Suits, FramingSuits, BodySuits, State, MessageState, Reading, StartLine,
                 InChunks, InTrailers
    <3>2. body_size # 0 => Suits("EXPECT_BODY")
      BY <2>4, UintMaxAssumption
      DEF Suits, FramingSuits, BodySuits, State, MessageState, Reading, StartLine,
          InChunks, InTrailers, ReaderOK, Uint
    <3> QED
      BY <1>2, <2>1, <2>2, <2>4, <3>1, <3>2 DEF EndOfHeaders
  <2>5. CASE body_type = "CHUNKED_ENCODING_READ"
    <3>1. Suits("EXPECT_CHUNK_SIZE")
      BY <2>5 DEF Suits, FramingSuits, BodySuits, State, MessageState, Reading, StartLine,
                 InChunks, InTrailers
    <3> QED
      BY <1>2, <2>1, <2>2, <2>5, <3>1 DEF EndOfHeaders
  <2> QED
    BY <1>2, <2>1, <2>3, <2>4, <2>5 DEF EndOfHeaders
<1>3. CASE EndOfHeaders(2) /\ liberal_crlf(buf, i) = "crlf"
  BY <1>1, <1>2, <1>3, LiberalCrlfFits
<1>4. CASE EndOfHeaders(1)
  BY <1>1, <1>2, <1>4, LiberalCrlfFits
<1>5. CASE Suspend("EXPECT_CRLF_AFTER_HEADERS", n)
  <2>1. Suits("EXPECT_CRLF_AFTER_HEADERS")
    BY DEF Suits, State, MessageState, InHeaders, FramingConsistent, FramingSuits,
           BodySuits, StartLine, InField, InChunks, InTrailers
  <2> QED
    BY <1>1, <1>5, <2>1, MovePost, RequestCodes DEF Suspend, Emit
<1>6. CASE Fail("error_invalid_data", n)
  BY <1>1, <1>6, SuitsHere, MovePost, RequestCodes DEF Fail, Emit
<1> QED
  BY <1>3, <1>4, <1>5, <1>6 DEF CrlfAfterHeaders

LEMMA FieldNameCasePost ==
    ASSUME ReaderOK, FramingConsistent,
           NEW buf \in Seq(Byte), NEW i \in Nat, NEW n \in Nat,
           i + n <= Len(buf), i # Len(buf),
           ExpectFieldName(buf, i, n) \/ ExpectCrlfAfterHeaders(buf, i, n)
    PROVE  Post(buf, i)
<1>1. CASE ExpectFieldName(buf, i, n)
  <2>1. PICK e \in i..Len(buf) :
          \/ CrlfAfterHeaders(buf, i, n)
          \/ Suspend(state, n) /\ UNCHANGED <<framing, version>>
          \/ FieldName(View(buf, i, e), e - i)
    BY <1>1 DEF ExpectFieldName
  <2>2. e - i \in Nat /\ i + (e - i) <= Len(buf)
    OBVIOUS
  <2>3. CASE CrlfAfterHeaders(buf, i, n)
    BY <1>1, <2>3, CrlfAfterHeadersPost DEF ExpectFieldName
  <2>4. CASE Suspend(state, n) /\ UNCHANGED <<framing, version>>
    BY <2>4, SuitsHere, MovePost, RequestCodes DEF Suspend, Emit
  <2>5. CASE FieldName(View(buf, i, e), e - i)
    BY <1>1, <2>2, <2>5, FieldNamePost DEF ExpectFieldName
  <2> QED
    BY <2>1, <2>3, <2>4, <2>5
<1>2. CASE ExpectCrlfAfterHeaders(buf, i, n)
  BY <1>2, CrlfAfterHeadersPost DEF ExpectCrlfAfterHeaders
<1> QED
  BY <1>1, <1>2

-----------------------------------------------------------------------------
(* next() on a buffer that holds the current token at pos. *)
LEMMA NextOnPost ==
    ASSUME ReaderOK, FramingConsistent, NEW buf \in Seq(Byte), NEW pos \in Nat,
           pos + token_size_ <= Len(buf), NextOn(buf, pos)
    PROVE  ibuffer' = buf /\ idx' \in Nat /\ Post(buf, idx')
<1> DEFINE i == pos + Consumed
           n == token_size_ - Consumed
<1>1. Len(buf) \in Nat /\ token_size_ \in Nat
  BY DEF ReaderOK
<1>2. i \in Nat /\ n \in Nat /\ i + n = pos + token_size_
  BY <1>1 DEF Consumed
<1>3. ibuffer' = buf
  BY DEF NextOn
<1>4. CASE state = "ERRORED" /\ idx' = pos
           /\ UNCHANGED <<state, code_, token_size_, framing, version>>
  <2>1. code_' \in RequestCode
    BY <1>4 DEF ReaderOK
  <2> QED
    BY <1>1, <1>3, <1>4, <2>1, SuitsHere, MovePost
<1>5. CASE idx' = pos + token_size_ /\ EndOfBody /\ UNCHANGED version
  <2>1. Suits("EXPECT_END_OF_MESSAGE")
    BY <1>5
    DEF EndOfBody, Suits, State, MessageState, FramingConsistent, FramingSuits, BodySuits,
        StartLine, InChunks, InTrailers, InField
  <2> QED
    BY <1>1, <1>3, <1>5, <2>1, MovePost, RequestCodes DEF EndOfBody, Emit
<1>6. CASE idx' = pos + token_size_ /\ EndOfMessage /\ UNCHANGED version
  <2>1. /\ body_type' = "NO_BODY" /\ version' = version /\ body_size' = body_size
        /\ state' = "EXPECT_METHOD" /\ code_' = "end_of_message" /\ token_size_' = 0
    BY <1>6 DEF EndOfMessage, Emit
  <2>2. FramingConsistent'
    BY <2>1
    DEF FramingConsistent, FramingSuits, BodySuits, Reading, StartLine, InChunks,
        InTrailers
  <2> QED
    BY <1>1, <1>3, <1>6, <2>1, <2>2, RequestCodes
    DEF Post, ReaderOK, State, StartLine, BodyType
<1>7. CASE idx' = i /\ i = Len(buf) /\ Suspend(state, n)
           /\ UNCHANGED <<framing, version>>
  BY <1>1, <1>2, <1>3, <1>7, SuitsHere, MovePost, RequestCodes DEF Suspend, Emit
<1>8. CASE idx' = i /\ i # Len(buf) /\ ReadToken(buf, i, n)
  <2>1. i + n <= Len(buf)
    BY <1>2
  <2> HIDE DEF i, n
  <2>2. Post(buf, i)
    BY <1>2, <1>8, <2>1, StartLinePost, FieldNameCasePost, SharedPost DEF ReadToken
  <2> QED
    BY <1>2, <1>3, <1>8, <2>2
<1> QED
  BY <1>4, <1>5, <1>6, <1>7, <1>8 DEF NextOn

-----------------------------------------------------------------------------
(* The constructor establishes IInv, whatever it leaves in version and     *)
(* body_size.                                                              *)
LEMMA InitIInv == Init => IInv
<1> SUFFICES ASSUME Init PROVE IInv
  OBVIOUS
<1>1. ReaderOK
  BY RequestCodes DEF Init, ReaderInit, ReaderOK, State, StartLine, BodyType
<1>2. TokenInsideBuffer
  BY DEF Init, ReaderInit, TokenInsideBuffer
<1>3. FramingConsistent
  BY DEF Init, ReaderInit, FramingConsistent, FramingSuits, BodySuits, Reading,
         StartLine, InChunks, InTrailers
<1>4. held \in Seq(Byte)
  BY DEF Init
<1> QED
  BY <1>1, <1>2, <1>3, <1>4 DEF IInv

(* Every call of the caller keeps IInv. *)
LEMMA NextIInv == IInv /\ [Next]_vars => IInv'
<1> SUFFICES ASSUME IInv, [Next]_vars PROVE IInv'
  OBVIOUS
<1> USE DEF IInv
<1>1. ASSUME NEW buf \in Seq(Byte), NEW pos \in Nat, pos + token_size_ <= Len(buf),
             NextOn(buf, pos), held' \in Seq(Byte)
      PROVE  IInv'
  <2>1. ibuffer' = buf /\ idx' \in Nat /\ Post(buf, idx')
    BY <1>1, NextOnPost
  <2> QED
    BY <1>1, <2>1 DEF Post, ReaderOK, TokenInsideBuffer
<1>2. CASE Receive
  <2>1. held' \in Seq(Byte)
    BY <1>2, CallerAssumption DEF Receive, ReaderOK
  <2> QED
    BY <1>2, <2>1
    DEF Receive, reader, framing, ReaderOK, TokenInsideBuffer, FramingConsistent
<1>3. CASE Feed
  <2> DEFINE bytes == Unread \o held
  <2>1. /\ Unread \in Seq(Byte)
        /\ Len(Unread) = Len(ibuffer) - idx
    BY DEF ReaderOK, TokenInsideBuffer, Unread
  <2>2. bytes \in Seq(Byte) /\ Len(bytes) \in Nat
    BY <2>1 DEF ReaderOK
  <2>3. PICK k \in token_size_..Len(bytes) :
          /\ set_buffer(SubSeq(bytes, 1, k))
          /\ held' = SubSeq(bytes, k + 1, Len(bytes))
    BY <1>3 DEF Feed
  <2> DEFINE buf == SubSeq(bytes, 1, k)
  <2> HIDE DEF bytes
  <2>4. k \in Nat /\ token_size_ <= k /\ token_size_ \in Nat
    BY <2>2, <2>3 DEF ReaderOK
  <2>5. buf \in Seq(Byte) /\ Len(buf) = k /\ held' \in Seq(Byte)
    BY <2>2, <2>3, <2>4
  <2> HIDE DEF buf
  <2>6. CASE NextOn(buf, 0)
    BY <1>1, <2>4, <2>5, <2>6
  <2>7. CASE /\ ibuffer' = buf /\ idx' = 0
             /\ UNCHANGED <<state, code_, token_size_, framing, version>>
    BY <2>4, <2>5, <2>7 DEF ReaderOK, TokenInsideBuffer, FramingConsistent, framing
  <2> QED
    BY <2>3, <2>6, <2>7 DEF set_buffer, buf
<1>4. CASE Advance
  BY <1>1, <1>4 DEF Advance, next, ReaderOK, TokenInsideBuffer
<1>5. CASE Restart
  <2>1. ReaderOK'
    BY <1>5, RequestCodes DEF Restart, reset, ReaderOK, State, StartLine, BodyType
  <2>2. TokenInsideBuffer'
    BY <1>5 DEF Restart, reset, TokenInsideBuffer
  <2>3. FramingConsistent'
    BY <1>5
    DEF Restart, reset, FramingConsistent, FramingSuits, BodySuits, Reading, StartLine,
        InChunks, InTrailers
  <2>4. held' \in Seq(Byte)
    BY <1>5 DEF Restart
  <2> QED
    BY <2>1, <2>2, <2>3, <2>4
<1>6. CASE UNCHANGED vars
  BY <1>6
  DEF vars, reader, framing, ReaderOK, TokenInsideBuffer, FramingConsistent
<1> QED
  BY <1>2, <1>3, <1>4, <1>5, <1>6 DEF Next

LEMMA IInvHolds == Spec => []IInv
BY InitIInv, NextIInv, PTL DEF Spec

(* Every variable keeps its type; the reader never reports a code that     *)
(* doc/ref/reader_request.adoc excludes, and body_size never wraps.        *)
THEOREM TypeCorrect == Spec => []TypeOK
<1>1. IInv => TypeOK
  BY DEF IInv, TypeOK
<1> QED
  BY <1>1, IInvHolds, PTL

(* Neither a token nor a scan resumed on another buffer leaves the buffer: *)
(* the views of value<T>() and the loops of next() are within bounds.      *)
THEOREM TokenStaysInside == Spec => []TokenInsideBuffer
<1>1. IInv => TokenInsideBuffer
  BY DEF IInv
<1> QED
  BY <1>1, IInvHolds, PTL

(* The framing always suits the state, in every message of a connection:   *)
(* the UNREACHABLE cases of next() are unreachable.                        *)
THEOREM FramingIsConsistent == Spec => []FramingConsistent
<1>1. IInv => FramingConsistent
  BY DEF IInv
<1> QED
  BY <1>1, IInvHolds, PTL

-----------------------------------------------------------------------------
(* What the request reader's tokens have to do with the bytes of the       *)
(* stream, for every alphabet, every capacity of the caller's memory and   *)
(* every way of cutting the stream into buffers.                           *)
(*                                                                         *)
(* The buffer alone is not enough for an inductive invariant: the caller   *)
(* may shrink it to the current token and give it back the rest later, or  *)
(* other bytes if it has not seen them.  StreamInv therefore speaks of all *)
(* the bytes the caller has: a complete token was delimited by a byte that *)
(* is still in the stream, and a value is expected only when its first     *)
(* byte is.  Of a token that is incomplete it says, state by state, what   *)
(* the bytes left in the buffer can be (Waits).                            *)
(*                                                                         *)
(* Two more parts follow: that the reader implements the token grammar,    *)
(* by the kinds of steps that next() can take (NextOnStep), and that it    *)
(* agrees with a consumer that knows only the tokens (CInv) on the version,*)
(* the framing fields and the bytes that are left of the body.             *)

Stream == Unread \o held

StreamInv == /\ TokenIs(code_, token_size_, Stream, 0)
             /\ code_ = INSUFFICIENT => Waits(state, token_size_, ibuffer, idx)
             /\ state \in ValueState => InkAt(Stream, 0 + Consumed)
             /\ state = "ERRORED" => code_ \in ErrorCode \ {INSUFFICIENT}

LEMMA StreamJoined == Joined(Stream, ibuffer, idx, held)
BY DEF Joined, Stream, Unread

(* The stream starts with what the buffer shows behind the tokens read. *)
LEMMA StreamIsBuffer ==
    ASSUME IInv
    PROVE  /\ idx \in Nat /\ token_size_ \in Nat /\ ibuffer \in Seq(Byte)
           /\ Len(ibuffer) \in Nat /\ idx <= Len(ibuffer)
           /\ idx + token_size_ <= Len(ibuffer)
           /\ Stream \in Seq(Byte) /\ Len(Stream) \in Nat
           /\ Len(Stream) = Len(ibuffer) - idx + Len(held)
           /\ \A k \in 1..(Len(ibuffer) - idx) : Stream[k] = ibuffer[idx + k]
           /\ Shows(Stream, 0, ibuffer, idx)
<1>1. /\ ibuffer \in Seq(Byte) /\ held \in Seq(Byte) /\ idx \in Nat /\ idx <= Len(ibuffer)
      /\ token_size_ \in Nat /\ Len(ibuffer) \in Nat /\ idx + token_size_ <= Len(ibuffer)
  BY DEF IInv, ReaderOK, TokenInsideBuffer
<1>2. /\ ibuffer \in Seq(Byte) /\ held \in Seq(Byte) /\ idx \in Nat /\ idx <= Len(ibuffer)
      /\ Joined(Stream, ibuffer, idx, held)
  BY <1>1, StreamJoined
<1>3. Stream \in Seq(Byte) /\ Len(Stream) \in Nat
  BY <1>2, StreamIndex
<1>4. Len(Stream) = Len(ibuffer) - idx + Len(held)
  BY <1>2, StreamIndex
<1>5. Shows(Stream, 0, ibuffer, idx)
  BY <1>2, StreamIndex
<1>6. \A k \in 1..(Len(ibuffer) - idx) : Stream[k] = ibuffer[idx + k]
  BY <1>1, <1>5 DEF Shows
<1> QED
  BY <1>1, <1>3, <1>4, <1>5, <1>6

(* Where next() reads, with the buffer at offset i. *)
LEMMA StartLineRead ==
    ASSUME NEW buf \in Seq(Byte), NEW i \in Nat, NEW n \in Nat, i # Len(buf),
           i + n <= Len(buf), Ahead(n, buf, i),
           \/ ExpectVersion(buf, i, n)
           \/ ExpectMethod(buf, i, n)
           \/ ExpectSpAfterMethod(buf, i, n)
           \/ ExpectRequestTarget(buf, i, n)
           \/ ExpectStaticStrAfterTarget(buf, i, n)
           \/ ExpectCrlfAfterVersion(buf, i, n)
    PROVE  Read(buf, i)
<1>1. Len(buf) \in Nat /\ i <= Len(buf)
  OBVIOUS
<1>2. "error_invalid_data" \in ErrorCode \ {INSUFFICIENT}
  BY DEF ErrorCode, INSUFFICIENT
<1>3. CASE ExpectMethod(buf, i, n)
  <2>1. Ends(state, token_size_' = Len(buf) - i /\ RestIn(is_tchar, buf, i),
             "EXPECT_SP_AFTER_METHOD", "method",
             token_size_' > 0 /\ MaxRun(is_tchar, buf, i, token_size_'))
    BY <1>3, ScanTokenEnds DEF ExpectMethod, Ahead, Scanned
  <2>2. CASE /\ state' = state /\ code_' = INSUFFICIENT
             /\ token_size_' = Len(buf) - i /\ RestIn(is_tchar, buf, i)
    <3>1. Waits("EXPECT_METHOD", token_size_', buf, i)
      BY <2>2 DEF Waits, Scanned, ScanState, LiteralState, ValueState, RestIn
    <3> QED
      BY <1>3, <2>2, <3>1, WaitRead DEF ExpectMethod, ValueState
  <2>3. CASE /\ state' = "EXPECT_SP_AFTER_METHOD" /\ code_' = "method"
             /\ MaxRun(is_tchar, buf, i, token_size_')
    BY <2>3 DEF Read, TokenIs, INSUFFICIENT, ValueState
  <2> QED
    BY <1>2, <2>1, <2>2, <2>3, FailRead DEF Ends
<1>4. CASE ExpectSpAfterMethod(buf, i, n)
  <2>1. Ends(state, FALSE, "EXPECT_REQUEST_TARGET", "skip",
             token_size_' = 1 /\ buf[i + 1] \in {SP})
    BY <1>4, ByteTokenEnds DEF ExpectSpAfterMethod
  <2> QED
    BY <1>2, <2>1, FailRead, PlainRead DEF Ends, ValueState
<1>5. CASE ExpectRequestTarget(buf, i, n)
  <2>1. Ends(state, token_size_' = Len(buf) - i /\ RestIn(is_request_target_char, buf, i),
             "EXPECT_STATIC_STR_AFTER_TARGET", "request_target",
             token_size_' > 0 /\ MaxRun(is_request_target_char, buf, i, token_size_'))
    BY <1>5, ScanTokenEnds DEF ExpectRequestTarget, Ahead, Scanned
  <2>2. CASE /\ state' = state /\ code_' = INSUFFICIENT
             /\ token_size_' = Len(buf) - i /\ RestIn(is_request_target_char, buf, i)
    <3>1. Waits("EXPECT_REQUEST_TARGET", token_size_', buf, i)
      BY <2>2 DEF Waits, Scanned, ScanState, LiteralState, ValueState, RestIn
    <3> QED
      BY <1>5, <2>2, <3>1, WaitRead DEF ExpectRequestTarget, ValueState
  <2>3. CASE /\ state' = "EXPECT_STATIC_STR_AFTER_TARGET" /\ code_' = "request_target"
             /\ MaxRun(is_request_target_char, buf, i, token_size_')
    BY <2>3 DEF Read, TokenIs, INSUFFICIENT, ValueState
  <2> QED
    BY <1>2, <2>1, <2>2, <2>3, FailRead DEF Ends
<1>6. CASE ExpectStaticStrAfterTarget(buf, i, n)
  <2>1. Ends(state, /\ token_size_' = Len(buf) - i /\ token_size_' < Len(StaticStr)
                    /\ \A k \in 1..token_size_' : buf[i + k] = StaticStr[k],
             "EXPECT_VERSION", "skip", token_size_' = Len(StaticStr))
    BY <1>6, LiteralTokenEnds, LiteralsAssumption
    DEF ExpectStaticStrAfterTarget, Ahead, Scanned, LiteralState
  <2>2. CASE /\ state' = state /\ code_' = INSUFFICIENT
             /\ token_size_' = Len(buf) - i /\ token_size_' < Len(StaticStr)
             /\ \A k \in 1..token_size_' : buf[i + k] = StaticStr[k]
    <3>1. Len(StaticStr) \in Nat
      BY LiteralsAssumption
    <3>2. Waits("EXPECT_STATIC_STR_AFTER_TARGET", token_size_', buf, i)
      BY <1>1, <2>2, <3>1 DEF Waits, Scanned, ScanState, LiteralState, ValueState
    <3> QED
      BY <1>6, <2>2, <3>2, WaitRead DEF ExpectStaticStrAfterTarget, ValueState
  <2> QED
    BY <1>2, <2>1, <2>2, FailRead, PlainRead DEF Ends, ValueState
<1>7. CASE ExpectVersion(buf, i, n)
  <2>1. Ends(state, FALSE, "EXPECT_CRLF_AFTER_VERSION", "version",
             token_size_' = 1 /\ buf[i + 1] \in isdigit)
    BY <1>7, ByteTokenEnds DEF ExpectVersion
  <2>2. CASE /\ state' = "EXPECT_CRLF_AFTER_VERSION" /\ code_' = "version"
             /\ token_size_' = 1 /\ buf[i + 1] \in isdigit
    BY <2>2 DEF Read, TokenIs, INSUFFICIENT, ValueState
  <2> QED
    BY <1>2, <2>1, <2>2, FailRead DEF Ends
<1>8. CASE ExpectCrlfAfterVersion(buf, i, n)
  <2>1. Ends(state, token_size_' = n /\ Len(buf) = i + 1 /\ buf[i + 1] = CR,
             "EXPECT_FIELD_NAME", "skip", token_size_' \in {1, 2})
    BY <1>1, <1>8, LiberalCrlfEnds DEF ExpectCrlfAfterVersion
  <2>2. n = 0
    BY <1>8 DEF ExpectCrlfAfterVersion, Ahead, Scanned, ScanState, LiteralState
  <2>3. CASE /\ state' = state /\ code_' = INSUFFICIENT /\ token_size_' = n
             /\ Len(buf) = i + 1 /\ buf[i + 1] = CR
    <3>1. Waits("EXPECT_CRLF_AFTER_VERSION", token_size_', buf, i)
      BY <2>2, <2>3 DEF Waits, Scanned, ScanState, LiteralState, ValueState
    <3> QED
      BY <1>8, <2>3, <3>1, WaitRead DEF ExpectCrlfAfterVersion, ValueState
  <2> QED
    BY <1>2, <2>1, <2>3, FailRead, PlainRead DEF Ends, ValueState
<1> QED
  BY <1>3, <1>4, <1>5, <1>6, <1>7, <1>8

(* A field name, or the empty line in its place. *)
LEMMA FieldNameRead ==
    ASSUME NEW buf \in Seq(Byte), NEW i \in Nat, NEW n \in Nat, i # Len(buf),
           i + n <= Len(buf), Ahead(n, buf, i),
           ExpectFieldName(buf, i, n) \/ ExpectCrlfAfterHeaders(buf, i, n)
    PROVE  Read(buf, i)
<1>1. Len(buf) \in Nat /\ i <= Len(buf)
  OBVIOUS
<1>2. n = 0
  BY DEF ExpectFieldName, ExpectCrlfAfterHeaders, Ahead, Scanned, ScanState, LiteralState
<1>3. {"error_invalid_data", "error_no_host", "error_invalid_transfer_encoding",
       "error_invalid_content_length"} \subseteq ErrorCode \ {INSUFFICIENT}
  BY DEF ErrorCode, INSUFFICIENT
<1>4. ASSUME NEW size, EndOfHeaders(size) PROVE Read(buf, i)
  BY <1>3, <1>4, FailRead, PlainRead DEF EndOfHeaders, Fail, Emit, ValueState
<1>5. ASSUME CrlfAfterHeaders(buf, i, n) PROVE Read(buf, i)
  <2>1. CASE /\ liberal_crlf(buf, i) = "insufficient_data"
             /\ Suspend("EXPECT_CRLF_AFTER_HEADERS", n)
    <3>1. Len(buf) = i + 1 /\ buf[i + 1] = CR
      BY <1>1, <2>1 DEF liberal_crlf
    <3>2. Waits("EXPECT_CRLF_AFTER_HEADERS", n, buf, i)
      BY <1>2, <3>1 DEF Waits, Scanned, ScanState, LiteralState, ValueState
    <3> QED
      BY <2>1, <3>2, WaitRead DEF Suspend, Emit, ValueState
  <2> QED
    BY <1>3, <1>4, <1>5, <2>1, FailRead DEF CrlfAfterHeaders, Fail, Emit
<1>6. CASE ExpectFieldName(buf, i, n)
  <2>1. PICK e \in i..Len(buf) :
          /\ Run(is_tchar, buf, i, e)
          /\ \/ CrlfAfterHeaders(buf, i, n)
             \/ e = Len(buf) /\ Suspend(state, n)
             \/ e < Len(buf) /\ FieldName(View(buf, i, e), e - i)
    BY <1>6 DEF ExpectFieldName
  <2>2. \A k \in 1..(e - i) : buf[i + k] \in is_tchar
    BY <1>1, <2>1 DEF Run
  <2>3. CASE e = Len(buf) /\ Suspend(state, n)
    <3>1. Waits("EXPECT_FIELD_NAME", n, buf, i)
      BY <1>2, <2>2, <2>3 DEF Waits, Scanned, ScanState, LiteralState, ValueState, RestIn
    <3> QED
      BY <1>6, <2>3, <3>1, WaitRead DEF ExpectFieldName, Suspend, Emit, ValueState
  <2>4. CASE e < Len(buf) /\ FieldName(View(buf, i, e), e - i)
    <3>1. \/ Emit("EXPECT_COLON", "field_name", e - i)
          \/ \E code \in {"error_no_host", "error_invalid_transfer_encoding",
                          "error_invalid_content_length"} : Fail(code, e - i)
      BY <2>4 DEF FieldName, HostName, TransferEncodingField, ContentLengthField, OtherField
    <3>2. MaxRun(is_tchar, buf, i, e - i)
      BY <1>1, <2>1, <2>2, <2>4 DEF MaxRun, Run
    <3>3. CASE Emit("EXPECT_COLON", "field_name", e - i)
      BY <3>2, <3>3 DEF Emit, Read, TokenIs, INSUFFICIENT, ValueState
    <3> QED
      BY <1>3, <3>1, <3>3, FailRead DEF Fail, Emit
  <2> QED
    BY <1>5, <2>1, <2>3, <2>4
<1> QED
  BY <1>5, <1>6 DEF ExpectCrlfAfterHeaders

-----------------------------------------------------------------------------
(* next() on a buffer that shows, at pos, the bytes r from offset j on. *)
LEMMA NextOnReads ==
    ASSUME ReaderOK, TokenInsideBuffer, FramingConsistent,
           NEW r, NEW j \in Nat, Known(r, j), Shows(r, j, ibuffer, idx),
           NEW buf \in Seq(Byte), NEW pos \in Nat,
           pos + token_size_ <= Len(buf), Shows(r, j, buf, pos), NextOn(buf, pos)
    PROVE  /\ ibuffer' = buf
           /\ idx' \in pos..Len(buf)
           /\ \/ Read(buf, idx')
              \/ /\ idx' = pos + Consumed /\ state' = state /\ code_' = INSUFFICIENT
                 /\ Waits(state', token_size_', buf, idx')
<1> DEFINE i == pos + Consumed
           n == token_size_ - Consumed
<1>1. Len(buf) \in Nat /\ token_size_ \in Nat /\ idx \in Nat /\ ibuffer \in Seq(Byte)
  BY DEF ReaderOK
<1>2. i \in Nat /\ n \in Nat /\ i + n = pos + token_size_ /\ Consumed \in Nat
  BY <1>1 DEF Consumed
<1>3. ibuffer' = buf
  BY DEF NextOn
<1>4. CASE state = "ERRORED" /\ idx' = pos
           /\ UNCHANGED <<state, code_, token_size_, framing, version>>
  <2>1. state' = "ERRORED" /\ code_' \in ErrorCode \ {INSUFFICIENT}
    BY <1>4 DEF Known
  <2>2. Read(buf, idx')
    BY <2>1, FailRead
  <2> QED
    BY <1>1, <1>3, <1>4, <2>2
<1>5. CASE idx' = pos + token_size_ /\ (EndOfBody \/ EndOfMessage)
  <2>1. Read(buf, idx')
    BY <1>5, PlainRead DEF EndOfBody, EndOfMessage, Emit, ValueState
  <2> QED
    BY <1>1, <1>3, <1>5, <2>1
<1>6. CASE /\ state \notin {"ERRORED", "EXPECT_END_OF_BODY", "EXPECT_END_OF_MESSAGE"}
           /\ idx' = i /\ i = Len(buf) /\ Suspend(state, n)
  <2>1. state # "EXPECT_END_OF_CONNECTION_ERROR"
    BY DEF ReaderOK, State, StartLine, MessageState, InHeaders, InField, InChunks, InTrailers
  <2>2. Waits(state, n, buf, Len(buf))
    BY <1>1, <1>2, <1>6, <2>1, EmptyWaits
  <2> QED
    BY <1>1, <1>2, <1>3, <1>6, <2>2 DEF Suspend, Emit
<1>7. CASE idx' = i /\ i # Len(buf) /\ ReadToken(buf, i, n)
  <2>1. i + n <= Len(buf) /\ i < Len(buf)
    BY <1>1, <1>2, <1>7
  <2>4. Ahead(n, buf, i)
    BY <1>1, <2>1, BytesAhead DEF TokenInsideBuffer
  <2>5. body_size \in Uint /\ Suitable(state)
    BY DEF ReaderOK, FramingConsistent, FramingSuits, Suitable
  <2>6. "EXPECT_METHOD" \notin ValueState \cup {"ERRORED"}
    BY DEF ValueState
  <2> HIDE DEF i, n
  <2>7. Read(buf, i)
    BY <1>2, <1>7, <2>1, <2>4, <2>5, <2>6, StartLineRead, FieldNameRead, FieldRead,
       BodyRead, ChunkRead, TrailerRead DEF ReadToken
  <2>8. i \in pos..Len(buf)
    BY <1>1, <1>2, <2>1 DEF i
  <2> QED
    BY <1>3, <1>7, <2>7, <2>8
<1> QED
  BY <1>4, <1>5, <1>6, <1>7 DEF NextOn

LEMMA NextOnRead ==
    ASSUME IInv, StreamInv, NEW buf \in Seq(Byte), NEW pos \in Nat,
           pos + token_size_ <= Len(buf), Shows(Stream, 0, buf, pos), NextOn(buf, pos)
    PROVE  /\ ibuffer' = buf
           /\ idx' \in pos..Len(buf)
           /\ \/ Read(buf, idx')
              \/ /\ idx' = pos + Consumed /\ state' = state /\ code_' = INSUFFICIENT
                 /\ Waits(state', token_size_', buf, idx')
<1>1. Known(Stream, 0) /\ Shows(Stream, 0, ibuffer, idx) /\ 0 \in Nat
  BY StreamIsBuffer DEF StreamInv, Known
<1> QED
  BY <1>1, NextOnReads DEF IInv

(* A step of next(), seen on the stream: the consumed bytes leave it. *)
LEMMA NextOnStream ==
    ASSUME IInv, StreamInv, IInv', NEW buf \in Seq(Byte), NEW pos \in Nat,
           pos + token_size_ <= Len(buf), NextOn(buf, pos),
           Joined(Stream, buf, pos, held')
    PROVE  StreamInv'
<1>1. Len(buf) \in Nat /\ token_size_ \in Nat /\ token_size_' \in Nat /\ held' \in Seq(Byte)
      /\ pos <= Len(buf)
  BY DEF IInv, ReaderOK
<1>2. /\ Stream \in Seq(Byte)
      /\ Len(Stream) = Len(buf) - pos + Len(held')
      /\ Shows(Stream, 0, buf, pos)
  BY <1>1, StreamIndex
<1>3. /\ ibuffer' = buf
      /\ idx' \in pos..Len(buf)
      /\ \/ Read(buf, idx')
         \/ /\ idx' = pos + Consumed /\ state' = state /\ code_' = INSUFFICIENT
            /\ Waits(state', token_size_', buf, idx')
  BY <1>1, <1>2, NextOnRead
<1>4. idx' \in Nat /\ pos <= idx' /\ idx' <= Len(buf) /\ idx' - pos \in Nat
  <2>1. ASSUME NEW j \in pos..Len(buf)
        PROVE  j \in Nat /\ pos <= j /\ j <= Len(buf) /\ j - pos \in Nat
    BY <1>1
  <2> QED
    BY <1>3, <2>1
<1>5. Joined(Stream', buf, idx', held')
  BY <1>3 DEF Joined, Stream, Unread
<1>6. /\ Stream' \in Seq(Byte)
      /\ Shows(Stream', 0, buf, idx')
  BY <1>1, <1>4, <1>5, StreamIndex
<1>7. Shows(Stream', 0, Stream, idx' - pos)
  BY <1>1, <1>4, <1>5, StreamSuffix
<1>8. idx' + token_size_' <= Len(buf)
  BY <1>3 DEF IInv, TokenInsideBuffer
<1>9. Consumed' \in Nat /\ Consumed \in Nat
  BY <1>1 DEF Consumed
<1>10. CASE Read(buf, idx')
  <2>1. TokenIs(code_', token_size_', Stream', 0)
    BY <1>1, <1>4, <1>6, <1>8, <1>10, TokenIsShown DEF Read
  <2>2. state' \in ValueState => InkAt(Stream', 0 + Consumed')
    BY <1>4, <1>6, <1>9, <1>10, InkIsShown DEF Read
  <2> QED
    BY <1>3, <1>10, <2>1, <2>2 DEF Read, StreamInv
<1>11. CASE /\ idx' = pos + Consumed /\ state' = state /\ code_' = INSUFFICIENT
            /\ Waits(state', token_size_', buf, idx')
  <2>1. TokenIs(code_', token_size_', Stream', 0)
    BY <1>11 DEF TokenIs, INSUFFICIENT
  <2>2. ASSUME state' \in ValueState PROVE InkAt(Stream', 0 + Consumed')
    <3>1. InkAt(Stream, 0 + Consumed)
      BY <1>11, <2>2 DEF StreamInv
    <3>2. 0 + Consumed = (idx' - pos) + 0 /\ 0 + Consumed' = 0 + 0
      BY <1>4, <1>9, <1>11 DEF Consumed
    <3>3. InkAt(Stream, (idx' - pos) + 0)
      BY <3>1, <3>2
    <3>4. 0 \in Nat /\ Stream \in Seq(Byte) /\ idx' - pos \in Nat /\ Stream' \in Seq(Byte)
      BY <1>2, <1>4, <1>6
    <3>5. InkAt(Stream', 0 + 0)
      BY <1>7, <3>3, <3>4, InkIsShown, Zenon
    <3> QED
      BY <3>2, <3>5
  <2>3. state' # "ERRORED"
    BY <1>11 DEF Waits
  <2> QED
    BY <1>3, <1>11, <2>1, <2>2, <2>3 DEF StreamInv
<1> QED
  BY <1>3, <1>10, <1>11

(* The caller's own steps: bytes are added behind the stream, or the stream *)
(* is cut elsewhere.                                                       *)
LEMMA LongerStream ==
    ASSUME IInv, StreamInv, Stream \in Seq(Byte), Stream' \in Seq(Byte),
           token_size_ <= Len(Stream), Shows(Stream', 0, Stream, 0),
           UNCHANGED <<state, code_, token_size_>>,
           code_ = INSUFFICIENT => UNCHANGED <<ibuffer, idx>>
    PROVE  StreamInv'
<1>1. token_size_ \in Nat /\ Len(Stream) \in Nat /\ Consumed \in Nat /\ Consumed' = Consumed
  BY DEF IInv, ReaderOK, Consumed
<1>2. TokenIs(code_', token_size_', Stream', 0)
  BY <1>1, TokenIsShown DEF StreamInv
<1>3. state' \in ValueState => InkAt(Stream', 0 + Consumed')
  BY <1>1, InkIsShown DEF StreamInv
<1> QED
  BY <1>2, <1>3 DEF StreamInv

LEMMA InitStreamInv == Init => StreamInv
<1> SUFFICES ASSUME Init PROVE StreamInv
  OBVIOUS
<1>1. Waits("EXPECT_METHOD", 0, <<>>, 0)
  BY StartWaits
<1> QED
  BY <1>1 DEF Init, ReaderInit, StreamInv, TokenIs, ValueState, INSUFFICIENT

LEMMA NextStreamInv == IInv /\ StreamInv /\ IInv' /\ [Next]_vars => StreamInv'
<1> SUFFICES ASSUME IInv, StreamInv, IInv', [Next]_vars PROVE StreamInv'
  OBVIOUS
<1>1. /\ ibuffer \in Seq(Byte) /\ held \in Seq(Byte) /\ idx \in Nat /\ idx <= Len(ibuffer)
      /\ token_size_ \in Nat /\ Len(ibuffer) \in Nat /\ idx + token_size_ <= Len(ibuffer)
  BY DEF IInv, ReaderOK, TokenInsideBuffer
<1>2. Stream \in Seq(Byte) /\ Len(Stream) = Len(ibuffer) - idx + Len(held)
      /\ Len(Stream) \in Nat /\ token_size_ <= Len(Stream)
  BY <1>1, StreamIsBuffer
<1>3. CASE Receive
  <2>1. PICK byte \in Byte : held' = Append(held, byte)
    BY <1>3, CallerAssumption DEF Receive
  <2>2. UNCHANGED <<state, code_, token_size_, ibuffer, idx>>
    BY <1>3 DEF Receive, reader
  <2>3. Stream' \in Seq(Byte) /\ Shows(Stream', 0, Stream, 0)
    <3>1. Joined(Stream', ibuffer, idx, Append(held, byte))
      BY <2>1, <2>2 DEF Joined, Stream, Unread
    <3> QED
      BY <1>1, <3>1, StreamGrows, StreamJoined
  <2> QED
    BY <1>2, <2>2, <2>3, LongerStream
<1>4. CASE Feed
  <2>1. PICK k \in token_size_..Len(Stream) :
          /\ set_buffer(SubSeq(Stream, 1, k))
          /\ held' = SubSeq(Stream, k + 1, Len(Stream))
    BY <1>4 DEF Feed, Stream
  <2> DEFINE buf == SubSeq(Stream, 1, k)
  <2>2. k \in 0..Len(Stream)
    BY <1>1, <1>2
  <2>3. /\ buf \in Seq(Byte) /\ Len(buf) = k
        /\ Joined(Stream, buf, 0, held')
    BY <1>2, <2>1, <2>2, StreamCut
  <2> HIDE DEF buf
  <2>4. CASE NextOn(buf, 0)
    <3>1. 0 + token_size_ <= Len(buf)
      BY <1>1, <2>3
    <3> QED
      BY <2>3, <2>4, <3>1, NextOnStream
  <2>5. CASE /\ code_ # INSUFFICIENT /\ ibuffer' = buf /\ idx' = 0
             /\ UNCHANGED <<state, code_, token_size_, framing, version>>
    <3>1. Stream' = Stream
      BY <2>3, <2>5 DEF Joined, Stream, Unread
    <3>2. Shows(Stream', 0, Stream, 0)
      BY <1>2, <3>1 DEF Shows
    <3> QED
      BY <1>2, <2>5, <3>1, <3>2, LongerStream
  <2> QED
    BY <2>1, <2>4, <2>5 DEF set_buffer, buf
<1>5. CASE Advance
  <2>1. NextOn(ibuffer, idx) /\ held' = held
    BY <1>5 DEF Advance, next
  <2>2. Joined(Stream, ibuffer, idx, held')
    BY <2>1 DEF Joined, Stream, Unread
  <2> QED
    BY <1>1, <2>1, <2>2, NextOnStream
<1>6. CASE Restart
  <2>1. Waits("EXPECT_METHOD", 0, <<>>, 0)
    BY StartWaits
  <2> QED
    BY <1>6, <2>1 DEF Restart, reset, StreamInv, TokenIs, ValueState, INSUFFICIENT
<1>7. CASE UNCHANGED vars
  BY <1>7 DEF vars, reader, StreamInv, Stream, Unread, Consumed
<1> QED
  BY <1>3, <1>4, <1>5, <1>6, <1>7 DEF Next

LEMMA StreamInvHolds == Spec => [](IInv /\ StreamInv)
<1>1. Init => IInv /\ StreamInv
  BY InitIInv, InitStreamInv
<1>2. IInv /\ StreamInv /\ [Next]_vars => IInv' /\ StreamInv'
  BY NextIInv, NextStreamInv
<1> QED
  BY <1>1, <1>2, PTL DEF Spec

-----------------------------------------------------------------------------
(* Tokens of the stream, in the buffer. *)
LEMMA RunInBuffer ==
    ASSUME IInv, NEW S, \A k \in 1..token_size_ : Stream[0 + k] \in S
    PROVE  /\ \A k \in (idx + 1)..(idx + token_size_) : ibuffer[k] \in S
           /\ MaxRun(S, Stream, 0, token_size_) /\ idx + token_size_ < Len(ibuffer) =>
                 ibuffer[idx + token_size_ + 1] \notin S
<1>1. /\ idx \in Nat /\ token_size_ \in Nat
      /\ Len(ibuffer) \in Nat /\ idx + token_size_ <= Len(ibuffer)
      /\ \A k \in 1..(Len(ibuffer) - idx) : Stream[k] = ibuffer[idx + k]
  BY StreamIsBuffer
<1>2. ASSUME NEW k \in (idx + 1)..(idx + token_size_) PROVE ibuffer[k] \in S
  <2>1. k - idx \in 1..token_size_ /\ k - idx \in 1..(Len(ibuffer) - idx)
        /\ 0 + (k - idx) = k - idx /\ idx + (k - idx) = k
    BY <1>1
  <2> QED
    BY <1>1, <2>1
<1>3. ASSUME MaxRun(S, Stream, 0, token_size_), idx + token_size_ < Len(ibuffer)
      PROVE  ibuffer[idx + token_size_ + 1] \notin S
  <2>1. token_size_ + 1 \in 1..(Len(ibuffer) - idx) /\ 0 + token_size_ + 1 = token_size_ + 1
        /\ idx + (token_size_ + 1) = idx + token_size_ + 1
    BY <1>1, <1>3
  <2> QED
    BY <1>1, <1>3, <2>1 DEF MaxRun
<1> QED
  BY <1>2, <1>3

LEMMA StreamImpliesRun == IInv /\ StreamInv => TokenIsMaximalRun
<1> SUFFICES ASSUME IInv, StreamInv PROVE TokenIsMaximalRun
  OBVIOUS
<1> DEFINE end == idx + token_size_
<1>1. /\ idx \in Nat /\ token_size_ \in Nat /\ ibuffer \in Seq(Byte)
      /\ Len(ibuffer) \in Nat /\ idx + token_size_ <= Len(ibuffer)
  BY StreamIsBuffer
<1>2. DOMAIN TokenClass = {"method", "request_target", "version", "field_name",
                           "field_value", "chunk_ext", "trailer_name", "trailer_value"}
  BY DEF TokenClass
<1>3. /\ TokenClass["method"] = is_tchar
      /\ TokenClass["request_target"] = is_request_target_char
      /\ TokenClass["version"] = isdigit
      /\ TokenClass["field_name"] = is_tchar
      /\ TokenClass["field_value"] = is_field_value_char
      /\ TokenClass["chunk_ext"] = is_chunk_ext_char
      /\ TokenClass["trailer_name"] = is_tchar
      /\ TokenClass["trailer_value"] = is_field_value_char
  BY DEF TokenClass
<1>4. ASSUME code_ \in DOMAIN TokenClass
      PROVE  /\ \A k \in 1..token_size_ : Stream[0 + k] \in TokenClass[code_]
             /\ code_ # "version" => MaxRun(TokenClass[code_], Stream, 0, token_size_)
  <2>1. TokenIs(code_, token_size_, Stream, 0)
    BY DEF StreamInv
  <2>2. CASE code_ = "version"
    BY <1>3, <2>1, <2>2 DEF TokenIs
  <2>3. CASE code_ # "version"
    <3>1. MaxRun(TokenClass[code_], Stream, 0, token_size_)
      BY <1>2, <1>3, <1>4, <2>1, <2>3 DEF TokenIs
    <3> QED
      BY <3>1 DEF MaxRun
  <2> QED
    BY <2>2, <2>3
<1>5. code_ \in DOMAIN TokenClass =>
          \A k \in (idx + 1)..end : ibuffer[k] \in TokenClass[code_]
  BY <1>4, RunInBuffer
<1>6. code_ \in DOMAIN TokenClass \ {"version"} /\ end < Len(ibuffer) =>
          ibuffer[end + 1] \notin TokenClass[code_]
  BY <1>4, RunInBuffer
<1>7. ASSUME code_ = INSUFFICIENT, token_size_ > 0
      PROVE  \/ /\ expected_token \in {"method", "request_target", "chunk_ext"}
                /\ \A k \in (idx + 1)..end : ibuffer[k] \in TokenClass[expected_token]
             \/ /\ state = "EXPECT_STATIC_STR_AFTER_TARGET"
                /\ TokenBytes = SubSeq(StaticStr, 1, token_size_)
  <2>1. Scanned(state, token_size_, ibuffer, idx)
    BY <1>7 DEF StreamInv, Waits
  <2>2. state \in ScanState \cup LiteralState /\ state \in State
    BY <1>7, <2>1 DEF Scanned, IInv, ReaderOK
  <2>3. ASSUME NEW S, \A k \in 1..token_size_ : ibuffer[idx + k] \in S
        PROVE  \A k \in (idx + 1)..end : ibuffer[k] \in S
    <3> SUFFICES ASSUME NEW k \in (idx + 1)..end PROVE ibuffer[k] \in S
      OBVIOUS
    <3>1. k - idx \in 1..token_size_ /\ idx + (k - idx) = k
      BY <1>1
    <3> QED
      BY <2>3, <3>1
  <2>4. CASE state = "EXPECT_METHOD"
    <3>1. expected_token = "method"
      BY <2>4 DEF expected_token
    <3> QED
      BY <1>3, <2>1, <2>3, <2>4, <3>1 DEF Scanned
  <2>5. CASE state = "EXPECT_REQUEST_TARGET"
    <3>1. expected_token = "request_target"
      BY <2>5 DEF expected_token
    <3> QED
      BY <1>3, <2>1, <2>3, <2>5, <3>1 DEF Scanned
  <2>6. CASE state = "EXPECT_CHUNK_EXT"
    <3>1. expected_token = "chunk_ext"
      BY <2>6 DEF expected_token
    <3> QED
      BY <1>3, <2>1, <2>3, <2>6, <3>1 DEF Scanned
  <2>7. CASE state \in LiteralState
    <3>1. state = "EXPECT_STATIC_STR_AFTER_TARGET"
      BY <2>2, <2>7 DEF LiteralState, State, StartLine, MessageState, InHeaders, InField,
                        InChunks, InTrailers
    <3>2. /\ token_size_ <= Len(StaticStr)
          /\ \A k \in 1..token_size_ : ibuffer[idx + k] = StaticStr[k]
      BY <2>1, <2>7 DEF Scanned
    <3>3. StaticStr \in Seq(Byte) /\ Len(StaticStr) \in Nat
      BY LiteralsAssumption
    <3> DEFINE a == SubSeq(ibuffer, idx + 1, idx + token_size_)
               b == SubSeq(StaticStr, 1, token_size_)
    <3>4. /\ a \in Seq(Byte) /\ Len(a) = token_size_
          /\ \A k \in 1..token_size_ : a[k] = ibuffer[idx + k]
      BY <1>1
    <3>5. /\ b \in Seq(Byte) /\ Len(b) = token_size_
          /\ \A k \in 1..token_size_ : b[k] = StaticStr[k]
      BY <1>1, <3>2, <3>3
    <3> HIDE DEF a, b
    <3>6. Len(a) = Len(b) /\ \A k \in 1..Len(b) : a[k] = b[k]
      BY <3>2, <3>4, <3>5
    <3>7. a = b
      BY <3>4, <3>5, <3>6
    <3> QED
      BY <3>1, <3>7 DEF a, b, TokenBytes, View
  <2> QED
    BY <2>2, <2>4, <2>5, <2>6, <2>7 DEF ScanState
<1> QED
  BY <1>5, <1>6, <1>7 DEF TokenIsMaximalRun

(* A data token is exactly the bytes of its class: next() never cuts one    *)
(* short or runs over its end, however the stream came in.                 *)
THEOREM TokensAreMaximalRuns == Spec => []TokenIsMaximalRun
BY StreamInvHolds, StreamImpliesRun, PTL

(* No field value and no trailer value starts with OWS, wherever the       *)
(* buffer was cut between the colon and the value.                         *)
THEOREM ValuesAreLeftTrimmed == Spec => []ValueIsLeftTrimmed
<1>1. IInv /\ StreamInv => ValueIsLeftTrimmed
  <2> SUFFICES ASSUME IInv, StreamInv, code_ \in {"field_value", "trailer_value"},
                      token_size_ > 0
               PROVE  ibuffer[idx + 1] \notin is_ows
    BY DEF ValueIsLeftTrimmed
  <2>1. Stream[0 + 1] \notin is_ows
    BY DEF StreamInv, TokenIs
  <2>2. Stream[1] = ibuffer[idx + 1]
    BY StreamIsBuffer
  <2> QED
    BY <2>1, <2>2
<1> QED
  BY <1>1, StreamInvHolds, PTL

(* The reader never waits for body bytes while it has some, and never      *)
(* gives an empty chunk.                                                   *)
THEOREM BodyIsNeverStarved == Spec => []BodyNeverStarves
<1>1. IInv /\ StreamInv => BodyNeverStarves
  <2> SUFFICES ASSUME IInv, StreamInv PROVE BodyNeverStarves
    OBVIOUS
  <2>1. ASSUME code_ = INSUFFICIENT, expected_token = "body_chunk"
        PROVE  idx = Len(ibuffer)
    <3>1. state \in {"EXPECT_BODY", "EXPECT_CHUNK_DATA"}
      BY <2>1 DEF expected_token, INSUFFICIENT
    <3> QED
      BY <2>1, <3>1 DEF StreamInv, Waits
  <2>2. code_ = "body_chunk" => token_size_ > 0
    BY DEF StreamInv, TokenIs
  <2> QED
    BY <2>1, <2>2 DEF BodyNeverStarves
<1> QED
  BY <1>1, StreamInvHolds, PTL

-----------------------------------------------------------------------------
(* The bytes a case waited with do not make it go on. *)
LEMMA ReadTokenStays ==
    ASSUME NEW buf \in Seq(Byte), NEW i \in Nat, NEW n \in Nat, i # Len(buf),
           i + n <= Len(buf), Waits(state, n, buf, i), ReadToken(buf, i, n)
    PROVE  Stays(n) /\ version' = version
<1>1. Len(buf) \in Nat /\ i < Len(buf)
  OBVIOUS
<1>2. ~ExpectVersion(buf, i, n) /\ ~ExpectSpAfterMethod(buf, i, n)
  BY DEF ExpectVersion, ExpectSpAfterMethod, Waits
<1>3. ASSUME CrlfAfterHeaders(buf, i, n), Len(buf) = i + 1, buf[i + 1] = CR,
             state = "EXPECT_CRLF_AFTER_HEADERS"
      PROVE  Stays(n) /\ version' = version
  <2>1. liberal_crlf(buf, i) = "insufficient_data"
    BY <1>3, LiberalCrlfWaits
  <2> QED
    BY <1>3, <2>1 DEF CrlfAfterHeaders, Suspend, Emit, Stays, framing
<1>4. CASE ExpectCrlfAfterHeaders(buf, i, n)
  BY <1>1, <1>3, <1>4 DEF ExpectCrlfAfterHeaders, Waits
<1>5. CASE ExpectFieldName(buf, i, n)
  <2>1. RestIn(is_tchar, buf, i)
    BY <1>5 DEF ExpectFieldName, Waits
  <2>2. PICK e \in i..Len(buf) :
          /\ Run(is_tchar, buf, i, e)
          /\ \/ e = i \/ e < Len(buf)
             \/ Suspend(state, n) /\ UNCHANGED <<framing, version>>
    BY <1>5 DEF ExpectFieldName
  <2>3. e = Len(buf)
    BY <2>1, <2>2, RunsToEnd
  <2> QED
    BY <1>1, <2>2, <2>3 DEF Suspend, Emit, Stays
<1>6. ASSUME NEW S, NEW s, NEW code, ScanToken(S, buf, i, n, s, code), n = Len(buf) - i
      PROVE  state' = state /\ code_' = INSUFFICIENT /\ token_size_' = n
  <2>1. PICK e \in (i + n)..Len(buf) : e < Len(buf) \/ Suspend(state, e - i)
    BY <1>6 DEF ScanToken
  <2>2. e = Len(buf) /\ e - i = n
    BY <1>1, <1>6
  <2> QED
    BY <2>1, <2>2 DEF Suspend, Emit
<1>7. ASSUME ExpectMethod(buf, i, n) PROVE Stays(n)
  BY <1>6, <1>7 DEF ExpectMethod, Waits, ScanState, Stays
<1>8. ASSUME ExpectRequestTarget(buf, i, n) PROVE Stays(n)
  BY <1>6, <1>8 DEF ExpectRequestTarget, Waits, ScanState, Stays
<1>9. ASSUME ExpectStaticStrAfterTarget(buf, i, n) PROVE Stays(n)
  <2>1. n = Len(buf) - i /\ n < Len(StaticStr) /\ Len(StaticStr) \in Nat
    BY <1>9, LiteralsAssumption DEF ExpectStaticStrAfterTarget, Waits, LiteralState
  <2>2. (n + 1)..n = {}
    OBVIOUS
  <2>3. state' = state /\ code_' = INSUFFICIENT /\ token_size_' = n
    BY <1>1, <1>9, <2>1, <2>2 DEF ExpectStaticStrAfterTarget, LiteralToken, Suspend, Emit
  <2> QED
    BY <1>9, <2>3 DEF ExpectStaticStrAfterTarget, Stays
<1>10. ASSUME ExpectCrlfAfterVersion(buf, i, n) PROVE Stays(n)
  <2>1. Len(buf) = i + 1 /\ buf[i + 1] = CR
    BY <1>1, <1>10 DEF ExpectCrlfAfterVersion, Waits
  <2> QED
    BY <1>10, <2>1, LiberalCrlfStays DEF ExpectCrlfAfterVersion, Stays
<1>11. ASSUME \/ FieldCase(buf, i, n) \/ ExpectBody(buf, i, n) \/ ChunkCase(buf, i, n)
              \/ TrailerCase(buf, i, n, "EXPECT_METHOD", "NO_BODY")
       PROVE  Stays(n)
  BY <1>11, SharedStays
<1>12. CASE version' = version
  BY <1>2, <1>4, <1>5, <1>7, <1>8, <1>9, <1>10, <1>11, <1>12 DEF ReadToken
<1> QED
  BY <1>2, <1>4, <1>5, <1>12 DEF ReadToken

LEMMA NextOnStays ==
    ASSUME IInv, StreamInv, code_ = INSUFFICIENT, NEW buf \in Seq(Byte), NEW pos \in Nat,
           pos <= Len(buf), Len(buf) - pos = Len(ibuffer) - idx,
           \A k \in 1..(Len(ibuffer) - idx) : buf[pos + k] = ibuffer[idx + k],
           NextOn(buf, pos)
    PROVE  /\ ibuffer' = buf /\ idx' = pos
           /\ UNCHANGED <<state, code_, token_size_, framing, version>>
<1>1. /\ Len(buf) \in Nat /\ token_size_ \in Nat /\ idx \in Nat /\ ibuffer \in Seq(Byte)
      /\ Len(ibuffer) \in Nat /\ idx + token_size_ <= Len(ibuffer) /\ idx <= Len(ibuffer)
  BY DEF IInv, ReaderOK, TokenInsideBuffer
<1>2. pos + Consumed = pos /\ token_size_ - Consumed = token_size_
  BY <1>1 DEF Consumed
<1>3. Waits(state, token_size_, buf, pos)
  BY <1>1, WaitsIsShown DEF StreamInv
<1>4. pos + token_size_ <= Len(buf)
  BY <1>1
<1>5. /\ ibuffer' = buf
      /\ idx' = pos
      /\ \/ Suspend(state, token_size_) /\ UNCHANGED <<framing, version>>
         \/ pos # Len(buf) /\ ReadToken(buf, pos, token_size_)
  BY <1>2, <1>3 DEF NextOn, Waits, EndOfBody, EndOfMessage
<1>6. ASSUME pos # Len(buf), ReadToken(buf, pos, token_size_)
      PROVE  Stays(token_size_) /\ version' = version
  BY <1>1, <1>3, <1>4, <1>6, ReadTokenStays
<1> QED
  BY <1>5, <1>6 DEF Suspend, Emit, Stays

(* A call that shows no new bytes leaves the reader as it was: a suspended *)
(* scan is resumed where it stopped.                                       *)
THEOREM RetriesAreNoops == Spec => RetryIsNoop
<1> DEFINE Noop == code_ = INSUFFICIENT /\ held' = held /\ ibuffer' # <<>> =>
                      /\ Unread' = Unread
                      /\ UNCHANGED <<state, code_, token_size_, framing, version>>
<1>1. IInv /\ StreamInv /\ [Next]_vars => [Noop]_vars
  <2> SUFFICES ASSUME IInv, StreamInv, Next, code_ = INSUFFICIENT, held' = held,
                      ibuffer' # <<>>
               PROVE  /\ Unread' = Unread
                      /\ UNCHANGED <<state, code_, token_size_, framing, version>>
    OBVIOUS
  <2>1. /\ ibuffer \in Seq(Byte) /\ held \in Seq(Byte) /\ idx \in Nat /\ idx <= Len(ibuffer)
        /\ token_size_ \in Nat /\ Len(ibuffer) \in Nat
    BY DEF IInv, ReaderOK, TokenInsideBuffer
  <2>2. CASE Receive
    BY <2>2 DEF Receive, reader, Unread
  <2>3. CASE Feed
    <3>1. PICK k \in token_size_..Len(Stream) :
            /\ set_buffer(SubSeq(Stream, 1, k))
            /\ held' = SubSeq(Stream, k + 1, Len(Stream))
      BY <2>3 DEF Feed, Stream
    <3>2. k \in 0..Len(Stream)
      BY <2>1, StreamIsBuffer
    <3>3. SubSeq(Stream, 1, k) = Unread
      <4>1. SubSeq(Stream, k + 1, Len(Stream)) = held
        BY <3>1
      <4>2. SubSeq(Stream, 1, k) = SubSeq(ibuffer, idx + 1, Len(ibuffer))
        BY <2>1, <3>2, <4>1, StreamSame, StreamJoined
      <4> QED
        BY <4>2 DEF Unread
    <3>4. /\ Unread \in Seq(Byte) /\ Len(Unread) = Len(ibuffer) - idx
          /\ \A j \in 1..(Len(ibuffer) - idx) : Unread[0 + j] = ibuffer[idx + j]
      BY <2>1 DEF Unread
    <3>5. NextOn(Unread, 0)
      BY <3>1, <3>3 DEF set_buffer
    <3>6. 0 <= Len(Unread) /\ Len(Unread) - 0 = Len(ibuffer) - idx
      BY <2>1, <3>4
    <3>7. /\ ibuffer' = Unread /\ idx' = 0
          /\ UNCHANGED <<state, code_, token_size_, framing, version>>
      BY <3>4, <3>5, <3>6, NextOnStays
    <3>8. Unread' = SubSeq(Unread, 0 + 1, Len(Unread))
      BY <3>7 DEF Unread
    <3> QED
      BY <3>4, <3>7, <3>8, WholeSeq
  <2>4. CASE Advance
    <3>1. NextOn(ibuffer, idx)
      BY <2>4 DEF Advance, next
    <3>2. /\ ibuffer' = ibuffer /\ idx' = idx
          /\ UNCHANGED <<state, code_, token_size_, framing, version>>
      BY <2>1, <3>1, NextOnStays
    <3> QED
      BY <3>2 DEF Unread
  <2>5. CASE Restart
    BY <2>5 DEF Restart, reset
  <2> QED
    BY <2>2, <2>3, <2>4, <2>5 DEF Next
<1>2. Spec => [][Noop]_vars
  BY <1>1, StreamInvHolds, PTL DEF Spec
<1> QED
  BY <1>2, PTL DEF RetryIsNoop

-----------------------------------------------------------------------------
(* The states in which expected_token() names a data token, and the token. *)
LEMMA ExpectedState ==
    ASSUME code_ = INSUFFICIENT, category(expected_token) = "data"
    PROVE  \/ state = "EXPECT_METHOD" /\ expected_token = "method"
           \/ state = "EXPECT_REQUEST_TARGET" /\ expected_token = "request_target"
           \/ state = "EXPECT_FIELD_NAME" /\ expected_token = "field_name"
           \/ state = "EXPECT_FIELD_VALUE" /\ expected_token = "field_value"
           \/ state = "EXPECT_CHUNK_EXT" /\ expected_token = "chunk_ext"
           \/ state = "EXPECT_TRAILER_NAME" /\ expected_token = "trailer_name"
           \/ state = "EXPECT_TRAILER_VALUE" /\ expected_token = "trailer_value"
           \/ state \in {"EXPECT_VERSION", "EXPECT_BODY", "EXPECT_CHUNK_DATA"}
<1>1. category(INSUFFICIENT) # "data" /\ category("skip") # "data"
  BY DEF category, INSUFFICIENT, ErrorCode, DataCode, StructuralCode
<1>2. category("end_of_body") # "data" /\ category("end_of_message") # "data"
  BY DEF category, ErrorCode, DataCode, StructuralCode
<1> QED
  BY <1>1, <1>2 DEF expected_token

LEMMA NextOnComes ==
    ASSUME IInv, StreamInv, code_ = INSUFFICIENT, idx < Len(ibuffer),
           category(expected_token) = "data",
           NEW buf \in Seq(Byte), NEW pos \in Nat,
           pos + token_size_ <= Len(buf), Shows(Stream, 0, buf, pos), NextOn(buf, pos),
           code_' \notin ErrorCode
    PROVE  code_' = expected_token
<1>1. /\ Len(buf) \in Nat /\ token_size_ \in Nat /\ idx \in Nat /\ ibuffer \in Seq(Byte)
      /\ Len(ibuffer) \in Nat /\ idx + token_size_ <= Len(ibuffer)
      /\ \A k \in 1..(Len(ibuffer) - idx) : Stream[k] = ibuffer[idx + k]
  BY StreamIsBuffer
<1>2. pos + Consumed = pos /\ token_size_ - Consumed = token_size_
  BY <1>1 DEF Consumed
<1>3. Waits(state, token_size_, ibuffer, idx)
  BY DEF StreamInv
<1>4. {INSUFFICIENT, "error_invalid_data", "error_no_host", "error_invalid_content_length",
       "error_invalid_transfer_encoding"} \subseteq ErrorCode
  BY DEF ErrorCode, INSUFFICIENT
<1>5. pos < Len(buf) /\ ReadToken(buf, pos, token_size_)
  <2>1. \/ Suspend(state, token_size_)
        \/ pos # Len(buf) /\ ReadToken(buf, pos, token_size_)
    BY <1>2, <1>3 DEF NextOn, Waits, EndOfBody, EndOfMessage
  <2> QED
    BY <1>1, <1>4, <2>1 DEF Suspend, Emit
<1>6. state \notin {"EXPECT_VERSION", "EXPECT_BODY", "EXPECT_CHUNK_DATA"}
  BY <1>1, <1>3 DEF Waits
<1>7. state = "EXPECT_CHUNK_EXT" => token_size_ > 0
  BY <1>1, <1>3 DEF Waits, ScanState
<1>8. state \in {"EXPECT_FIELD_NAME", "EXPECT_TRAILER_NAME"} => buf[pos + 1] \in is_tchar
  <2> SUFFICES ASSUME state \in {"EXPECT_FIELD_NAME", "EXPECT_TRAILER_NAME"}
               PROVE  buf[pos + 1] \in is_tchar
    OBVIOUS
  <2>1. RestIn(is_tchar, ibuffer, idx)
    BY <1>3 DEF Waits
  <2>2. 1 \in 1..(Len(ibuffer) - idx) /\ 1 \in 1..(Len(buf) - pos)
    BY <1>1, <1>5
  <2>3. ibuffer[idx + 1] \in is_tchar
    BY <2>1, <2>2 DEF RestIn
  <2>4. Stream[0 + 1] = buf[pos + 1]
    BY <2>2 DEF Shows
  <2> QED
    BY <1>1, <2>2, <2>3, <2>4
<1>9. CASE ExpectVersion(buf, pos, token_size_)
  BY <1>6, <1>9 DEF ExpectVersion
<1>10. CASE ExpectFieldName(buf, pos, token_size_)
  <2>1. state = "EXPECT_FIELD_NAME" /\ expected_token = "field_name"
    BY <1>10 DEF ExpectFieldName, expected_token
  <2>2. PICK e \in pos..Len(buf) :
          /\ Run(is_tchar, buf, pos, e)
          /\ \/ e = pos
             \/ Suspend(state, token_size_)
             \/ e > pos /\ FieldName(View(buf, pos, e), e - pos)
    BY <1>10 DEF ExpectFieldName
  <2>3. e # pos
    BY <1>1, <1>5, <1>8, <2>1, <2>2 DEF Run
  <2>4. CASE FieldName(View(buf, pos, e), e - pos)
    <3>1. code_' \in {"field_name", "error_no_host", "error_invalid_content_length",
                      "error_invalid_transfer_encoding"}
      BY <2>4 DEF FieldName, HostName, TransferEncodingField, ContentLengthField,
                  OtherField, Emit, Fail
    <3> QED
      BY <1>4, <2>1, <3>1
  <2> QED
    BY <1>4, <2>2, <2>3, <2>4 DEF Suspend, Emit
<1>11. CASE ExpectCrlfAfterHeaders(buf, pos, token_size_)
  <2>1. expected_token = "skip"
    BY <1>11 DEF ExpectCrlfAfterHeaders, expected_token
  <2> QED
    BY <1>11, ExpectedState DEF ExpectCrlfAfterHeaders
<1>12. ASSUME NEW S, NEW s, NEW code, ScanToken(S, buf, pos, token_size_, s, code)
       PROVE  code_' = code
  BY <1>4, <1>12 DEF ScanToken, Suspend, Emit, Fail
<1>13. CASE ExpectMethod(buf, pos, token_size_)
  BY <1>12, <1>13 DEF ExpectMethod, expected_token
<1>14. CASE ExpectRequestTarget(buf, pos, token_size_)
  BY <1>12, <1>14 DEF ExpectRequestTarget, expected_token
<1>15. CASE \/ ExpectSpAfterMethod(buf, pos, token_size_)
            \/ ExpectStaticStrAfterTarget(buf, pos, token_size_)
            \/ ExpectCrlfAfterVersion(buf, pos, token_size_)
  BY <1>15, ExpectedState
  DEF ExpectSpAfterMethod, ExpectStaticStrAfterTarget, ExpectCrlfAfterVersion
<1>16. CASE \/ FieldCase(buf, pos, token_size_) \/ ExpectBody(buf, pos, token_size_)
            \/ ChunkCase(buf, pos, token_size_)
            \/ TrailerCase(buf, pos, token_size_, "EXPECT_METHOD", "NO_BODY")
  <2>1. /\ state = "EXPECT_FIELD_VALUE" => code_' = "field_value"
        /\ state = "EXPECT_CHUNK_EXT" => code_' = "chunk_ext"
        /\ state = "EXPECT_TRAILER_NAME" => code_' = "trailer_name"
        /\ state = "EXPECT_TRAILER_VALUE" => code_' = "trailer_value"
    <3>1. pos # Len(buf) /\ (state = "EXPECT_TRAILER_NAME" => buf[pos + 1] \in is_tchar)
      BY <1>1, <1>5, <1>8
    <3> QED
      BY <1>1, <1>7, <1>16, <3>1, SharedComes, Zenon
  <2>2. state \notin {"EXPECT_METHOD", "EXPECT_REQUEST_TARGET", "EXPECT_FIELD_NAME"}
    BY <1>16 DEF FieldCase, ExpectBody, ChunkCase, TrailerCase, ExpectColon,
       ExpectOwsAfterColon, ExpectFieldValue, ExpectCrlfAfterFieldValue, ExpectChunkSize,
       ExpectChunkExt, ExpectCrlfAfterChunkExt, ExpectChunkData, ExpectCrlfAfterChunkData,
       ExpectTrailerName, ExpectTrailerColon, ExpectOwsAfterTrailerColon,
       ExpectTrailerValue, ExpectCrlfAfterTrailerValue, ExpectCrlfAfterTrailers
  <2> QED
    BY <1>6, <2>1, <2>2, ExpectedState
<1> QED
  BY <1>5, <1>9, <1>10, <1>11, <1>13, <1>14, <1>15, <1>16 DEF ReadToken

(* expected_token() is a promise while bytes of an unfinished token are in *)
(* the buffer: the data token it names is the next one, or an error is.    *)
THEOREM ExpectedTokensCome == Spec => ExpectedTokenComes
<1> DEFINE Comes == code_ = INSUFFICIENT /\ Unread # <<>>
                    /\ category(expected_token) = "data" /\ code_' \notin ErrorCode
                    => code_' = expected_token
<1>1. IInv /\ StreamInv /\ [Next]_vars => [Comes]_vars
  <2> SUFFICES ASSUME IInv, StreamInv, Next, code_ = INSUFFICIENT, Unread # <<>>,
                      category(expected_token) = "data", code_' \notin ErrorCode
               PROVE  code_' = expected_token
    OBVIOUS
  <2>1. /\ ibuffer \in Seq(Byte) /\ held \in Seq(Byte) /\ idx \in Nat /\ idx <= Len(ibuffer)
        /\ token_size_ \in Nat /\ Len(ibuffer) \in Nat /\ idx + token_size_ <= Len(ibuffer)
    BY DEF IInv, ReaderOK, TokenInsideBuffer
  <2>2. idx < Len(ibuffer)
    <3>1. CASE idx = Len(ibuffer)
      <4>1. Unread = <<>>
        BY <2>1, <3>1 DEF Unread
      <4> QED
        BY <4>1
    <3> QED
      BY <2>1, <3>1
  <2>3. INSUFFICIENT \in ErrorCode
    BY DEF INSUFFICIENT, ErrorCode
  <2>4. Stream \in Seq(Byte) /\ Len(Stream) \in Nat
        /\ Shows(Stream, 0, ibuffer, idx)
    BY <2>1, StreamIsBuffer
  <2>5. CASE Receive \/ Restart
    BY <2>3, <2>5 DEF Receive, reader, Restart, reset
  <2>6. CASE Feed
    <3>1. PICK k \in token_size_..Len(Stream) : set_buffer(SubSeq(Stream, 1, k))
      BY <2>6 DEF Feed, Stream
    <3> DEFINE buf == SubSeq(Stream, 1, k)
    <3>2. /\ buf \in Seq(Byte) /\ Len(buf) = k
          /\ \A m \in 1..k : buf[m] = Stream[m]
      BY <2>1, <2>4
    <3>3. NextOn(buf, 0)
      BY <3>1 DEF set_buffer
    <3> HIDE DEF buf
    <3>4. Shows(Stream, 0, buf, 0) /\ 0 + token_size_ <= Len(buf)
      BY <2>1, <2>4, <3>2 DEF Shows
    <3> QED
      BY <2>2, <3>2, <3>3, <3>4, NextOnComes
  <2>7. CASE Advance
    BY <2>1, <2>2, <2>4, <2>7, NextOnComes DEF Advance, next
  <2> QED
    BY <2>5, <2>6, <2>7 DEF Next
<1>2. Spec => [][Comes]_vars
  BY <1>1, StreamInvHolds, PTL DEF Spec
<1> QED
  BY <1>2, PTL DEF ExpectedTokenComes

-----------------------------------------------------------------------------
(* The grammar of the tokens. *)

(* The request line and the header section as steps from token to token. *)
OwnSkipEdge == {<<"EXPECT_SP_AFTER_METHOD", "EXPECT_REQUEST_TARGET">>,
                <<"EXPECT_STATIC_STR_AFTER_TARGET", "EXPECT_VERSION">>,
                <<"EXPECT_CRLF_AFTER_VERSION", "EXPECT_FIELD_NAME">>}

OwnTokenEdge == {<<"EXPECT_METHOD", "method", "EXPECT_SP_AFTER_METHOD">>,
                 <<"EXPECT_REQUEST_TARGET", "request_target",
                   "EXPECT_STATIC_STR_AFTER_TARGET">>,
                 <<"EXPECT_VERSION", "version", "EXPECT_CRLF_AFTER_VERSION">>,
                 <<"EXPECT_FIELD_NAME", "field_name", "EXPECT_COLON">>}

OwnStep == \/ WaitStep \/ ErrorStep
           \/ code_' = "skip" /\ token_size_' > 0 /\ <<state, state'>> \in OwnSkipEdge
           \/ token_size_' > 0 /\ <<state, code_', state'>> \in OwnTokenEdge
           \/ /\ state \in {"EXPECT_FIELD_NAME", "EXPECT_CRLF_AFTER_HEADERS"}
              /\ code_' = "end_of_headers" /\ token_size_' > 0
              /\ state' \in {"EXPECT_END_OF_BODY", "EXPECT_CHUNK_SIZE", "EXPECT_BODY"}

LEMMA StartLineStep ==
    ASSUME NEW buf \in Seq(Byte), NEW i \in Nat, NEW n \in Nat, i # Len(buf),
           i + n <= Len(buf),
           \/ ExpectVersion(buf, i, n)
           \/ ExpectMethod(buf, i, n)
           \/ ExpectSpAfterMethod(buf, i, n)
           \/ ExpectRequestTarget(buf, i, n)
           \/ ExpectStaticStrAfterTarget(buf, i, n)
           \/ ExpectCrlfAfterVersion(buf, i, n)
    PROVE  OwnStep
<1>1. Len(buf) \in Nat /\ i <= Len(buf)
  OBVIOUS
<1>2. "error_invalid_data" \in ErrorCode \ {INSUFFICIENT}
  BY DEF ErrorCode, INSUFFICIENT
<1>3. ASSUME NEW S, NEW s, NEW code, ScanToken(S, buf, i, n, s, code)
      PROVE  \/ state' = state /\ code_' = INSUFFICIENT
             \/ state' = s /\ code_' = code /\ token_size_' > 0
             \/ state' = "ERRORED" /\ code_' = "error_invalid_data"
  <2>1. PICK e \in (i + n)..Len(buf) :
          \/ Suspend(state, e - i)
          \/ e > i /\ Emit(s, code, e - i)
          \/ Fail("error_invalid_data", n)
    BY <1>3 DEF ScanToken
  <2>2. e > i => e - i > 0
    BY <1>1
  <2> QED
    BY <2>1, <2>2 DEF Suspend, Emit, Fail
<1>4. CASE ExpectMethod(buf, i, n)
  BY <1>2, <1>3, <1>4 DEF ExpectMethod, framing, OwnStep, WaitStep, ErrorStep, OwnTokenEdge
<1>5. CASE ExpectRequestTarget(buf, i, n)
  BY <1>2, <1>3, <1>5
  DEF ExpectRequestTarget, framing, OwnStep, WaitStep, ErrorStep, OwnTokenEdge
<1>6. CASE ExpectSpAfterMethod(buf, i, n)
  BY <1>2, <1>6
  DEF ExpectSpAfterMethod, ByteToken, Emit, Fail, OwnStep, ErrorStep, OwnSkipEdge
<1>7. CASE ExpectVersion(buf, i, n)
  BY <1>2, <1>7 DEF ExpectVersion, ByteToken, Emit, Fail, OwnStep, ErrorStep, OwnTokenEdge
<1>8. CASE ExpectStaticStrAfterTarget(buf, i, n)
  <2>1. Len(StaticStr) > 0
    BY LiteralsAssumption
  <2> QED
    BY <1>2, <1>8, <2>1
    DEF ExpectStaticStrAfterTarget, LiteralToken, Emit, Suspend, Fail, framing, OwnStep,
        WaitStep, ErrorStep, OwnSkipEdge
<1>9. CASE ExpectCrlfAfterVersion(buf, i, n)
  BY <1>2, <1>9
  DEF ExpectCrlfAfterVersion, LiberalCrlf, Emit, Suspend, Fail, framing, OwnStep, WaitStep,
      ErrorStep, OwnSkipEdge
<1> QED
  BY <1>4, <1>5, <1>6, <1>7, <1>8, <1>9

LEMMA FieldNameStep ==
    ASSUME NEW buf \in Seq(Byte), NEW i \in Nat, NEW n \in Nat, i # Len(buf),
           i + n <= Len(buf),
           ExpectFieldName(buf, i, n) \/ ExpectCrlfAfterHeaders(buf, i, n)
    PROVE  OwnStep
<1>1. Len(buf) \in Nat /\ i <= Len(buf)
  OBVIOUS
<1>2. {"error_invalid_data", "error_no_host", "error_invalid_transfer_encoding",
       "error_invalid_content_length"} \subseteq ErrorCode \ {INSUFFICIENT}
  BY DEF ErrorCode, INSUFFICIENT
<1>3. ASSUME CrlfAfterHeaders(buf, i, n),
             state \in {"EXPECT_FIELD_NAME", "EXPECT_CRLF_AFTER_HEADERS"}
      PROVE  OwnStep
  <2>1. CASE \E size \in {1, 2} : EndOfHeaders(size)
    BY <1>2, <1>3, <2>1 DEF EndOfHeaders, Emit, Fail, OwnStep, ErrorStep
  <2>2. CASE Suspend("EXPECT_CRLF_AFTER_HEADERS", n) /\ UNCHANGED framing
    BY <1>3, <2>2 DEF Suspend, Emit, framing, OwnStep, WaitStep, WaitEdge
  <2> QED
    BY <1>2, <1>3, <2>1, <2>2 DEF CrlfAfterHeaders, Emit, Fail, OwnStep, ErrorStep
<1>4. CASE ExpectFieldName(buf, i, n)
  <2>1. PICK e \in i..Len(buf) :
          \/ CrlfAfterHeaders(buf, i, n)
          \/ Suspend(state, n) /\ UNCHANGED framing
          \/ e > i /\ FieldName(View(buf, i, e), e - i)
    BY <1>4 DEF ExpectFieldName
  <2>2. state = "EXPECT_FIELD_NAME"
    BY <1>4 DEF ExpectFieldName
  <2>3. CASE e > i /\ FieldName(View(buf, i, e), e - i)
    <3>1. \/ Emit("EXPECT_COLON", "field_name", e - i)
          \/ \E code \in {"error_no_host", "error_invalid_transfer_encoding",
                          "error_invalid_content_length"} : Fail(code, e - i)
      BY <2>3 DEF FieldName, HostName, TransferEncodingField, ContentLengthField, OtherField
    <3>2. e - i > 0
      BY <1>1, <2>3
    <3> QED
      BY <1>2, <2>2, <3>1, <3>2 DEF Emit, Fail, OwnStep, ErrorStep, OwnTokenEdge
  <2> QED
    BY <1>3, <2>1, <2>2, <2>3 DEF Suspend, Emit, framing, OwnStep, WaitStep
<1> QED
  BY <1>3, <1>4 DEF ExpectCrlfAfterHeaders

(* next() takes one such step, or reports its error once more. *)
LEMMA NextOnStep ==
    ASSUME IInv, NEW buf \in Seq(Byte), NEW pos \in Nat,
           pos + token_size_ <= Len(buf), NextOn(buf, pos)
    PROVE  \/ UNCHANGED <<state, code_, token_size_, framing>>
           \/ MessageStep("EXPECT_METHOD") \/ OwnStep
           \/ /\ state = "EXPECT_END_OF_BODY" /\ code_' = "end_of_body"
              /\ state' = "EXPECT_END_OF_MESSAGE" /\ token_size_' = 0
           \/ /\ state = "EXPECT_END_OF_MESSAGE" /\ code_' = "end_of_message"
              /\ state' = "EXPECT_METHOD" /\ token_size_' = 0
<1> DEFINE i == pos + Consumed
           n == token_size_ - Consumed
<1>1. Len(buf) \in Nat /\ token_size_ \in Nat
  BY DEF IInv, ReaderOK
<1>2. i \in Nat /\ n \in Nat /\ i + n <= Len(buf)
  BY <1>1 DEF Consumed
<1>3. body_size \in Uint /\ Suitable(state)
  BY DEF IInv, ReaderOK, FramingConsistent, FramingSuits, Suitable
<1>4. state # "EXPECT_END_OF_CONNECTION_ERROR"
  BY DEF IInv, ReaderOK, State, StartLine, MessageState, InHeaders, InField, InChunks, InTrailers
<1>5. CASE EndOfBody \/ EndOfMessage
  BY <1>5 DEF EndOfBody, EndOfMessage, Emit
<1>6. CASE state # "ERRORED" /\ Suspend(state, n) /\ UNCHANGED framing
  BY <1>4, <1>6 DEF Suspend, Emit, framing, OwnStep, WaitStep
<1> HIDE DEF i, n
<1>7. CASE i # Len(buf) /\ ReadToken(buf, i, n)
  BY <1>2, <1>3, <1>7, StartLineStep, FieldNameStep, FieldStep, BodyStep, ChunkStep, TrailerStep
  DEF ReadToken
<1> QED
  BY <1>5, <1>6, <1>7 DEF NextOn, i, n

(* The part of the message that each state belongs to. *)
LEMMA Phases ==
    /\ PhaseOf["EXPECT_METHOD"] = "method"
    /\ PhaseOf["EXPECT_SP_AFTER_METHOD"] = "request_target"
    /\ PhaseOf["EXPECT_REQUEST_TARGET"] = "request_target"
    /\ PhaseOf["EXPECT_STATIC_STR_AFTER_TARGET"] = "version"
    /\ PhaseOf["EXPECT_VERSION"] = "version"
    /\ \A s \in {"EXPECT_CRLF_AFTER_VERSION", "EXPECT_FIELD_NAME",
                 "EXPECT_CRLF_AFTER_FIELD_VALUE", "EXPECT_CRLF_AFTER_HEADERS"} :
          PhaseOf[s] = "fields"
    /\ \A s \in InField : PhaseOf[s] = "value"
    /\ PhaseOf["EXPECT_BODY"] = "body" /\ PhaseOf["EXPECT_END_OF_BODY"] = "body"
    /\ PhaseOf["EXPECT_END_OF_MESSAGE"] = "end"
    /\ PhaseOf["EXPECT_CHUNK_SIZE"] = "chunks"
    /\ PhaseOf["EXPECT_CRLF_AFTER_CHUNK_DATA"] = "chunks"
    /\ PhaseOf["EXPECT_CHUNK_EXT"] = "chunk_line"
    /\ PhaseOf["EXPEXT_CRLF_AFTER_CHUNK_EXT"] = "chunk_line_end"
    /\ PhaseOf["EXPECT_CHUNK_DATA"] = "chunk_data"
    /\ \A s \in {"EXPECT_TRAILER_COLON", "EXPECT_OWS_AFTER_TRAILER_COLON",
                 "EXPECT_TRAILER_VALUE"} : PhaseOf[s] = "trailer_value"
    /\ \A s \in {"EXPECT_TRAILER_NAME", "EXPECT_CRLF_AFTER_TRAILER_VALUE",
                 "EXPECT_CRLF_AFTER_TRAILERS"} : PhaseOf[s] = "trailers"
    /\ PhaseOf["ERRORED"] = "dead"
BY DEF PhaseOf, State, StartLine, MessageState, InHeaders, InField, InChunks, InTrailers

LEMMA Alive == \A s \in State \ {"ERRORED"} : PhaseOf[s] \notin {"closed", "dead"}
BY Phases DEF State, StartLine, MessageState, InHeaders, InField, InChunks, InTrailers

(* The states in which the bytes that are left have been announced. *)
Counted == {"EXPECT_BODY", "EXPECT_CHUNK_EXT", "EXPECT_CHUNK_DATA",
            "EXPEXT_CRLF_AFTER_CHUNK_EXT"}

Left == IF state \in Counted THEN body_size ELSE 0

LEMMA WaitIsToken == ASSUME IInv, WaitStep PROVE Tokens!Next
<1>1. state \in State \ {"ERRORED"}
  BY DEF IInv, ReaderOK, WaitStep
<1>2. Left' = Left
  BY DEF WaitStep, WaitEdge, Left, Counted
<1>3. \/ PhaseOf[state'] = PhaseOf[state]
      \/ PhaseOf[state] = "chunk_line" /\ PhaseOf[state'] = "chunk_line_end"
  BY Phases DEF WaitStep, WaitEdge, InField
<1>4. Tokens!Wait
  BY <1>1, <1>2, <1>3, Alive DEF WaitStep, INSUFFICIENT, Left, Counted, Tokens!Wait
<1> QED
  BY <1>4 DEF Tokens!Next

LEMMA ErrorIsToken == ASSUME IInv, IInv', ErrorStep PROVE Tokens!Next
<1>1. state \in State \ {"ERRORED"} /\ token_size_' \in Nat
  BY DEF IInv, ReaderOK, ErrorStep
<1>2. Left' = 0 /\ PhaseOf[state'] = "dead"
  BY Phases DEF ErrorStep, Left, Counted
<1>3. code_' \in Tokens!ErrorCode \ {"error_insufficient_data"}
  BY DEF ErrorStep, INSUFFICIENT, ErrorCode, Tokens!ErrorCode
<1>4. Tokens!Error
  BY <1>1, <1>2, <1>3, Alive DEF ErrorStep, INSUFFICIENT, Left, Counted, Tokens!Error
<1> QED
  BY <1>4 DEF Tokens!Next

LEMMA SkipIsToken ==
    ASSUME code_' = "skip", token_size_' > 0,
           <<state, state'>> \in SkipEdge \cup OwnSkipEdge
    PROVE  Tokens!Next
<1>1. Left' = 0 /\ Left = 0
  BY DEF SkipEdge, OwnSkipEdge, Left, Counted
<1>2. PhaseOf[state'] = PhaseOf[state] /\ PhaseOf[state] \notin {"closed", "dead"}
  BY Phases DEF SkipEdge, OwnSkipEdge, InField
<1>3. Tokens!Skip
  BY <1>1, <1>2 DEF INSUFFICIENT, Left, Counted, Tokens!Skip
<1> QED
  BY <1>3 DEF Tokens!Next

LEMMA FieldIsToken ==
    ASSUME IInv',
           \/ ValueStep
           \/ token_size_' > 0 /\ <<state, code_', state'>> \in OwnTokenEdge
    PROVE  Tokens!Next
<1>1. Left' = 0 /\ Left = 0 /\ token_size_' \in Nat
  BY DEF ValueStep, OwnTokenEdge, Left, Counted, IInv, ReaderOK
<1>2. CASE ValueStep \/ code_' = "field_name"
  <2>1. Tokens!FieldToken
    BY <1>1, <1>2, Phases
    DEF ValueStep, OwnTokenEdge, InField, INSUFFICIENT, Left, Counted, Tokens!FieldToken,
        Tokens!Step
  <2> QED
    BY <2>1 DEF Tokens!Next
<1>3. CASE /\ token_size_' > 0 /\ <<state, code_', state'>> \in OwnTokenEdge
           /\ code_' # "field_name"
  <2>1. Tokens!StartLineToken
    BY <1>1, <1>3, Phases
    DEF OwnTokenEdge, RequestLine, INSUFFICIENT, Left, Counted, Tokens!StartLineToken
  <2> QED
    BY <2>1 DEF Tokens!Next
<1> QED
  BY <1>2, <1>3

LEMMA DataIsToken == ASSUME IInv, IInv', DataStep PROVE Tokens!Next
<1>1. body_size \in Nat /\ body_size' \in Nat /\ token_size_' \in Nat
  BY UintMaxAssumption DEF IInv, ReaderOK, Uint
<1>2. /\ Left = body_size /\ Left' = Left - token_size_'
      /\ code_' = "body_chunk" /\ token_size_' \in 1..Left
  BY <1>1 DEF DataStep, Left, Counted
<1>3. \/ PhaseOf[state] = "body" /\ PhaseOf[state'] = "body"
      \/ /\ PhaseOf[state] = "chunk_data"
         /\ PhaseOf[state'] = IF Left' = 0 THEN "chunks" ELSE "chunk_data"
  BY <1>1, Phases DEF DataStep, Left, Counted
<1>4. Tokens!BodyChunk
  BY <1>2, <1>3 DEF INSUFFICIENT, Left, Counted, Tokens!BodyChunk, Tokens!Step
<1> QED
  BY <1>4 DEF Tokens!Next

LEMMA ChunkLineIsToken == ASSUME IInv, IInv', ChunkLineStep PROVE Tokens!Next
<1>1. body_size \in Nat /\ body_size' \in Nat
  BY UintMaxAssumption DEF IInv, ReaderOK, Uint
<1>2. Tokens!ChunkLine \/ Tokens!EndOfBody
  BY <1>1, Phases
  DEF ChunkLineStep, INSUFFICIENT, Tokens!ChunkLine, Tokens!EndOfBody, Tokens!Step
<1> QED
  BY <1>2 DEF Tokens!Next

LEMMA HeadersEndIsToken ==
    ASSUME IInv', state \in {"EXPECT_FIELD_NAME", "EXPECT_CRLF_AFTER_HEADERS"},
           code_' = "end_of_headers", token_size_' > 0,
           state' \in {"EXPECT_END_OF_BODY", "EXPECT_CHUNK_SIZE", "EXPECT_BODY"}
    PROVE  Tokens!Next
<1>1. body_size' \in Nat
  BY UintMaxAssumption DEF IInv, ReaderOK, Uint
<1>2. Tokens!EndOfHeaders
  BY <1>1, Phases DEF INSUFFICIENT, Tokens!EndOfHeaders, Tokens!Step
<1> QED
  BY <1>2 DEF Tokens!Next

LEMMA EndIsToken ==
    ASSUME \/ LastStep("EXPECT_METHOD")
           \/ /\ state = "EXPECT_END_OF_BODY" /\ code_' = "end_of_body"
              /\ state' = "EXPECT_END_OF_MESSAGE" /\ token_size_' = 0
           \/ /\ state = "EXPECT_END_OF_MESSAGE" /\ code_' = "end_of_message"
              /\ state' = "EXPECT_METHOD" /\ token_size_' = 0
    PROVE  Tokens!Next
<1>1. Tokens!EndOfMessage \/ Tokens!EndOfBody
  BY Phases
  DEF LastStep, INSUFFICIENT, Tokens!EndOfMessage, Tokens!EndOfBody, Tokens!Step
<1> QED
  BY <1>1 DEF Tokens!Next

(* A call of next() is a step of the grammar or leaves the token as it is. *)
LEMMA NextOnIsToken ==
    ASSUME IInv, IInv', NEW buf \in Seq(Byte), NEW pos \in Nat,
           pos + token_size_ <= Len(buf), NextOn(buf, pos)
    PROVE  Tokens!Next \/ UNCHANGED Tokens!vars
<1>1. CASE UNCHANGED <<state, code_, token_size_, framing>>
  BY <1>1 DEF framing, Tokens!vars
<1>2. CASE MessageStep("EXPECT_METHOD")
  BY <1>2, WaitIsToken, ErrorIsToken, SkipIsToken, FieldIsToken, DataIsToken,
     ChunkLineIsToken, EndIsToken
  DEF MessageStep, SkipStep
<1>3. CASE OwnStep
  BY <1>3, WaitIsToken, ErrorIsToken, SkipIsToken, FieldIsToken, HeadersEndIsToken
  DEF OwnStep
<1> QED
  BY <1>1, <1>2, <1>3, NextOnStep, EndIsToken

(* For every stream, every way of cutting it and every order of calls, the  *)
(* tokens of the request reader come in the order of a message: a field     *)
(* value after each name, a body that is counted down to its end, one end   *)
(* per message, and after an error nothing until reset().  RequestReader    *)
(* implements MessageTokens under the mapping of RequestTokens.             *)
THEOREM TokensImplementGrammar == Spec => TokensFollowGrammar
<1>1. Init => Tokens!Init
  BY Phases DEF Init, ReaderInit, INSUFFICIENT, Tokens!Init
<1>2. IInv /\ IInv' /\ [Next]_vars => [Tokens!Next]_(Tokens!vars)
  <2> SUFFICES ASSUME IInv, IInv', [Next]_vars
               PROVE  Tokens!Next \/ UNCHANGED Tokens!vars
    OBVIOUS
  <2>1. CASE Receive \/ UNCHANGED vars
    BY <2>1 DEF Receive, vars, reader, framing, Tokens!vars
  <2>2. CASE Feed
    <3>1. /\ ibuffer \in Seq(Byte) /\ held \in Seq(Byte) /\ idx \in Nat
          /\ idx <= Len(ibuffer) /\ token_size_ \in Nat
      BY DEF IInv, ReaderOK, TokenInsideBuffer
    <3>2. PICK k \in token_size_..Len(Stream) : set_buffer(SubSeq(Stream, 1, k))
      BY <2>2 DEF Feed, Stream
    <3> DEFINE buf == SubSeq(Stream, 1, k)
    <3>3. Stream \in Seq(Byte) /\ Len(Stream) \in Nat
      BY <3>1, StreamIsBuffer
    <3>4. buf \in Seq(Byte) /\ Len(buf) = k
      BY <3>1, <3>2, <3>3
    <3> HIDE DEF buf
    <3>5. CASE NextOn(buf, 0)
      BY <3>1, <3>2, <3>4, <3>5, NextOnIsToken
    <3>6. CASE UNCHANGED <<state, code_, token_size_, framing, version>>
      BY <3>6 DEF framing, Tokens!vars
    <3> QED
      BY <3>2, <3>5, <3>6 DEF set_buffer, buf
  <2>3. CASE Advance
    BY <2>3, NextOnIsToken DEF Advance, next, IInv, ReaderOK, TokenInsideBuffer
  <2>4. CASE Restart
    <3>1. Tokens!Reset
      BY <2>4, Phases DEF Restart, reset, INSUFFICIENT, Tokens!Reset
    <3> QED
      BY <3>1 DEF Tokens!Next
  <2> QED
    BY <2>1, <2>2, <2>3, <2>4 DEF Next
<1> QED
  BY <1>1, <1>2, IInvHolds, PTL DEF Spec, TokensFollowGrammar, Tokens!Spec

-----------------------------------------------------------------------------
(* What the consumer remembers is of this type; in particular it has never  *)
(* been given more bytes of a body than it was told to expect.             *)
Seen == [http10 : BOOLEAN, hosts : 0..2,
         name : {"none", "Host", "Transfer-Encoding", "Content-Length", "other"},
         te : {"absent", "other", "chunked", "bad"}, cl : Int, left : Nat]

SeenOK == seen \in Seen

(* The reader and the consumer agree on the version and the Host fields...  *)
VersionSeen ==
    /\ seen.http10 <=> version = "HTTP_1_0"
    /\ ~seen.http10 => seen.hosts = IF version = "NOT_HTTP_1_0_AND_HOST_READ" THEN 1 ELSE 0

(* ... on the framing fields ... *)
FieldsSeen ==
    /\ body_type = "NO_BODY" =>
          /\ seen.te = "absent" /\ seen.cl = NONE
          /\ seen.name \notin {"Transfer-Encoding", "Content-Length"}
    /\ body_type = "READING_CONTENT_LENGTH" =>
          seen.te = "absent" /\ seen.cl = NONE /\ seen.name = "Content-Length"
    /\ body_type = "READING_ENCODING" =>
          seen.te \in {"absent", "other"} /\ seen.name = "Transfer-Encoding"
    /\ body_type = "CONTENT_LENGTH_READ" =>
          /\ seen.te = "absent" /\ seen.cl = body_size
          /\ seen.name \notin {"Transfer-Encoding", "Content-Length"}
    /\ body_type = "CHUNKED_ENCODING_READ" =>
          seen.te = "chunked" /\ seen.name # "Transfer-Encoding"
    /\ body_type = "RANDOM_ENCODING_READ" =>
          seen.te = "other" /\ seen.name # "Transfer-Encoding"

BeforeVersion == StartLine \ {"EXPECT_CRLF_AFTER_VERSION"}

AfterVersion == InHeaders \cup {"EXPECT_CRLF_AFTER_VERSION"}

InData == {"EXPECT_BODY", "EXPECT_CHUNK_EXT", "EXPEXT_CRLF_AFTER_CHUNK_EXT",
           "EXPECT_CHUNK_DATA"}

AfterData == {"EXPECT_CHUNK_SIZE", "EXPECT_CRLF_AFTER_CHUNK_DATA", "EXPECT_END_OF_BODY",
              "EXPECT_END_OF_MESSAGE"} \cup InTrailers

(* ... and on the bytes that are left of the body, in the states where the  *)
(* reader still knows them.                                                *)
Heard == /\ SeenOK
         /\ state \in BeforeVersion => seen = Fresh
         /\ state \in AfterVersion => VersionSeen /\ FieldsSeen /\ seen.left = 0
         /\ state \in InData => seen.left = body_size
         /\ state \in AfterData => seen.left = 0

(* What is shown of the consumer. *)
Verdicts == FramingFollowsFields /\ BodyIsComplete /\ RefusalIsJustified

CInv == IInv /\ Heard /\ Verdicts

(* What Learn() makes of each token; the others say nothing. *)
LEMMA Learns ==
    ASSUME NEW bytes
    PROVE  /\ Learn("version", bytes) = [seen EXCEPT !.http10 = (bytes[1] = 48)]
           /\ Learn("field_name", bytes) =
                 [seen EXCEPT !.name = NameOf(bytes),
                              !.hosts = IF NameOf(bytes) = "Host" THEN Min({2, @ + 1}) ELSE @]
           /\ Learn("field_value", bytes) =
                 IF seen.name = "Transfer-Encoding"
                 THEN [seen EXCEPT !.te = MergeCodings(@, decode_field_value(bytes)),
                                   !.name = "none"]
                 ELSE IF seen.name = "Content-Length"
                 THEN [seen EXCEPT !.cl = MergeLengths(@, decode_field_value(bytes)),
                                   !.name = "none"]
                 ELSE [seen EXCEPT !.name = "none"]
           /\ Learn("end_of_headers", bytes) =
                 [seen EXCEPT !.left = IF seen.te = "absent" THEN Max({0, seen.cl}) ELSE 0]
           /\ Learn("skip", bytes) =
                 IF state = "EXPECT_CHUNK_SIZE"
                 THEN [Fresh EXCEPT !.left = seen.left + Number(bytes, HexValue, 16)] ELSE seen
           /\ Learn("body_chunk", bytes) = [Fresh EXCEPT !.left = seen.left - Len(bytes)]
           /\ Learn("end_of_body", bytes) = [Fresh EXCEPT !.left = seen.left]
           /\ Learn("end_of_message", bytes) = Fresh
           /\ \A code \in {"method", "request_target", "chunk_ext", "trailer_name",
                           "trailer_value"} : Learn(code, bytes) = seen
<1>1. Learn("version", bytes) = [seen EXCEPT !.http10 = (bytes[1] = 48)]
  BY DEF Learn
<1>2. Learn("field_name", bytes) =
        [seen EXCEPT !.name = NameOf(bytes),
                     !.hosts = IF NameOf(bytes) = "Host" THEN Min({2, @ + 1}) ELSE @]
  BY DEF Learn
<1>3. Learn("field_value", bytes) =
        IF seen.name = "Transfer-Encoding"
        THEN [seen EXCEPT !.te = MergeCodings(@, decode_field_value(bytes)), !.name = "none"]
        ELSE IF seen.name = "Content-Length"
        THEN [seen EXCEPT !.cl = MergeLengths(@, decode_field_value(bytes)), !.name = "none"]
        ELSE [seen EXCEPT !.name = "none"]
  <2>1. CASE seen.name = "Transfer-Encoding"
    BY <2>1 DEF Learn
  <2>2. CASE seen.name = "Content-Length"
    BY <2>2 DEF Learn
  <2>3. CASE seen.name \notin {"Transfer-Encoding", "Content-Length"}
    BY <2>3 DEF Learn
  <2> QED
    BY <2>1, <2>2, <2>3
<1>4. Learn("end_of_headers", bytes) =
        [seen EXCEPT !.left = IF seen.te = "absent" THEN Max({0, seen.cl}) ELSE 0]
  BY DEF Learn
<1>5. Learn("skip", bytes) = IF state = "EXPECT_CHUNK_SIZE"
                             THEN [Fresh EXCEPT !.left = seen.left + Number(bytes, HexValue, 16)]
                             ELSE seen
  <2>1. CASE state = "EXPECT_CHUNK_SIZE"
    BY <2>1 DEF Learn
  <2>2. CASE state # "EXPECT_CHUNK_SIZE"
    BY <2>2 DEF Learn
  <2> QED
    BY <2>1, <2>2
<1>6. /\ Learn("body_chunk", bytes) = [Fresh EXCEPT !.left = seen.left - Len(bytes)]
      /\ Learn("end_of_body", bytes) = [Fresh EXCEPT !.left = seen.left]
      /\ Learn("end_of_message", bytes) = Fresh
  BY DEF Learn
<1>7. ASSUME NEW code \in {"method", "request_target", "chunk_ext", "trailer_name",
                           "trailer_value"}
      PROVE  Learn(code, bytes) = seen
  BY DEF Learn
<1> QED
  BY <1>1, <1>2, <1>3, <1>4, <1>5, <1>6, <1>7
-----------------------------------------------------------------------------
(* No state is in two parts of a message. *)
LEMMA Parts ==
    /\ BeforeVersion \cap (AfterVersion \cup InData \cup AfterData) = {}
    /\ AfterVersion \cap (InData \cup AfterData) = {}
    /\ InData \cap AfterData = {}
    /\ "ERRORED" \notin BeforeVersion \cup AfterVersion \cup InData \cup AfterData
BY DEF BeforeVersion, AfterVersion, InData, AfterData, StartLine, InHeaders, InField,
       InTrailers

(* A step whose token says nothing, between two states of the same part. *)
QuietCode == {INSUFFICIENT, "error_invalid_data", "error_chunk_size_overflow", "method",
              "request_target", "chunk_ext", "trailer_name", "trailer_value"}

LEMMA QuietVerdicts ==
    ASSUME Heard', code_' \in QuietCode \cup {"skip", "version", "field_name", "field_value",
                                              "body_chunk", "end_of_message"}
    PROVE  Verdicts'
BY DEF Heard, SeenOK, Seen, QuietCode, INSUFFICIENT, Verdicts, FramingFollowsFields, BodyIsComplete,
       RefusalIsJustified

LEMMA QuietHeard ==
    ASSUME Heard, Look(TRUE),
           code_' \in QuietCode \/ (code_' = "skip" /\ state # "EXPECT_CHUNK_SIZE"),
           \/ state' = "ERRORED"
           \/ state \in BeforeVersion /\ state' \in BeforeVersion
           \/ /\ state \in AfterVersion /\ state' \in AfterVersion
              /\ UNCHANGED <<framing, version>>
           \/ state \in InData /\ state' \in InData /\ body_size' = body_size
           \/ state \in AfterData /\ state' \in AfterData
    PROVE  Heard' /\ Verdicts'
<1>1. seen' = seen
  <2>1. CASE code_' \in {INSUFFICIENT, "error_invalid_data", "error_chunk_size_overflow"}
    BY <2>1 DEF Look, ErrorCode, INSUFFICIENT
  <2>2. CASE code_' \in {"method", "request_target", "chunk_ext", "trailer_name",
                         "trailer_value"}
    BY <2>2, Learns DEF Look
  <2>3. CASE code_' = "skip" /\ state # "EXPECT_CHUNK_SIZE"
    BY <2>3, Learns DEF Look
  <2> QED
    BY <2>1, <2>2, <2>3 DEF QuietCode
<1>2. Heard'
  <2>1. SeenOK'
    BY <1>1 DEF Heard, SeenOK
  <2>2. CASE state' = "ERRORED"
    BY <2>1, <2>2, Parts DEF Heard
  <2>3. CASE UNCHANGED <<framing, version>>
    <3>1. (VersionSeen <=> VersionSeen') /\ (FieldsSeen <=> FieldsSeen')
      BY <1>1, <2>3 DEF VersionSeen, FieldsSeen, framing
    <3>2. body_size' = body_size
      BY <2>3 DEF framing
    <3> QED
      BY <1>1, <2>1, <2>2, <3>1, <3>2, Parts DEF Heard
  <2> QED
    BY <1>1, <2>1, <2>2, <2>3, Parts DEF Heard
<1> QED
  BY <1>2, QuietVerdicts

-----------------------------------------------------------------------------

LEMMA FreshIs ==
    /\ Fresh \in Seen
    /\ \A l \in Nat : [Fresh EXCEPT !.left = l] \in Seen
                      /\ [Fresh EXCEPT !.left = l].left = l
<1>1. Fresh \in Seen
  BY DEF Fresh, Seen, NONE
<1>2. ASSUME NEW l \in Nat
      PROVE  [Fresh EXCEPT !.left = l] \in Seen /\ [Fresh EXCEPT !.left = l].left = l
  BY <1>1 DEF Seen
<1> QED
  BY <1>1, <1>2

(* The body: the reader counts down what the consumer does. *)
LEMMA BodyHeard ==
    ASSUME IInv, Heard, Look(TRUE), state \in InData \cup AfterData,
           MessageStep("EXPECT_METHOD"), Len(TokenBytes') = token_size_',
           state' = "ERRORED" => code_' \in QuietCode,
           /\ state = "EXPECT_CHUNK_SIZE" /\ code_' = "skip" =>
                 body_size' = Number(TokenBytes', HexValue, 16) /\ body_size' \in Nat
    PROVE  Heard' /\ Verdicts'
<1>1. /\ state # "ERRORED" /\ state \notin AfterVersion
      /\ {"skip", "body_chunk", "end_of_body", "end_of_message"} \cap ErrorCode = {}
  BY Parts DEF ErrorCode
<1>2. ASSUME NEW l \in Nat, seen' = [Fresh EXCEPT !.left = l],
             code_' \in {"skip", "body_chunk", "end_of_body"},
             state' \in InData => l = body_size', state' \in AfterData => l = 0,
             code_' = "end_of_body" => l = 0, state' \in InData \cup AfterData
      PROVE  Heard' /\ Verdicts'
  <2>1. SeenOK' /\ seen'.left = l
    BY <1>2, FreshIs DEF SeenOK
  <2>2. Heard'
    BY <1>2, <2>1, Parts DEF Heard
  <2> QED
    BY <1>2, <2>1, <2>2
    DEF Verdicts, FramingFollowsFields, BodyIsComplete, RefusalIsJustified
<1>3. CASE WaitStep
  <2>1. \/ state \in InData /\ state' \in InData
        \/ state \in AfterData /\ state' \in AfterData
    BY <1>3 DEF WaitStep, WaitEdge, InData, AfterData, InTrailers
  <2> QED
    BY <1>3, <2>1, QuietHeard DEF WaitStep, QuietCode
<1>4. CASE ErrorStep
  BY <1>4, QuietHeard DEF ErrorStep
<1>5. CASE SkipStep
  <2>1. state # "EXPECT_CHUNK_SIZE" /\ state \in AfterData /\ state' \in AfterData
    BY <1>5 DEF SkipStep, SkipEdge, InData, AfterData, InTrailers
  <2> QED
    BY <1>5, <2>1, QuietHeard DEF SkipStep
<1>6. CASE ValueStep
  <2>1. /\ state \in AfterData /\ state' \in AfterData
        /\ code_' \in {"trailer_name", "trailer_value"}
    BY <1>6 DEF ValueStep, InData, AfterData, InTrailers
  <2> QED
    BY <2>1, QuietHeard DEF QuietCode
<1>7. CASE DataStep
  <2>1. seen.left = body_size /\ body_size \in Nat /\ token_size_' \in 1..body_size
    <3>1. state \in InData /\ token_size_' \in 1..body_size
      BY <1>7 DEF DataStep, InData
    <3>2. body_size \in Nat
      BY UintMaxAssumption DEF IInv, ReaderOK, Uint
    <3> QED
      BY <3>1, <3>2 DEF Heard
  <2>2. seen' = [Fresh EXCEPT !.left = body_size']
    BY <1>1, <1>7, <2>1, Learns DEF Look, DataStep
  <2>3. body_size' \in Nat
    <3>1. body_size' = body_size - token_size_'
      BY <1>7 DEF DataStep
    <3> QED
      BY <2>1, <3>1, RestIsNat
  <2>4. state' \in InData \/ (state' \in AfterData /\ body_size' = 0)
    BY <1>7 DEF DataStep, InData, AfterData
  <2> QED
    BY <1>2, <1>7, <2>2, <2>3, <2>4, Parts DEF DataStep
<1>8. CASE ChunkLineStep
  <2>1. CASE state = "EXPECT_CHUNK_SIZE" /\ code_' = "skip" /\ state' = "EXPECT_CHUNK_EXT"
    <3>1. /\ seen' = Learn("skip", TokenBytes') /\ body_size' \in Nat
          /\ body_size' = Number(TokenBytes', HexValue, 16)
      BY <1>1, <2>1 DEF Look
    <3>0. seen' = [Fresh EXCEPT !.left = body_size']
      <4>1. seen.left = 0
        BY <2>1 DEF Heard, AfterData
      <4>2. seen.left + Number(TokenBytes', HexValue, 16) = body_size'
        BY <3>1, <4>1
      <4>3. seen' = [Fresh EXCEPT !.left = seen.left + Number(TokenBytes', HexValue, 16)]
        BY <2>1, <3>1, Learns
      <4> QED
        BY ONLY <4>2, <4>3
    <3>2. state' \in InData /\ state' \notin AfterData
      BY <2>1, Parts DEF InData
    <3> QED
      BY <1>2, <2>1, <3>0, <3>1, <3>2
  <2>2. CASE /\ code_' \in {"chunk_ext", "skip"} /\ body_size' = body_size
             /\ state \in {"EXPECT_CHUNK_EXT", "EXPEXT_CRLF_AFTER_CHUNK_EXT"}
             /\ state' \in {"EXPECT_CHUNK_DATA", "EXPEXT_CRLF_AFTER_CHUNK_EXT"}
    BY <2>2, QuietHeard DEF InData, QuietCode
  <2>3. CASE /\ code_' = "end_of_body" /\ body_size = 0 /\ body_size' = 0
             /\ state \in {"EXPECT_CHUNK_EXT", "EXPEXT_CRLF_AFTER_CHUNK_EXT"}
             /\ state' = "EXPECT_TRAILER_NAME"
    <3>1. seen.left = 0
      BY <2>3 DEF Heard, InData
    <3>2. seen' = [Fresh EXCEPT !.left = 0]
      BY <1>1, <2>3, <3>1, Learns DEF Look
    <3>3. state' \in AfterData
      BY <2>3 DEF AfterData, InTrailers
    <3> QED
      BY <1>2, <2>3, <3>2, <3>3
  <2> QED
    BY <1>8, <2>1, <2>2, <2>3 DEF ChunkLineStep
<1>9. CASE LastStep("EXPECT_METHOD")
  <2>1. seen' = Fresh /\ code_' = "end_of_message" /\ state' \in BeforeVersion
    BY <1>1, <1>9, Learns DEF Look, LastStep, BeforeVersion, StartLine
  <2>2. Heard'
    BY <2>1, Parts, FreshIs DEF Heard, SeenOK
  <2> QED
    BY <2>1, <2>2, QuietVerdicts
<1> QED
  BY <1>3, <1>4, <1>5, <1>6, <1>7, <1>8, <1>9 DEF MessageStep
-----------------------------------------------------------------------------
(* The request line: the consumer knows of the version only. *)
LEMMA StartLineHeard ==
    ASSUME IInv, Heard, Look(TRUE),
           NEW buf \in Seq(Byte), NEW i \in Nat, NEW n \in Nat, ibuffer' = buf, idx' = i,
           i + n <= Len(buf), i # Len(buf),
           \/ ExpectVersion(buf, i, n)
           \/ /\ \/ ExpectMethod(buf, i, n)
                 \/ ExpectSpAfterMethod(buf, i, n)
                 \/ ExpectRequestTarget(buf, i, n)
                 \/ ExpectStaticStrAfterTarget(buf, i, n)
                 \/ ExpectCrlfAfterVersion(buf, i, n)
              /\ UNCHANGED version
    PROVE  Heard' /\ Verdicts'
<1>1. ASSUME NEW s, NEW code \in QuietCode \cup {"skip"}, Outcome(buf, i, state, s, code),
             \/ state \in BeforeVersion /\ s \in BeforeVersion
             \/ state \in AfterVersion /\ s \in AfterVersion /\ UNCHANGED <<framing, version>>
      PROVE  Heard' /\ Verdicts'
  <2>1. state # "EXPECT_CHUNK_SIZE"
    BY <1>1, Parts DEF AfterData
  <2> QED
    BY <1>1, <2>1, QuietHeard DEF Outcome, QuietCode
<1>2. {"method", "request_target"} \subseteq QuietCode
  BY DEF QuietCode
<1>3. CASE ExpectMethod(buf, i, n)
  <2>1. Outcome(buf, i, state, "EXPECT_SP_AFTER_METHOD", "method")
    BY <1>3, ScanTokenOutcome DEF ExpectMethod
  <2> QED
    BY <1>1, <1>2, <1>3, <2>1 DEF ExpectMethod, BeforeVersion, StartLine
<1>4. CASE ExpectSpAfterMethod(buf, i, n)
  <2>1. Outcome(buf, i, state, "EXPECT_REQUEST_TARGET", "skip")
    BY <1>4, ByteTokenOutcome DEF ExpectSpAfterMethod
  <2> QED
    BY <1>1, <1>4, <2>1 DEF ExpectSpAfterMethod, BeforeVersion, StartLine
<1>5. CASE ExpectRequestTarget(buf, i, n)
  <2>1. Outcome(buf, i, state, "EXPECT_STATIC_STR_AFTER_TARGET", "request_target")
    BY <1>5, ScanTokenOutcome DEF ExpectRequestTarget
  <2> QED
    BY <1>1, <1>2, <1>5, <2>1 DEF ExpectRequestTarget, BeforeVersion, StartLine
<1>6. CASE ExpectStaticStrAfterTarget(buf, i, n)
  <2>1. Outcome(buf, i, state, "EXPECT_VERSION", "skip")
    BY <1>6, LiteralsAssumption, LiteralTokenOutcome DEF ExpectStaticStrAfterTarget
  <2> QED
    BY <1>1, <1>6, <2>1 DEF ExpectStaticStrAfterTarget, BeforeVersion, StartLine
<1>7. CASE ExpectCrlfAfterVersion(buf, i, n) /\ UNCHANGED version
  <2>1. Outcome(buf, i, state, "EXPECT_FIELD_NAME", "skip")
    BY <1>7, LiberalCrlfOutcome DEF ExpectCrlfAfterVersion
  <2> QED
    BY <1>1, <1>7, <2>1 DEF ExpectCrlfAfterVersion, AfterVersion, InHeaders
<1>8. CASE ExpectVersion(buf, i, n)
  <2>1. state = "EXPECT_VERSION" /\ state \in BeforeVersion /\ state # "ERRORED"
    BY <1>8 DEF ExpectVersion, BeforeVersion, StartLine
  <2>2. CASE Fail("error_invalid_data", n)
    BY <2>1, <2>2, QuietHeard DEF Fail, Emit, QuietCode
  <2>3. CASE /\ buf[i + 1] \in isdigit
             /\ Emit("EXPECT_CRLF_AFTER_VERSION", "version", 1)
    <3>1. TokenBytes'[1] = buf[i + 1]
      <4>1. TokenBytes' = View(buf, i, i + 1)
        BY <2>3 DEF TokenBytes, Emit
      <4>2. i + 1 \in i..Len(buf) /\ Len(buf) \in Nat
        OBVIOUS
      <4> QED
        BY <4>1, <4>2 DEF View
    <3>2. seen = Fresh
      BY <2>1 DEF Heard
    <3>3. seen' = [Fresh EXCEPT !.http10 = (buf[i + 1] = 48)]
      <4>1. seen' = Learn("version", TokenBytes')
        BY <2>1, <2>3 DEF Look, Emit, ErrorCode
      <4>2. seen' = [seen EXCEPT !.http10 = (TokenBytes'[1] = 48)]
        BY <4>1, Learns
      <4> QED
        BY <3>1, <3>2, <4>2
    <3>4. SeenOK' /\ (seen'.http10 <=> buf[i + 1] = 48)
      <4>1. Fresh \in Seen /\ (buf[i + 1] = 48) \in BOOLEAN
        BY FreshIs
      <4> QED
        BY <3>3, <4>1 DEF SeenOK, Seen
    <3>5. /\ seen'.hosts = 0 /\ seen'.te = "absent" /\ seen'.cl = NONE
          /\ seen'.name = "none" /\ seen'.left = 0
      BY <3>3 DEF Fresh
    <3>6. version' = IF buf[i + 1] = 48 THEN "HTTP_1_0" ELSE "NOT_HTTP_1_0_AND_HOST_NOT_READ"
      BY <1>8, <2>3 DEF ExpectVersion
    <3>7. body_type' = "NO_BODY"
      BY <1>8, <2>1
      DEF ExpectVersion, IInv, FramingConsistent, FramingSuits, BeforeVersion, framing
    <3>8. VersionSeen'
      BY <3>4, <3>5, <3>6 DEF VersionSeen
    <3>9. FieldsSeen'
      BY <3>5, <3>7 DEF FieldsSeen
    <3>10. state' \in AfterVersion /\ code_' = "version"
      BY <2>3 DEF Emit, AfterVersion
    <3>11. Heard'
      BY <3>4, <3>5, <3>8, <3>9, <3>10, Parts DEF Heard
    <3> QED
      BY <3>10, <3>11, QuietVerdicts
  <2> QED
    BY <1>8, <2>2, <2>3 DEF ExpectVersion, ByteToken
<1> QED
  BY <1>3, <1>4, <1>5, <1>6, <1>7, <1>8

-----------------------------------------------------------------------------
(* The header fields. *)

(* The reader and the consumer take a field name for the same field. *)
LEMMA NameIs ==
    ASSUME NEW name
    PROVE  /\ iequals(name, Host) => NameOf(name) = "Host"
           /\ iequals(name, TransferEncodingName) => NameOf(name) = "Transfer-Encoding"
           /\ iequals(name, ContentLength) => NameOf(name) = "Content-Length"
           /\ (\A known \in {Host, TransferEncodingName, ContentLength} :
                  ~iequals(name, known)) => NameOf(name) = "other"
<1>1. /\ ~(iequals(name, Host) /\ iequals(name, TransferEncodingName))
      /\ ~(iequals(name, Host) /\ iequals(name, ContentLength))
      /\ ~(iequals(name, TransferEncodingName) /\ iequals(name, ContentLength))
  BY SameName, LiteralsAssumption, HostAssumption
<1> QED
  BY <1>1 DEF NameOf

(* What the consumer remembers after a field name. *)
LEMMA NameLearned ==
    ASSUME Heard, NEW bytes, seen' = Learn("field_name", bytes)
    PROVE  /\ SeenOK'
           /\ seen'.name = NameOf(bytes)
           /\ seen'.http10 = seen.http10 /\ seen'.te = seen.te /\ seen'.cl = seen.cl
           /\ seen'.left = seen.left
           /\ NameOf(bytes) # "Host" => seen'.hosts = seen.hosts
           /\ NameOf(bytes) = "Host" /\ seen.hosts = 0 => seen'.hosts = 1
<1> DEFINE hosts == IF NameOf(bytes) = "Host" THEN Min({2, seen.hosts + 1}) ELSE seen.hosts
<1>1. seen \in Seen
  BY DEF Heard, SeenOK
<1>2. seen' = [seen EXCEPT !.name = NameOf(bytes), !.hosts = hosts]
  BY Learns
<1>3. NameOf(bytes) \in {"Host", "Transfer-Encoding", "Content-Length", "other"}
  BY DEF NameOf
<1>4. /\ hosts \in 0..2
      /\ NameOf(bytes) = "Host" /\ seen.hosts = 0 => hosts = 1
  <2>1. seen.hosts \in 0..2
    BY <1>1 DEF Seen
  <2>2. ASSUME NEW h \in 0..2 PROVE Min({2, h + 1}) \in 0..2 /\ (h = 0 => Min({2, h + 1}) = 1)
    <3>1. /\ {2, h + 1} \in SUBSET (0..3) /\ {2, h + 1} # {} /\ 3 \in Nat
      OBVIOUS
    <3>2. /\ Min({2, h + 1}) \in {2, h + 1} /\ \A k \in {2, h + 1} : Min({2, h + 1}) <= k
      BY <3>1, MinOf
    <3> QED
      BY <3>2
  <2> QED
    BY <2>1, <2>2
<1> HIDE DEF hosts
<1>5. seen' \in Seen
  BY <1>1, <1>2, <1>3, <1>4 DEF Seen
<1> QED
  BY <1>1, <1>2, <1>4, <1>5 DEF SeenOK, Seen, hosts

-----------------------------------------------------------------------------
(* The ways in which a step of the header section ends well. *)
LEMMA FieldsHeard ==
    ASSUME state' \in AfterVersion, SeenOK', VersionSeen', FieldsSeen', seen'.left = 0,
           code_' \in {"field_name", "field_value"}
    PROVE  Heard' /\ Verdicts'
<1>1. Heard'
  BY Parts DEF Heard
<1> QED
  BY <1>1, QuietVerdicts

LEMMA RefusedHeard ==
    ASSUME Heard, Look(TRUE), state' = "ERRORED", code_' \in ErrorCode,
           seen' = seen => RefusalIsJustified'
    PROVE  Heard' /\ Verdicts'
<1>1. seen' = seen
  BY DEF Look
<1>2. Heard'
  BY <1>1, Parts DEF Heard, SeenOK
<1>3. code_' \notin {"end_of_headers", "end_of_body"}
  BY DEF ErrorCode
<1>4. seen'.left >= 0
  BY <1>2 DEF Heard, SeenOK, Seen
<1> QED
  BY <1>1, <1>2, <1>3, <1>4 DEF Verdicts, FramingFollowsFields, BodyIsComplete

(* A field name. *)
LEMMA FieldNameHeard ==
    ASSUME IInv, Heard, Look(TRUE), state = "EXPECT_FIELD_NAME",
           NEW name, NEW size, FieldName(name, size), TokenBytes' = name
    PROVE  Heard' /\ Verdicts'
<1>1. /\ state \in AfterVersion /\ state # "ERRORED"
      /\ "EXPECT_COLON" \in AfterVersion /\ "field_name" \notin ErrorCode
  BY DEF AfterVersion, InHeaders, InField, ErrorCode
<1>2. VersionSeen /\ FieldsSeen /\ seen.left = 0
  BY <1>1 DEF Heard
<1>3. {"error_no_host", "error_invalid_transfer_encoding", "error_invalid_content_length"}
        \subseteq ErrorCode
  BY DEF ErrorCode
<1>4. ASSUME code_' = "field_name"
      PROVE  /\ SeenOK'
             /\ seen'.name = NameOf(name)
             /\ seen'.http10 = seen.http10 /\ seen'.te = seen.te /\ seen'.cl = seen.cl
             /\ seen'.left = seen.left
             /\ NameOf(name) # "Host" => seen'.hosts = seen.hosts
             /\ NameOf(name) = "Host" /\ seen.hosts = 0 => seen'.hosts = 1
  <2>1. seen' = Learn("field_name", name)
    BY <1>1, <1>4 DEF Look
  <2> QED
    BY <2>1, NameLearned
<1>5. body_type \notin Reading /\ version \in Version /\ body_size \in Uint
  BY DEF IInv, ReaderOK, FramingConsistent, FramingSuits, BodySuits, InField
<1>6. CASE iequals(name, Host) /\ HostName(size)
  <2>1. NameOf(name) = "Host"
    BY <1>6, NameIs
  <2>2. CASE version = "NOT_HTTP_1_0_AND_HOST_READ" /\ Fail("error_no_host", size)
    <3>1. seen' = seen => RefusalIsJustified'
      BY <1>2, <2>1, <2>2 DEF Fail, Emit, VersionSeen, RefusalIsJustified
    <3> QED
      BY <1>3, <2>2, <3>1, RefusedHeard DEF Fail, Emit
  <2>3. CASE /\ version # "NOT_HTTP_1_0_AND_HOST_READ"
             /\ Emit("EXPECT_COLON", "field_name", size)
             /\ version' = IF version = "HTTP_1_0" THEN version
                           ELSE "NOT_HTTP_1_0_AND_HOST_READ"
    <3>1. state' = "EXPECT_COLON" /\ code_' = "field_name"
      BY <2>3 DEF Emit
    <3>2. VersionSeen'
      BY <1>2, <1>4, <1>5, <2>1, <2>3, <3>1 DEF VersionSeen, Version
    <3>3. FieldsSeen'
      BY <1>2, <1>4, <1>5, <1>6, <2>1, <3>1 DEF FieldsSeen, HostName, framing, Reading
    <3> QED
      BY <1>1, <1>2, <1>4, <3>1, <3>2, <3>3, FieldsHeard
  <2> QED
    BY <1>6, <2>2, <2>3 DEF HostName
<1>7. ASSUME NEW known \in {"Transfer-Encoding", "Content-Length", "other"},
             NameOf(name) = known, version' = version, Emit("EXPECT_COLON", "field_name", size),
             \/ body_type' = body_type /\ body_size' = body_size /\ known = "other"
             \/ /\ known = "Transfer-Encoding" /\ body_type' = "READING_ENCODING"
                /\ body_type \in {"NO_BODY", "CONTENT_LENGTH_READ", "RANDOM_ENCODING_READ"}
             \/ /\ known = "Content-Length"
                /\ \/ body_type = "NO_BODY" /\ body_type' = "READING_CONTENT_LENGTH"
                   \/ /\ body_type \in {"CHUNKED_ENCODING_READ", "RANDOM_ENCODING_READ"}
                      /\ body_type' = body_type
      PROVE  Heard' /\ Verdicts'
  <2>1. state' = "EXPECT_COLON" /\ code_' = "field_name"
    BY <1>7 DEF Emit
  <2>2. VersionSeen'
    BY <1>2, <1>4, <1>7, <2>1 DEF VersionSeen
  <2>3. FieldsSeen'
    BY <1>2, <1>4, <1>5, <1>7, <2>1 DEF FieldsSeen, Reading
  <2> QED
    BY <1>1, <1>2, <1>4, <2>1, <2>2, <2>3, FieldsHeard
<1>8. CASE ~iequals(name, Host) /\ UNCHANGED version
  <2>1. CASE iequals(name, TransferEncodingName) /\ TransferEncodingField(size, "NO_BODY")
    <3>1. CASE /\ body_type = "CHUNKED_ENCODING_READ"
               /\ Fail("error_invalid_transfer_encoding", size)
      <4>1. seen' = seen => RefusalIsJustified'
        BY <1>2, <2>1, <3>1, NameIs DEF Fail, Emit, FieldsSeen, RefusalIsJustified
      <4> QED
        BY <1>3, <3>1, <4>1, RefusedHeard DEF Fail, Emit
    <3>2. CASE body_type \in {"NO_BODY", "CONTENT_LENGTH_READ", "RANDOM_ENCODING_READ"}
      BY <1>7, <1>8, <2>1, <3>2, NameIs DEF TransferEncodingField
    <3> QED
      BY <2>1, <3>1, <3>2 DEF TransferEncodingField
  <2>2. CASE iequals(name, ContentLength) /\ ContentLengthField(size, "NO_BODY")
    <3>1. CASE /\ body_type = "CONTENT_LENGTH_READ"
               /\ Fail("error_invalid_content_length", size)
      <4>1. seen' = seen => RefusalIsJustified'
        BY <1>2, <1>5, <2>2, <3>1, NameIs, NoneIsNoLength
        DEF Fail, Emit, FieldsSeen, RefusalIsJustified
      <4> QED
        BY <1>3, <3>1, <4>1, RefusedHeard DEF Fail, Emit
    <3>2. CASE body_type \in {"NO_BODY", "CHUNKED_ENCODING_READ", "RANDOM_ENCODING_READ"}
      BY <1>7, <1>8, <2>2, <3>2, NameIs DEF ContentLengthField
    <3> QED
      BY <2>2, <3>1, <3>2 DEF ContentLengthField
  <2>3. CASE /\ \A known \in {TransferEncodingName, ContentLength} : ~iequals(name, known)
             /\ OtherField(size)
    BY <1>7, <1>8, <2>3, NameIs DEF OtherField, framing
  <2> QED
    BY <1>8, <2>1, <2>2, <2>3 DEF FieldName
<1> QED
  BY <1>6, <1>8 DEF FieldName

(* The empty line. *)
LEMMA HeadersEndHeard ==
    ASSUME IInv, Heard, Look(TRUE), NEW buf, NEW i, NEW n, CrlfAfterHeaders(buf, i, n),
           state \in {"EXPECT_FIELD_NAME", "EXPECT_CRLF_AFTER_HEADERS"},
           \A size \in {1, 2} : /\ EndOfHeaders(size)
                                /\ liberal_crlf(buf, i) = IF size = 1 THEN "lf" ELSE "crlf"
                                => NameOf(TokenBytes') = "other"
    PROVE  Heard' /\ Verdicts'
<1>1. /\ state \in AfterVersion /\ state # "ERRORED" /\ state \notin Reading
      /\ "EXPECT_CRLF_AFTER_HEADERS" \in AfterVersion /\ "end_of_headers" \notin ErrorCode
      /\ {"error_no_host", "error_invalid_transfer_encoding"} \subseteq ErrorCode
  BY DEF AfterVersion, InHeaders, ErrorCode, Reading
<1>2. VersionSeen /\ FieldsSeen /\ seen.left = 0 /\ seen \in Seen
  BY <1>1 DEF Heard, SeenOK
<1>3. UNCHANGED <<framing, version>> /\ body_size \in Uint /\ version \in Version
  BY DEF CrlfAfterHeaders, IInv, ReaderOK
<1>4. CASE Suspend("EXPECT_CRLF_AFTER_HEADERS", n) \/ Fail("error_invalid_data", n)
  BY <1>1, <1>3, <1>4, QuietHeard DEF Suspend, Fail, Emit, QuietCode
<1>5. ASSUME NEW size, Fail("error_no_host", size), version = "NOT_HTTP_1_0_AND_HOST_NOT_READ",
             NameOf(TokenBytes') = "other"
      PROVE  Heard' /\ Verdicts'
  <2>1. seen' = seen => RefusalIsJustified'
    BY <1>2, <1>5 DEF Fail, Emit, VersionSeen, RefusalIsJustified
  <2> QED
    BY <1>1, <1>5, <2>1, RefusedHeard DEF Fail, Emit
<1>6. ASSUME NEW size, Fail("error_invalid_transfer_encoding", size),
             body_type = "RANDOM_ENCODING_READ", NameOf(TokenBytes') = "other"
      PROVE  Heard' /\ Verdicts'
  <2>1. seen' = seen => RefusalIsJustified'
    BY <1>2, <1>6 DEF Fail, Emit, FieldsSeen, RefusalIsJustified
  <2> QED
    BY <1>1, <1>6, <2>1, RefusedHeard DEF Fail, Emit
<1>7. ASSUME code_' = "end_of_headers", version # "NOT_HTTP_1_0_AND_HOST_NOT_READ",
             \/ /\ state' = "EXPECT_END_OF_BODY"
                /\ body_type = "NO_BODY" \/ (body_type = "CONTENT_LENGTH_READ" /\ body_size = 0)
             \/ state' = "EXPECT_CHUNK_SIZE" /\ body_type = "CHUNKED_ENCODING_READ"
             \/ /\ state' = "EXPECT_BODY"
                /\ body_type = "CONTENT_LENGTH_READ" /\ body_size # 0
      PROVE  Heard' /\ Verdicts'
  <2> DEFINE left == IF seen.te = "absent" THEN Max({0, seen.cl}) ELSE 0
  <2>1. seen' = [seen EXCEPT !.left = left]
    <3>1. seen' = Learn("end_of_headers", TokenBytes')
      BY <1>1, <1>7 DEF Look
    <3> QED
      BY <3>1, Learns
  <2>2. body_size \in Nat /\ body_size <= UintMax /\ body_size' = body_size
    BY <1>3, UintMaxAssumption DEF Uint, framing
  <2>3. /\ seen.http10 \/ seen.hosts = 1
        /\ \/ /\ state' = "EXPECT_END_OF_BODY" /\ seen.te = "absent"
              /\ seen.cl = NONE \/ seen.cl = 0
              /\ left = 0
           \/ state' = "EXPECT_CHUNK_SIZE" /\ seen.te = "chunked" /\ left = 0
           \/ /\ state' = "EXPECT_BODY" /\ seen.te = "absent" /\ seen.cl = body_size
              /\ body_size > 0 /\ left = body_size
    <3>1. seen.http10 \/ seen.hosts = 1
      BY <1>2, <1>3, <1>7 DEF VersionSeen, Version
    <3>2. Max({0, NONE}) = 0 /\ Max({0, body_size}) = body_size
      BY <2>2, AnnouncedIs DEF NONE
    <3> QED
      BY <1>2, <1>7, <2>2, <3>1, <3>2 DEF FieldsSeen
  <2> HIDE DEF left
  <2>4. /\ seen' \in Seen /\ seen'.left = left /\ seen'.http10 = seen.http10
        /\ seen'.hosts = seen.hosts /\ seen'.te = seen.te /\ seen'.cl = seen.cl
    <3>1. left \in Nat
      BY <2>2, <2>3
    <3> QED
      BY <1>2, <2>1, <3>1 DEF Seen
  <2>5. Heard'
    <3>1. /\ "EXPECT_BODY" \in InData
          /\ {"EXPECT_END_OF_BODY", "EXPECT_CHUNK_SIZE"} \subseteq AfterData
      BY DEF InData, AfterData
    <3> QED
      BY <2>2, <2>3, <2>4, <3>1, Parts DEF Heard, SeenOK
  <2>6. FramingFollowsFields'
    <3>1. CASE state' = "EXPECT_CHUNK_SIZE" /\ seen.te = "chunked"
      BY <2>3, <2>4, <3>1 DEF FramingFollowsFields
    <3>2. CASE /\ state' = "EXPECT_END_OF_BODY" /\ seen.te = "absent"
               /\ seen.cl = NONE \/ seen.cl = 0
      <4>1. seen'.te = "absent" /\ (seen'.cl = NONE \/ seen'.cl = 0)
        BY <2>4, <3>2
      <4>2. /\ CASE seen'.cl = NONE \/ seen'.cl = 0 -> state' = "EXPECT_END_OF_BODY"
                 [] seen'.cl \in 1..UintMax -> state' = "EXPECT_BODY" /\ body_size' = seen'.cl
                 [] OTHER -> FALSE
        <5>1. seen'.cl \notin 1..UintMax
          BY <4>1, UintMaxAssumption DEF NONE
        <5> QED
          BY <3>2, <4>1, <5>1
      <4> QED
        BY <2>3, <2>4, <4>1, <4>2 DEF FramingFollowsFields
    <3>3. CASE /\ state' = "EXPECT_BODY" /\ seen.te = "absent" /\ seen.cl = body_size
               /\ body_size > 0
      <4>1. seen'.cl \in 1..UintMax /\ seen'.cl # NONE /\ seen'.cl # 0
        BY <2>2, <2>4, <3>3, UintMaxAssumption DEF NONE
      <4> QED
        BY <2>2, <2>3, <2>4, <3>3, <4>1 DEF FramingFollowsFields
    <3> QED
      BY <2>3, <3>1, <3>2, <3>3
  <2> QED
    BY <1>7, <2>4, <2>5, <2>6 DEF Verdicts, BodyIsComplete, RefusalIsJustified, Seen
<1>8. ASSUME NEW size, EndOfHeaders(size), NameOf(TokenBytes') = "other"
      PROVE  Heard' /\ Verdicts'
  BY <1>5, <1>6, <1>7, <1>8 DEF EndOfHeaders, Emit
<1> QED
  BY <1>4, <1>8 DEF CrlfAfterHeaders

(* The token is known from where it was read. *)
LEMMA TokenRead ==
    ASSUME IInv', NEW buf \in Seq(Byte), NEW i \in Nat, ibuffer' = buf, idx' = i
    PROVE  /\ TokenBytes' = View(buf, i, i + token_size_')
           /\ TokenBytes' \in Seq(Byte) /\ Len(TokenBytes') = token_size_'
<1>1. TokenBytes' = View(buf, i, i + token_size_')
  BY DEF TokenBytes
<1>2. token_size_' \in Nat /\ i + token_size_' <= Len(buf) /\ Len(buf) \in Nat
  BY DEF IInv, ReaderOK, TokenInsideBuffer
<1>3. i + token_size_' \in i..Len(buf) /\ (i + token_size_') - i = token_size_'
  BY <1>2, EndsInside
<1> QED
  BY <1>1, <1>3, ViewIsView

(* A field from its colon to its line end. *)
LEMMA FieldHeard ==
    ASSUME IInv, IInv', Heard, Look(TRUE), NEW buf \in Seq(Byte), NEW i \in Nat, NEW n \in Nat,
           ibuffer' = buf, idx' = i, i + n <= Len(buf), i # Len(buf),
           FieldCase(buf, i, n), UNCHANGED version
    PROVE  Heard' /\ Verdicts'
<1>1. body_size \in Uint /\ body_type \in BodyType /\ body_size' \in Int
  BY UintMaxAssumption DEF IInv, ReaderOK, Uint
<1>2. state \in InHeaders
  BY <1>1, FieldTaken
<1>3. /\ state \in AfterVersion /\ state # "ERRORED" /\ state # "EXPECT_CHUNK_SIZE"
      /\ InHeaders \subseteq AfterVersion
  BY <1>2 DEF AfterVersion, InHeaders, InField
<1>4. VersionSeen /\ FieldsSeen /\ seen.left = 0 /\ seen \in Seen
  BY <1>3 DEF Heard, SeenOK
<1>5. CASE /\ code_' \in {INSUFFICIENT, "skip", "error_invalid_data"}
           /\ state' \in InHeaders \cup {"ERRORED"} /\ UNCHANGED framing
  BY <1>3, <1>5, QuietHeard DEF QuietCode
<1>6. CASE /\ state' = "ERRORED"
           /\ ValueRefused(decode_field_value(View(buf, i, i + token_size_')))
  <2>0. ValueRefused(decode_field_value(TokenBytes'))
    BY <1>6, TokenRead
  <2>1. seen' = seen => RefusalIsJustified'
    BY <1>4, <2>0
    DEF ValueRefused, FieldsSeen, RefusalIsJustified, LengthOf, CodingsOf
  <2>2. code_' \in ErrorCode
    BY <1>6 DEF ValueRefused, ErrorCode
  <2> QED
    BY <1>6, <2>1, <2>2, RefusedHeard
<1>7. CASE /\ state' = "EXPECT_CRLF_AFTER_FIELD_VALUE" /\ code_' = "field_value"
           /\ ValueTaken(decode_field_value(View(buf, i, i + token_size_')))
  <2> DEFINE value == decode_field_value(TokenBytes')
  <2>1. ValueTaken(value) /\ value \in Seq(Byte)
    BY <1>7, TokenRead, FieldValueIsView
  <2>2. seen' = IF seen.name = "Transfer-Encoding"
                THEN [seen EXCEPT !.te = MergeCodings(@, value), !.name = "none"]
                ELSE IF seen.name = "Content-Length"
                THEN [seen EXCEPT !.cl = MergeLengths(@, value), !.name = "none"]
                ELSE [seen EXCEPT !.name = "none"]
    <3>1. seen' = Learn("field_value", TokenBytes')
      BY <1>3, <1>7 DEF Look, ErrorCode
    <3> QED
      BY <3>1, Learns
  <2> HIDE DEF value
  <2>3. /\ seen' \in Seen /\ seen'.name = "none"
        /\ seen'.http10 = seen.http10 /\ seen'.hosts = seen.hosts /\ seen'.left = seen.left
        /\ seen'.te = IF seen.name = "Transfer-Encoding" THEN MergeCodings(seen.te, value)
                      ELSE seen.te
        /\ seen'.cl = IF seen.name = "Content-Length" THEN MergeLengths(seen.cl, value)
                      ELSE seen.cl
    <3>1. /\ MergeCodings(seen.te, value) \in {"other", "chunked", "bad"}
          /\ MergeLengths(seen.cl, value) \in Int
      BY <2>1, CodingIs, LengthIsInt
    <3>2. CASE seen.name = "Transfer-Encoding"
      BY <1>4, <2>2, <3>1, <3>2 DEF Seen
    <3>3. CASE seen.name = "Content-Length"
      BY <1>4, <2>2, <3>1, <3>3 DEF Seen
    <3>4. CASE seen.name \notin {"Transfer-Encoding", "Content-Length"}
      BY <1>4, <2>2, <3>4 DEF Seen
    <3> QED
      BY <3>2, <3>3, <3>4
  <2>4. VersionSeen'
    BY <1>4, <2>3 DEF VersionSeen
  <2>5. FieldsSeen'
    <3>1. CASE body_type = "READING_CONTENT_LENGTH"
      BY <1>4, <2>1, <2>3, <3>1 DEF ValueTaken, FieldsSeen, Reading
    <3>2. CASE body_type = "READING_ENCODING"
      BY <1>4, <2>1, <2>3, <3>2 DEF ValueTaken, FieldsSeen, Reading
    <3>3. CASE body_type \notin Reading
      <4>1. body_type' = body_type /\ body_size' = body_size
        BY <2>1, <3>3 DEF ValueTaken, Reading, framing
      <4>2. seen.name # "Transfer-Encoding" /\ seen'.te = seen.te
        BY <1>1, <1>4, <2>3, <3>3 DEF FieldsSeen, BodyType, FieldBodyType
      <4> QED
        BY <1>4, <2>3, <3>3, <4>1, <4>2 DEF FieldsSeen, Reading
    <3> QED
      BY <3>1, <3>2, <3>3 DEF Reading
  <2>6. state' \in AfterVersion
    BY <1>7 DEF AfterVersion, InHeaders
  <2> QED
    BY <1>4, <1>7, <2>3, <2>4, <2>5, <2>6, FieldsHeard DEF SeenOK
<1> QED
  BY <1>1, <1>5, <1>6, <1>7, FieldTaken

-----------------------------------------------------------------------------
(* next(): all of its cases. *)

LEMMA BodyCaseHeard ==
    ASSUME IInv, IInv', Heard, Look(TRUE), NEW buf \in Seq(Byte), NEW i \in Nat, NEW n \in Nat,
           ibuffer' = buf, idx' = i, i + n <= Len(buf), i # Len(buf),
           \/ ExpectBody(buf, i, n)
           \/ ChunkCase(buf, i, n)
           \/ TrailerCase(buf, i, n, "EXPECT_METHOD", "NO_BODY")
    PROVE  Heard' /\ Verdicts'
<1>1. body_size \in Uint /\ body_size' \in Nat /\ Suitable(state)
  BY UintMaxAssumption
  DEF IInv, ReaderOK, Uint, FramingConsistent, FramingSuits, Suitable
<1>2. MessageStep("EXPECT_METHOD")
  BY <1>1, BodyStep, ChunkStep, TrailerStep
<1>3. /\ TokenBytes' = View(buf, i, i + token_size_') /\ Len(TokenBytes') = token_size_'
  BY TokenRead
<1>4. state \in InData \cup AfterData
  BY DEF ExpectBody, ChunkCase, TrailerCase, ExpectChunkSize, ExpectChunkExt,
         ExpectCrlfAfterChunkExt, ExpectChunkData, ExpectCrlfAfterChunkData,
         ExpectTrailerName, ExpectTrailerColon, ExpectOwsAfterTrailerColon,
         ExpectTrailerValue, ExpectCrlfAfterTrailerValue, ExpectCrlfAfterTrailers,
         InData, AfterData, InTrailers
<1>5. state' = "ERRORED" => code_' \in QuietCode
  <2>1. code_' \in BodyCode
    BY BodyCodes
  <2>2. state' = "ERRORED" => code_' \in ErrorCode
    BY <1>2
    DEF MessageStep, WaitStep, ErrorStep, SkipStep, SkipEdge, ValueStep, DataStep,
        ChunkLineStep, LastStep, ErrorCode, INSUFFICIENT
  <2> QED
    BY <2>1, <2>2 DEF BodyCode, QuietCode, ErrorCode
<1>6. state = "EXPECT_CHUNK_SIZE" /\ code_' = "skip" =>
        body_size' = Number(TokenBytes', HexValue, 16) /\ body_size' \in Nat
  <2> SUFFICES ASSUME state = "EXPECT_CHUNK_SIZE", code_' = "skip"
               PROVE  body_size' = Number(TokenBytes', HexValue, 16)
    BY <1>1
  <2>1. ExpectChunkSize(buf, i, n)
    BY DEF ExpectBody, ChunkCase, TrailerCase, ExpectChunkExt,
         ExpectCrlfAfterChunkExt, ExpectChunkData, ExpectCrlfAfterChunkData,
         ExpectTrailerName, ExpectTrailerColon, ExpectOwsAfterTrailerColon,
         ExpectTrailerValue, ExpectCrlfAfterTrailerValue, ExpectCrlfAfterTrailers
  <2> QED
    BY <1>1, <1>3, <2>1, ChunkSizeTaken
<1> QED
  BY <1>2, <1>3, <1>4, <1>5, <1>6, BodyHeard

LEMMA FieldNameCaseHeard ==
    ASSUME IInv, IInv', Heard, Look(TRUE), NEW buf \in Seq(Byte), NEW i \in Nat, NEW n \in Nat,
           ibuffer' = buf, idx' = i, i + n <= Len(buf), i # Len(buf),
           ExpectFieldName(buf, i, n) \/ ExpectCrlfAfterHeaders(buf, i, n)
    PROVE  Heard' /\ Verdicts'
<1>1. CASE /\ CrlfAfterHeaders(buf, i, n)
           /\ state \in {"EXPECT_FIELD_NAME", "EXPECT_CRLF_AFTER_HEADERS"}
  <2>1. ASSUME NEW size \in {1, 2}, EndOfHeaders(size),
               liberal_crlf(buf, i) = IF size = 1 THEN "lf" ELSE "crlf"
        PROVE  NameOf(TokenBytes') = "other"
    <3>1. token_size_' = size
      BY <2>1 DEF EndOfHeaders, Fail, Emit
    <3>2. TokenBytes' = View(buf, i, i + size) /\ TokenBytes' \in Seq(Byte)
          /\ Len(TokenBytes') = size
      BY <3>1, TokenRead
    <3>3. i + size \in i..Len(buf) /\ 1 \in 1..((i + size) - i)
      BY <2>1, <3>1 DEF IInv, ReaderOK, TokenInsideBuffer
    <3>4. TokenBytes'[1] = buf[i + 1] /\ TokenBytes' # <<>>
      BY <3>2, <3>3, ViewAt
    <3>5. buf[i + 1] \in {CR, LF}
      BY <2>1 DEF liberal_crlf
    <3>6. \A known \in {Host, TransferEncodingName, ContentLength} :
             ~iequals(TokenBytes', known)
      BY <3>2, <3>4, <3>5, LineEndIsNoName, LiteralsAssumption, HostAssumption
    <3> QED
      BY <3>6, NameIs
  <2> QED
    BY <1>1, <2>1, HeadersEndHeard
<1>2. CASE ExpectFieldName(buf, i, n)
  <2>1. state = "EXPECT_FIELD_NAME" /\ state \in AfterVersion
    BY <1>2 DEF ExpectFieldName, AfterVersion, InHeaders
  <2>2. PICK e \in i..Len(buf) :
          \/ CrlfAfterHeaders(buf, i, n)
          \/ Suspend(state, n) /\ UNCHANGED <<framing, version>>
          \/ FieldName(View(buf, i, e), e - i)
    BY <1>2 DEF ExpectFieldName
  <2>3. CASE Suspend(state, n) /\ UNCHANGED <<framing, version>>
    BY <2>1, <2>3, QuietHeard DEF Suspend, Emit, QuietCode
  <2>4. CASE FieldName(View(buf, i, e), e - i)
    <3>1. token_size_' = e - i
      BY <2>4
      DEF FieldName, HostName, TransferEncodingField, ContentLengthField, OtherField, Fail,
          Emit
    <3>2. i + (e - i) = e
      OBVIOUS
    <3>3. TokenBytes' = View(buf, i, e)
      BY <3>1, <3>2, TokenRead
    <3> QED
      BY <2>1, <2>4, <3>3, FieldNameHeard
  <2> QED
    BY <1>1, <2>1, <2>2, <2>3, <2>4
<1> QED
  BY <1>1, <1>2 DEF ExpectCrlfAfterHeaders

LEMMA NextOnHeard ==
    ASSUME IInv, IInv', Heard, Verdicts, Look(TRUE),
           NEW buf \in Seq(Byte), NEW pos \in Nat, pos + token_size_ <= Len(buf),
           code_ = INSUFFICIENT \/ (buf = ibuffer /\ pos = idx), NextOn(buf, pos)
    PROVE  Heard' /\ Verdicts'
<1> DEFINE i == pos + Consumed
           n == token_size_ - Consumed
<1>1. i \in Nat /\ n \in Nat /\ i + n <= Len(buf) /\ ibuffer' = buf
  <2>1. Len(buf) \in Nat /\ token_size_ \in Nat
    BY DEF IInv, ReaderOK
  <2> QED
    BY <2>1 DEF Consumed, NextOn
<1>2. CASE /\ state = "ERRORED" /\ idx' = pos
           /\ UNCHANGED <<state, code_, token_size_, framing, version>>
  <2>1. seen' = seen
    BY <1>2 DEF Look
  <2>2. Heard'
    BY <1>2, <2>1, Parts DEF Heard, SeenOK
  <2>3. CASE code_ = INSUFFICIENT
    BY <1>2, <2>2, <2>3, QuietVerdicts DEF QuietCode
  <2>4. CASE buf = ibuffer /\ pos = idx
    <3>1. TokenBytes' = TokenBytes
      BY <1>1, <1>2, <2>4 DEF TokenBytes
    <3> QED
      BY <1>2, <2>1, <2>2, <3>1
      DEF Verdicts, FramingFollowsFields, BodyIsComplete, RefusalIsJustified, framing
  <2> QED
    BY <2>3, <2>4
<1>3. CASE EndOfBody
  <2>1. /\ state \in AfterData /\ state # "ERRORED" /\ state' \in AfterData
        /\ code_' = "end_of_body" /\ code_' \notin ErrorCode
    BY <1>3 DEF EndOfBody, Emit, AfterData, ErrorCode
  <2>2. seen.left = 0
    BY <2>1 DEF Heard
  <2>3. seen' = [Fresh EXCEPT !.left = 0]
    BY <2>1, <2>2, Learns DEF Look
  <2>4. SeenOK' /\ seen'.left = 0
    BY <2>3, FreshIs DEF SeenOK
  <2>5. Heard'
    BY <2>1, <2>4, Parts DEF Heard
  <2> QED
    BY <2>1, <2>4, <2>5
    DEF Verdicts, FramingFollowsFields, BodyIsComplete, RefusalIsJustified
<1>4. CASE EndOfMessage
  <2>1. /\ state # "ERRORED" /\ state' \in BeforeVersion
        /\ code_' = "end_of_message" /\ code_' \notin ErrorCode
    BY <1>4 DEF EndOfMessage, Emit, BeforeVersion, StartLine, ErrorCode
  <2>2. seen' = Fresh
    BY <2>1, Learns DEF Look
  <2>3. Heard'
    BY <2>1, <2>2, FreshIs, Parts DEF Heard, SeenOK
  <2> QED
    BY <2>1, <2>3, QuietVerdicts
<1>5. CASE state # "ERRORED" /\ Suspend(state, n) /\ UNCHANGED <<framing, version>>
  <2>1. state \in BeforeVersion \cup AfterVersion \cup InData \cup AfterData
    BY <1>5
    DEF IInv, ReaderOK, State, MessageState, BeforeVersion, AfterVersion, StartLine, InHeaders,
        InField, InChunks, InTrailers, InData, AfterData
  <2>2. state' = state /\ code_' \in QuietCode /\ body_size' = body_size
    BY <1>5 DEF Suspend, Emit, QuietCode, framing
  <2> QED
    BY <1>5, <2>1, <2>2, QuietHeard
<1>6. CASE idx' = i /\ i # Len(buf) /\ ReadToken(buf, i, n)
  <2> HIDE DEF i, n
  <2>1. CASE \/ ExpectVersion(buf, i, n)
             \/ /\ \/ ExpectMethod(buf, i, n)
                   \/ ExpectSpAfterMethod(buf, i, n)
                   \/ ExpectRequestTarget(buf, i, n)
                   \/ ExpectStaticStrAfterTarget(buf, i, n)
                   \/ ExpectCrlfAfterVersion(buf, i, n)
                /\ UNCHANGED version
    BY <1>1, <1>6, <2>1, StartLineHeard
  <2>2. CASE ExpectFieldName(buf, i, n) \/ ExpectCrlfAfterHeaders(buf, i, n)
    BY <1>1, <1>6, <2>2, FieldNameCaseHeard
  <2>3. CASE FieldCase(buf, i, n) /\ UNCHANGED version
    BY <1>1, <1>6, <2>3, FieldHeard
  <2>4. CASE \/ ExpectBody(buf, i, n)
             \/ ChunkCase(buf, i, n)
             \/ TrailerCase(buf, i, n, "EXPECT_METHOD", "NO_BODY")
    BY <1>1, <1>6, <2>4, BodyCaseHeard
  <2> QED
    BY <1>6, <2>1, <2>2, <2>3, <2>4 DEF ReadToken
<1> QED
  BY <1>2, <1>3, <1>4, <1>5, <1>6 DEF NextOn

-----------------------------------------------------------------------------
LEMMA InitCInv == ConsumerInit => CInv
<1> SUFFICES ASSUME ConsumerInit PROVE CInv
  OBVIOUS
<1>1. IInv /\ state \in BeforeVersion /\ code_ = INSUFFICIENT /\ seen = Fresh
  BY InitIInv DEF ConsumerInit, Init, ReaderInit, BeforeVersion, StartLine
<1>2. Heard
  BY <1>1, FreshIs, Parts DEF Heard, SeenOK
<1>3. Verdicts
  BY <1>1, <1>2
  DEF Heard, SeenOK, Seen, INSUFFICIENT, Verdicts, FramingFollowsFields, BodyIsComplete,
      RefusalIsJustified
<1> QED
  BY <1>1, <1>2, <1>3 DEF CInv

(* Every call of the caller, and every token that is looked at, keep CInv. *)
LEMMA NextCInv == CInv /\ [ConsumerNext]_<<vars, seen>> => CInv'
<1> SUFFICES ASSUME CInv, [ConsumerNext]_<<vars, seen>> PROVE CInv'
  OBVIOUS
<1>1. IInv /\ Heard /\ Verdicts
  BY DEF CInv
<1>2. IInv'
  <2>1. [Next]_vars
    BY DEF ConsumerNext, Next
  <2> QED
    BY <1>1, <2>1, NextIInv
<1>3. ASSUME UNCHANGED <<state, code_, framing, version, seen>>, TokenBytes' = TokenBytes
      PROVE  CInv'
  <2>1. (VersionSeen <=> VersionSeen') /\ (FieldsSeen <=> FieldsSeen')
    BY <1>3 DEF VersionSeen, FieldsSeen, framing
  <2>2. Heard'
    BY <1>1, <1>3, <2>1 DEF Heard, SeenOK, framing
  <2>3. Verdicts'
    BY <1>1, <1>3
    DEF Verdicts, FramingFollowsFields, BodyIsComplete, RefusalIsJustified, framing
  <2> QED
    BY <1>2, <2>2, <2>3 DEF CInv
<1>4. CASE Receive /\ Look(FALSE)
  BY <1>3, <1>4 DEF Receive, Look, reader, TokenBytes
<1>5. CASE Feed /\ Look(code_ = INSUFFICIENT)
  <2> DEFINE bytes == Unread \o held
  <2>1. bytes \in Seq(Byte) /\ Len(bytes) \in Nat /\ token_size_ \in Nat
    BY <1>1 DEF IInv, ReaderOK, TokenInsideBuffer, Unread
  <2>2. PICK k \in token_size_..Len(bytes) : set_buffer(SubSeq(bytes, 1, k))
    BY <1>5 DEF Feed
  <2> HIDE DEF bytes
  <2>3. SubSeq(bytes, 1, k) \in Seq(Byte) /\ 0 + token_size_ <= Len(SubSeq(bytes, 1, k))
    BY <2>1, <2>2
  <2>4. CASE code_ = INSUFFICIENT
    <3>1. NextOn(SubSeq(bytes, 1, k), 0) /\ Look(TRUE)
      BY <1>5, <2>2, <2>4 DEF set_buffer, Look
    <3> QED
      BY <1>1, <1>2, <2>3, <2>4, <3>1, NextOnHeard DEF CInv
  <2>5. CASE code_ # INSUFFICIENT
    <3>1. /\ ibuffer' = SubSeq(bytes, 1, k) /\ idx' = 0
          /\ UNCHANGED <<state, code_, token_size_, framing, version, seen>>
      BY <1>5, <2>2, <2>5 DEF set_buffer, Look
    <3>2. Joined(bytes, ibuffer, idx, held)
      BY DEF Joined, bytes, Unread
    <3>3. View(SubSeq(bytes, 1, k), 0, 0 + token_size_) = TokenBytes
      BY <1>1, <3>2, TokenSurvives DEF IInv, ReaderOK, TokenInsideBuffer
    <3>4. TokenBytes' = TokenBytes
      BY <3>1, <3>3 DEF TokenBytes
    <3> QED
      BY <1>3, <3>1, <3>4
  <2> QED
    BY <2>4, <2>5
<1>6. CASE Advance /\ Look(TRUE)
  <2>1. /\ NextOn(ibuffer, idx) /\ ibuffer \in Seq(Byte) /\ idx \in Nat
        /\ idx + token_size_ <= Len(ibuffer)
    BY <1>1, <1>6 DEF Advance, next, IInv, ReaderOK, TokenInsideBuffer
  <2> QED
    BY <1>1, <1>2, <1>6, <2>1, NextOnHeard DEF CInv
<1>7. CASE Restart /\ seen' = Fresh
  <2>1. state' \in BeforeVersion /\ code_' = INSUFFICIENT
    BY <1>7 DEF Restart, reset, BeforeVersion, StartLine
  <2>2. Heard'
    BY <1>7, <2>1, FreshIs, Parts DEF Heard, SeenOK
  <2> QED
    BY <1>2, <2>1, <2>2, QuietVerdicts DEF CInv, QuietCode
<1>8. CASE UNCHANGED <<vars, seen>>
  BY <1>3, <1>8 DEF vars, reader, TokenBytes
<1> QED
  BY <1>4, <1>5, <1>6, <1>7, <1>8 DEF ConsumerNext

LEMMA CInvHolds == ConsumerSpec => []CInv
BY InitCInv, NextCInv, PTL DEF ConsumerSpec

(* At end_of_headers the reader is in the state, and has the length, that  *)
(* the header fields of this message announce.                             *)
THEOREM FramingFollows == ConsumerSpec => []FramingFollowsFields
<1>1. CInv => FramingFollowsFields
  BY DEF CInv, Verdicts
<1> QED
  BY <1>1, CInvHolds, PTL

(* The consumer is given the bytes that were announced, all of them before *)
(* end_of_body and never more.                                             *)
THEOREM BodiesAreComplete == ConsumerSpec => []BodyIsComplete
<1>1. CInv => BodyIsComplete
  BY DEF CInv, Verdicts
<1> QED
  BY <1>1, CInvHolds, PTL

(* error_no_host and the errors of the framing fields are reported only    *)
(* when the header fields of this message and the refused token are a      *)
(* reason for them: a missing or second Host, a value that is no length or *)
(* does not fit, codings in which chunked is not the last and only one.    *)
THEOREM RefusalsAreJustified == ConsumerSpec => []RefusalIsJustified
<1>1. CInv => RefusalIsJustified
  BY DEF CInv, Verdicts
<1> QED
  BY <1>1, CInvHolds, PTL
=============================================================================
