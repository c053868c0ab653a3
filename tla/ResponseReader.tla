--------------------------- MODULE ResponseReader ---------------------------
(***************************************************************************)
(* boost::http::reader::response: an incremental tokenizer of HTTP/1.x     *)
(* responses.  Beside next() and set_buffer(), the caller tells the reader *)
(* the method of the request that each response answers (set_method) and   *)
(* that the connection has ended (puteof): both decide where the body ends *)
(* and whether another message may follow.                                 *)
(***************************************************************************)
EXTENDS MessageReader

CONSTANTS HEAD, CONNECT      \* methods of requests

ASSUME MethodsAssumption == HEAD # CONNECT

VARIABLE connection_flags    \* what is known of the connection

reader == <<state, code_, idx, token_size_, ibuffer, framing, connection_flags>>

ConnectionFlag == {"EOF_RECEIVED", "HTTP_1_0"}

(* puteof() has been called. *)
Closed == "EOF_RECEIVED" \in connection_flags

(* The codes that a response reader may report. *)
ResponseCode == Code \ {"error_no_host", "method", "request_target"}

Forced == {"FORCE_NO_BODY", "FORCE_NO_BODY_AND_STOP"}

BodyType == {"UNKNOWN_BODY", "CONNECTION_DELIMITED"} \cup Forced \cup FieldBodyType

(* The status line, up to the token status_code and after it. *)
BeforeStatusCode == {"EXPECT_VERSION_STATIC_STR", "EXPECT_VERSION",
                     "EXPECT_SP_AFTER_VERSION", "EXPECT_STATUS_CODE"}

AfterStatusCode == {"EXPECT_REASON_PHRASE", "EXPECT_CRLF_AFTER_REASON_PHRASE"}

State == BeforeStatusCode \cup {"EXPECT_SP_AFTER_STATUS_CODE"} \cup AfterStatusCode
           \cup MessageState
           \cup {"EXPECT_UNSAFE_BODY", "EXPECT_END_OF_CONNECTION_ERROR"}

(* The constructor leaves body_size uninitialized. *)
ReaderInit ==
    /\ connection_flags = {}
    /\ body_type = "UNKNOWN_BODY"
    /\ state = "EXPECT_VERSION_STATIC_STR"
    /\ code_ = INSUFFICIENT
    /\ idx = 0
    /\ token_size_ = 0
    /\ ibuffer = <<>>
    /\ body_size \in Uint

-----------------------------------------------------------------------------
(* The status line. *)

ExpectVersionStaticStr(buf, i, n) ==
    /\ state = "EXPECT_VERSION_STATIC_STR"
    /\ LiteralToken(StaticStr, buf, i, n, "EXPECT_VERSION")
    /\ UNCHANGED framing

ExpectVersion(buf, i, n) ==
    /\ state = "EXPECT_VERSION"
    /\ ByteToken(isdigit, buf, i, n, "EXPECT_SP_AFTER_VERSION", "version")
    /\ connection_flags' = IF buf[i + 1] = 48 THEN connection_flags \cup {"HTTP_1_0"}
                           ELSE connection_flags
    /\ UNCHANGED framing

ExpectSpAfterVersion(buf, i, n) ==
    /\ state = "EXPECT_SP_AFTER_VERSION"
    /\ ByteToken({SP}, buf, i, n, "EXPECT_STATUS_CODE", "skip")
    /\ UNCHANGED framing

ExpectStatusCode(buf, i, n) ==
    /\ state = "EXPECT_STATUS_CODE"
    /\ \/ Len(buf) - i < 3 /\ Suspend(state, n)
       \/ /\ Len(buf) - i >= 3
          /\ \/ /\ status_code_match(buf, i)
                /\ Emit("EXPECT_SP_AFTER_STATUS_CODE", "status_code", 3)
             \/ ~status_code_match(buf, i) /\ Fail("error_invalid_data", n)
    /\ UNCHANGED framing

(* Mutant: a response is read without the method of its request.           *)
ExpectSpAfterStatusCodeUnasked(buf, i, n) ==
    /\ state = "EXPECT_SP_AFTER_STATUS_CODE"
    /\ ByteToken({SP}, buf, i, n, "EXPECT_REASON_PHRASE", "skip")
    /\ UNCHANGED framing

(* The caller must have called set_method() at the token status_code. *)
ExpectSpAfterStatusCode(buf, i, n) ==
    /\ state = "EXPECT_SP_AFTER_STATUS_CODE"
    /\ \/ body_type = "UNKNOWN_BODY" /\ Fail("error_set_method", n)
       \/ /\ body_type # "UNKNOWN_BODY"
          /\ ByteToken({SP}, buf, i, n, "EXPECT_REASON_PHRASE", "skip")
    /\ UNCHANGED framing

(* The phrase may be empty. *)
ExpectReasonPhrase(buf, i, n) ==
    /\ state = "EXPECT_REASON_PHRASE"
    /\ RescanToken(is_reason_phrase_char, buf, i, n, state,
                   "EXPECT_CRLF_AFTER_REASON_PHRASE", "reason_phrase")
    /\ UNCHANGED framing

ExpectCrlfAfterReasonPhrase(buf, i, n) ==
    /\ state = "EXPECT_CRLF_AFTER_REASON_PHRASE"
    /\ LiberalCrlf(buf, i, n, "EXPECT_FIELD_NAME")
    /\ UNCHANGED framing

-----------------------------------------------------------------------------
(* Header fields. *)

(* A complete field name.  A response without a body has no use for the    *)
(* framing fields, and an HTTP/1.0 server does not know Transfer-Encoding. *)
FieldName(name, size) ==
    LET codings == /\ iequals(name, TransferEncodingName)
                   /\ "HTTP_1_0" \notin connection_flags
    IN  \/ body_type \in Forced /\ OtherField(size)
        \/ /\ body_type \notin Forced
           /\ \/ codings /\ TransferEncodingField(size, "CONNECTION_DELIMITED")
              \/ iequals(name, ContentLength)
                   /\ ContentLengthField(size, "CONNECTION_DELIMITED")
              \/ ~codings /\ ~iequals(name, ContentLength) /\ OtherField(size)

(* The empty line was read: what the caller and the header fields said     *)
(* decides where the body ends.                                            *)
EndOfHeaders(size) ==
    \/ /\ body_type \in {"RANDOM_ENCODING_READ", "CONNECTION_DELIMITED"}
       /\ Emit("EXPECT_UNSAFE_BODY", "end_of_headers", size)
       /\ body_type' = "FORCE_NO_BODY_AND_STOP"
    \/ /\ \/ body_type \in Forced
          \/ body_type = "CONTENT_LENGTH_READ" /\ body_size = 0
       /\ Emit("EXPECT_END_OF_BODY", "end_of_headers", size)
       /\ body_type' = body_type
    \/ /\ body_type = "CHUNKED_ENCODING_READ"
       /\ Emit("EXPECT_CHUNK_SIZE", "end_of_headers", size)
       /\ body_type' = body_type
    \/ /\ body_type = "CONTENT_LENGTH_READ" /\ body_size # 0
       /\ Emit("EXPECT_BODY", "end_of_headers", size)
       /\ body_type' = body_type

(* Mutant: an incomplete empty line is waited for where a name is.         *)
CrlfAfterHeadersInPlace(buf, i, n) ==
    LET match == liberal_crlf(buf, i) IN
    /\ \/ match = "crlf" /\ EndOfHeaders(2)
       \/ match = "lf" /\ EndOfHeaders(1)
       \/ match = "insufficient_data" /\ Suspend(state, n) /\ UNCHANGED body_type
       \/ match = "invalid_data" /\ Fail("error_invalid_data", n) /\ UNCHANGED body_type
    /\ UNCHANGED body_size

CrlfAfterHeaders(buf, i, n) ==
    LET match == liberal_crlf(buf, i) IN
    /\ \/ match = "crlf" /\ EndOfHeaders(2)
       \/ match = "lf" /\ EndOfHeaders(1)
       \/ /\ match = "insufficient_data"
          /\ Suspend("EXPECT_CRLF_AFTER_HEADERS", n)
          /\ UNCHANGED body_type
       \/ /\ match = "invalid_data"
          /\ Fail("error_invalid_data", n)
          /\ UNCHANGED body_type
    /\ UNCHANGED body_size

ExpectCrlfAfterHeaders(buf, i, n) ==
    state = "EXPECT_CRLF_AFTER_HEADERS" /\ CrlfAfterHeaders(buf, i, n)

(* With no name at hand this is the empty line: next() calls itself. *)
ExpectFieldName(buf, i, n) ==
    /\ state = "EXPECT_FIELD_NAME"
    /\ \E e \in i..Len(buf) :
         /\ Run(is_tchar, buf, i, e)
         /\ \/ e = i /\ CrlfAfterHeaders(buf, i, n)
            \/ e > i /\ e = Len(buf) /\ Suspend(state, n) /\ UNCHANGED framing
            \/ e > i /\ e < Len(buf) /\ FieldName(View(buf, i, e), e - i)

-----------------------------------------------------------------------------
(* The rest of the message: the cases that request.ipp has as well, and    *)
(* the body that only the end of the connection delimits.                  *)

ResponseField(buf, i, n) == FieldCase(buf, i, n)

(* Mutant: the body ends with the buffer.                                  *)
ExpectUnsafeBodyEnds(buf, i, n) ==
    /\ state = "EXPECT_UNSAFE_BODY"
    /\ Emit("EXPECT_END_OF_BODY", "body_chunk", Len(buf) - i)
    /\ UNCHANGED framing

ExpectUnsafeBody(buf, i, n) ==
    /\ state = "EXPECT_UNSAFE_BODY"
    /\ Emit(state, "body_chunk", Len(buf) - i)
    /\ UNCHANGED framing

ResponseBody(buf, i, n) == ExpectBody(buf, i, n) \/ ExpectUnsafeBody(buf, i, n)

ResponseChunks(buf, i, n) == ChunkCase(buf, i, n)

ResponseTrailers(buf, i, n) ==
    TrailerCase(buf, i, n, "EXPECT_VERSION_STATIC_STR", "UNKNOWN_BODY")

-----------------------------------------------------------------------------
(* The member functions. *)

(* The switch of next(), entered when there is at least one byte to read. *)
ReadToken(buf, i, n) ==
    \/ ExpectVersion(buf, i, n)
    \/ /\ \/ ExpectVersionStaticStr(buf, i, n)
          \/ ExpectSpAfterVersion(buf, i, n)
          \/ ExpectStatusCode(buf, i, n)
          \/ ExpectSpAfterStatusCode(buf, i, n)
          \/ ExpectReasonPhrase(buf, i, n)
          \/ ExpectCrlfAfterReasonPhrase(buf, i, n)
          \/ ExpectFieldName(buf, i, n)
          \/ ResponseField(buf, i, n)
          \/ ExpectCrlfAfterHeaders(buf, i, n)
          \/ ResponseBody(buf, i, n)
          \/ ResponseChunks(buf, i, n)
          \/ ResponseTrailers(buf, i, n)
       /\ UNCHANGED connection_flags

EndOfMessage ==
    /\ state = "EXPECT_END_OF_MESSAGE"
    /\ Emit(IF body_type = "FORCE_NO_BODY_AND_STOP" \/ "HTTP_1_0" \in connection_flags
            THEN "EXPECT_END_OF_CONNECTION_ERROR" ELSE "EXPECT_VERSION_STATIC_STR",
            "end_of_message", 0)
    /\ body_type' = "UNKNOWN_BODY"
    /\ UNCHANGED body_size

(* Mutant: the end of the connection ends every body.                      *)
ExhaustedEndsBody(n) ==
    LET ends == "EOF_RECEIVED" \in connection_flags
        body == state \in {"EXPECT_UNSAFE_BODY", "EXPECT_BODY", "EXPECT_CHUNK_DATA"}
    IN  /\ \/ ~ends /\ Suspend(state, n)
           \/ ends /\ ~body /\ Fail("error_use_another_connection", n)
           \/ ends /\ body /\ Emit("EXPECT_END_OF_MESSAGE", "end_of_body", 0)
        /\ UNCHANGED framing

(* Mutant: the end of the connection matters only inside a body.           *)
ExhaustedBetweenMessages(n) ==
    LET ends == "EOF_RECEIVED" \in connection_flags /\ state = "EXPECT_UNSAFE_BODY"
    IN  /\ \/ ~ends /\ Suspend(state, n)
           \/ ends /\ Emit("EXPECT_END_OF_MESSAGE", "end_of_body", 0)
        /\ UNCHANGED framing

(* There is nothing to read.  When the connection has ended, a body that   *)
(* it delimits is complete and anything else is cut short; a message with  *)
(* a Content-Length whose body is not complete goes on waiting.            *)
Exhausted(n) ==
    LET ends == /\ "EOF_RECEIVED" \in connection_flags
                /\ ~(body_type = "CONTENT_LENGTH_READ" /\ body_size # 0)
        body == state = "EXPECT_UNSAFE_BODY"
    IN  /\ \/ ~ends /\ Suspend(state, n)
           \/ ends /\ ~body /\ Fail("error_use_another_connection", n)
           \/ ends /\ body /\ Emit("EXPECT_END_OF_MESSAGE", "end_of_body", 0)
        /\ UNCHANGED framing

(* next(), run on the buffer buf with idx at pos: the current token, if it  *)
(* is complete, is consumed, and the following one is read.                *)
NextOn(buf, pos) ==
    LET i == pos + Consumed
        n == token_size_ - Consumed
    IN  /\ ibuffer' = buf
        /\ \/ /\ state = "ERRORED"
              /\ idx' = pos
              /\ UNCHANGED <<state, code_, token_size_, framing, connection_flags>>
           \/ /\ idx' = pos + token_size_
              /\ EndOfBody \/ EndOfMessage
              /\ UNCHANGED connection_flags
           \/ /\ state = "EXPECT_END_OF_CONNECTION_ERROR"
              /\ idx' = pos
              /\ Fail("error_use_another_connection", token_size_)
              /\ UNCHANGED <<framing, connection_flags>>
           \/ /\ state \notin {"ERRORED", "EXPECT_END_OF_BODY", "EXPECT_END_OF_MESSAGE",
                               "EXPECT_END_OF_CONNECTION_ERROR"}
              /\ idx' = i
              /\ \/ i = Len(buf) /\ Exhausted(n) /\ UNCHANGED connection_flags
                 \/ i # Len(buf) /\ ReadToken(buf, i, n)

next == NextOn(ibuffer, idx)

set_buffer(buf) ==
    \/ code_ = INSUFFICIENT /\ NextOn(buf, 0)
    \/ /\ code_ # INSUFFICIENT
       /\ ibuffer' = buf
       /\ idx' = 0
       /\ UNCHANGED <<state, code_, token_size_, framing, connection_flags>>

(* Mutant: that the response answers a HEAD request is ignored.            *)
set_method_no_head(method) ==
    /\ code_ = "status_code"
    /\ \E status \in {status_code_decode(TokenBytes)} :
         LET noBody == status \div 100 = 1 \/ status \in {204, 304}
             tunnel == status \div 100 = 2 /\ method = CONNECT
         IN  \/ noBody /\ body_type' = "FORCE_NO_BODY" /\ body_size' = 0
             \/ /\ ~noBody /\ tunnel
                /\ body_type' = "FORCE_NO_BODY_AND_STOP" /\ body_size' = 0
             \/ /\ ~noBody /\ ~tunnel
                /\ body_type' = "CONNECTION_DELIMITED" /\ UNCHANGED body_size
    /\ UNCHANGED <<state, code_, idx, token_size_, ibuffer, connection_flags>>

(* The method of the request and the status say whether there is a body. *)
set_method(method) ==
    /\ code_ = "status_code"
    /\ \E status \in {status_code_decode(TokenBytes)} :
         LET noBody == status \div 100 = 1 \/ status \in {204, 304} \/ method = HEAD
             tunnel == status \div 100 = 2 /\ method = CONNECT
         IN  \/ noBody /\ body_type' = "FORCE_NO_BODY" /\ body_size' = 0
             \/ /\ ~noBody /\ tunnel
                /\ body_type' = "FORCE_NO_BODY_AND_STOP" /\ body_size' = 0
             \/ /\ ~noBody /\ ~tunnel
                /\ body_type' = "CONNECTION_DELIMITED" /\ UNCHANGED body_size
    /\ UNCHANGED <<state, code_, idx, token_size_, ibuffer, connection_flags>>

puteof == /\ connection_flags' = connection_flags \cup {"EOF_RECEIVED"}
          /\ UNCHANGED <<state, code_, idx, token_size_, ibuffer, framing>>

(* Mutant: the flags of the old connection are kept.                       *)
reset_keeps_flags == /\ body_type' = "UNKNOWN_BODY"
                     /\ state' = "EXPECT_VERSION_STATIC_STR"
                     /\ code_' = INSUFFICIENT
                     /\ idx' = 0
                     /\ token_size_' = 0
                     /\ ibuffer' = <<>>
                     /\ UNCHANGED <<body_size, connection_flags>>

(* Mutant: the size of the current token is kept.                          *)
reset_keeps_token == /\ connection_flags' = {}
                     /\ body_type' = "UNKNOWN_BODY"
                     /\ state' = "EXPECT_VERSION_STATIC_STR"
                     /\ code_' = INSUFFICIENT
                     /\ idx' = 0
                     /\ ibuffer' = <<>>
                     /\ UNCHANGED <<body_size, token_size_>>

reset == /\ connection_flags' = {}
         /\ body_type' = "UNKNOWN_BODY"
         /\ state' = "EXPECT_VERSION_STATIC_STR"
         /\ code_' = INSUFFICIENT
         /\ idx' = 0
         /\ token_size_' = 0
         /\ ibuffer' = <<>>
         /\ UNCHANGED body_size

(* expected_token(): what the reader would report next. *)
expected_token ==
    CASE state = "ERRORED"                                  -> code_
      [] state = "EXPECT_VERSION"                           -> "version"
      [] state = "EXPECT_STATUS_CODE"                       -> "status_code"
      [] state = "EXPECT_REASON_PHRASE"                     -> "reason_phrase"
      [] state = "EXPECT_FIELD_NAME"                        -> "field_name"
      [] state = "EXPECT_FIELD_VALUE"                       -> "field_value"
      [] state = "EXPECT_CHUNK_EXT"                         -> "chunk_ext"
      [] state \in {"EXPECT_BODY", "EXPECT_UNSAFE_BODY",
                    "EXPECT_CHUNK_DATA"}                    -> "body_chunk"
      [] state = "EXPECT_TRAILER_NAME"                      -> "trailer_name"
      [] state = "EXPECT_TRAILER_VALUE"                     -> "trailer_value"
      [] state = "EXPECT_END_OF_BODY"                       -> "end_of_body"
      [] state = "EXPECT_END_OF_MESSAGE"                    -> "end_of_message"
      [] state = "EXPECT_END_OF_CONNECTION_ERROR" -> "error_use_another_connection"
      [] OTHER                                              -> "skip"
=============================================================================
