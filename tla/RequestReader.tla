--------------------------- MODULE RequestReader ----------------------------
(***************************************************************************)
(* boost::http::reader::request: an incremental tokenizer of HTTP/1.x      *)
(* requests.  The caller alternates next(), which consumes the current     *)
(* token and reads the following one, and set_buffer(), which presents the *)
(* unread bytes again, followed by new ones.                               *)
(***************************************************************************)
EXTENDS MessageReader

CONSTANT Host      \* a header field name

ASSUME HostAssumption ==
    /\ Host \in Seq(is_tchar) \ {<<>>}
    /\ ~iequals(Host, TransferEncodingName)
    /\ ~iequals(Host, ContentLength)

VARIABLE version   \* HTTP/1.0 or not, and then whether Host has been read

reader == <<state, code_, idx, token_size_, ibuffer, framing, version>>

(* The codes that a request reader may report. *)
RequestCode == Code \ {"error_set_method", "error_use_another_connection",
                       "status_code", "reason_phrase"}

Version == {"HTTP_1_0", "NOT_HTTP_1_0_AND_HOST_NOT_READ",
            "NOT_HTTP_1_0_AND_HOST_READ"}

BodyType == {"NO_BODY"} \cup FieldBodyType

StartLine == {"EXPECT_METHOD", "EXPECT_SP_AFTER_METHOD", "EXPECT_REQUEST_TARGET",
              "EXPECT_STATIC_STR_AFTER_TARGET", "EXPECT_VERSION",
              "EXPECT_CRLF_AFTER_VERSION"}

State == StartLine \cup MessageState

(* The constructor leaves version and body_size uninitialized. *)
ReaderInit ==
    /\ body_type = "NO_BODY"
    /\ state = "EXPECT_METHOD"
    /\ code_ = INSUFFICIENT
    /\ idx = 0
    /\ token_size_ = 0
    /\ ibuffer = <<>>
    /\ version \in Version
    /\ body_size \in Uint

-----------------------------------------------------------------------------
(* The start line. *)

ExpectMethod(buf, i, n) ==
    /\ state = "EXPECT_METHOD"
    /\ ScanToken(is_tchar, buf, i, n, "EXPECT_SP_AFTER_METHOD", "method")
    /\ UNCHANGED framing

ExpectSpAfterMethod(buf, i, n) ==
    /\ state = "EXPECT_SP_AFTER_METHOD"
    /\ ByteToken({SP}, buf, i, n, "EXPECT_REQUEST_TARGET", "skip")
    /\ UNCHANGED framing

ExpectRequestTarget(buf, i, n) ==
    /\ state = "EXPECT_REQUEST_TARGET"
    /\ ScanToken(is_request_target_char, buf, i, n,
                 "EXPECT_STATIC_STR_AFTER_TARGET", "request_target")
    /\ UNCHANGED framing

ExpectStaticStrAfterTarget(buf, i, n) ==
    /\ state = "EXPECT_STATIC_STR_AFTER_TARGET"
    /\ LiteralToken(StaticStr, buf, i, n, "EXPECT_VERSION")
    /\ UNCHANGED framing

(* Mutant: a Host read in the previous request counts for this one.        *)
ExpectVersionKeepsHost(buf, i, n) ==
    /\ state = "EXPECT_VERSION"
    /\ ByteToken(isdigit, buf, i, n, "EXPECT_CRLF_AFTER_VERSION", "version")
    /\ version' = CASE buf[i + 1] \notin isdigit -> version
                    [] buf[i + 1] = 48 -> "HTTP_1_0"
                    [] buf[i + 1] \in isdigit \ {48}
                       /\ version = "NOT_HTTP_1_0_AND_HOST_READ" -> version
                    [] OTHER -> "NOT_HTTP_1_0_AND_HOST_NOT_READ"
    /\ UNCHANGED framing

ExpectVersion(buf, i, n) ==
    /\ state = "EXPECT_VERSION"
    /\ ByteToken(isdigit, buf, i, n, "EXPECT_CRLF_AFTER_VERSION", "version")
    /\ version' = CASE buf[i + 1] \notin isdigit -> version
                    [] buf[i + 1] = 48 -> "HTTP_1_0"
                    [] OTHER -> "NOT_HTTP_1_0_AND_HOST_NOT_READ"
    /\ UNCHANGED framing

ExpectCrlfAfterVersion(buf, i, n) ==
    /\ state = "EXPECT_CRLF_AFTER_VERSION"
    /\ LiberalCrlf(buf, i, n, "EXPECT_FIELD_NAME")
    /\ UNCHANGED framing

-----------------------------------------------------------------------------
(* Header fields: the names that matter set version or body_type, or are    *)
(* refused, and at the empty line both are evaluated.                      *)

HostName(size) ==
    /\ \/ /\ version = "NOT_HTTP_1_0_AND_HOST_READ"
          /\ Fail("error_no_host", size)
          /\ UNCHANGED version
       \/ /\ version # "NOT_HTTP_1_0_AND_HOST_READ"
          /\ Emit("EXPECT_COLON", "field_name", size)
          /\ version' = IF version = "HTTP_1_0" THEN version
                        ELSE "NOT_HTTP_1_0_AND_HOST_READ"
    /\ UNCHANGED framing

(* A complete field name. *)
FieldName(name, size) ==
    \/ iequals(name, Host) /\ HostName(size)
    \/ /\ ~iequals(name, Host)
       /\ \/ iequals(name, TransferEncodingName) /\ TransferEncodingField(size, "NO_BODY")
          \/ iequals(name, ContentLength) /\ ContentLengthField(size, "NO_BODY")
          \/ /\ \A known \in {TransferEncodingName, ContentLength} : ~iequals(name, known)
             /\ OtherField(size)
       /\ UNCHANGED version

(* The empty line was read: what the header fields said decides which body  *)
(* follows, or that the request is refused.                                *)
EndOfHeaders(size) ==
    \/ /\ version = "NOT_HTTP_1_0_AND_HOST_NOT_READ"
       /\ Fail("error_no_host", size)
    \/ /\ version # "NOT_HTTP_1_0_AND_HOST_NOT_READ"
       /\ \/ body_type = "RANDOM_ENCODING_READ"
             /\ Fail("error_invalid_transfer_encoding", size)
          \/ /\ \/ body_type = "NO_BODY"
                \/ body_type = "CONTENT_LENGTH_READ" /\ body_size = 0
             /\ Emit("EXPECT_END_OF_BODY", "end_of_headers", size)
          \/ body_type = "CHUNKED_ENCODING_READ"
             /\ Emit("EXPECT_CHUNK_SIZE", "end_of_headers", size)
          \/ body_type = "CONTENT_LENGTH_READ" /\ body_size # 0
             /\ Emit("EXPECT_BODY", "end_of_headers", size)

(* Mutant: the empty line is waited for in the state of a field name.      *)
CrlfAfterHeadersInPlace(buf, i, n) ==
    LET match == liberal_crlf(buf, i) IN
    /\ \/ match = "crlf" /\ EndOfHeaders(2)
       \/ match = "lf" /\ EndOfHeaders(1)
       \/ match = "insufficient_data" /\ Suspend(state, n)
       \/ match = "invalid_data" /\ Fail("error_invalid_data", n)
    /\ UNCHANGED <<framing, version>>

CrlfAfterHeaders(buf, i, n) ==
    LET match == liberal_crlf(buf, i) IN
    /\ \/ match = "crlf" /\ EndOfHeaders(2)
       \/ match = "lf" /\ EndOfHeaders(1)
       \/ match = "insufficient_data" /\ Suspend("EXPECT_CRLF_AFTER_HEADERS", n)
       \/ match = "invalid_data" /\ Fail("error_invalid_data", n)
    /\ UNCHANGED <<framing, version>>

ExpectCrlfAfterHeaders(buf, i, n) ==
    state = "EXPECT_CRLF_AFTER_HEADERS" /\ CrlfAfterHeaders(buf, i, n)

(* With no name at hand this is the empty line: next() calls itself. *)
ExpectFieldName(buf, i, n) ==
    /\ state = "EXPECT_FIELD_NAME"
    /\ \E e \in i..Len(buf) :
         /\ Run(is_tchar, buf, i, e)
         /\ \/ e = i /\ CrlfAfterHeaders(buf, i, n)
            \/ e > i /\ e = Len(buf) /\ Suspend(state, n) /\ UNCHANGED <<framing, version>>
            \/ e > i /\ e < Len(buf) /\ FieldName(View(buf, i, e), e - i)

-----------------------------------------------------------------------------
(* The member functions. *)

(* The switch of next(), entered when there is at least one byte to read. *)
ReadToken(buf, i, n) ==
    \/ ExpectVersion(buf, i, n)
    \/ ExpectFieldName(buf, i, n)
    \/ ExpectCrlfAfterHeaders(buf, i, n)
    \/ /\ \/ ExpectMethod(buf, i, n)
          \/ ExpectSpAfterMethod(buf, i, n)
          \/ ExpectRequestTarget(buf, i, n)
          \/ ExpectStaticStrAfterTarget(buf, i, n)
          \/ ExpectCrlfAfterVersion(buf, i, n)
          \/ FieldCase(buf, i, n)
          \/ ExpectBody(buf, i, n)
          \/ ChunkCase(buf, i, n)
          \/ TrailerCase(buf, i, n, "EXPECT_METHOD", "NO_BODY")
       /\ UNCHANGED version

(* Mutant: the framing of a message is kept for the next one.              *)
EndOfMessageKeepsBody == /\ state = "EXPECT_END_OF_MESSAGE"
                         /\ Emit("EXPECT_METHOD", "end_of_message", 0)
                         /\ UNCHANGED framing

EndOfMessage == /\ state = "EXPECT_END_OF_MESSAGE"
                /\ Emit("EXPECT_METHOD", "end_of_message", 0)
                /\ body_type' = "NO_BODY"
                /\ UNCHANGED body_size

(* next(), run on the buffer buf with idx at pos: the current token, if it  *)
(* is complete, is consumed, and the following one is read.                *)
NextOn(buf, pos) ==
    LET i == pos + Consumed
        n == token_size_ - Consumed
    IN  /\ ibuffer' = buf
        /\ \/ /\ state = "ERRORED"
              /\ idx' = pos
              /\ UNCHANGED <<state, code_, token_size_, framing, version>>
           \/ /\ idx' = pos + token_size_
              /\ EndOfBody \/ EndOfMessage
              /\ UNCHANGED version
           \/ /\ state \notin {"ERRORED", "EXPECT_END_OF_BODY", "EXPECT_END_OF_MESSAGE"}
              /\ idx' = i
              /\ \/ /\ i = Len(buf)
                    /\ Suspend(state, n)
                    /\ UNCHANGED <<framing, version>>
                 \/ /\ i # Len(buf)
                    /\ ReadToken(buf, i, n)

next == NextOn(ibuffer, idx)

set_buffer(buf) ==
    \/ code_ = INSUFFICIENT /\ NextOn(buf, 0)
    \/ /\ code_ # INSUFFICIENT
       /\ ibuffer' = buf
       /\ idx' = 0
       /\ UNCHANGED <<state, code_, token_size_, framing, version>>

(* Mutant: the size of the token of the old connection is kept.            *)
reset_keeps_token == /\ body_type' = "NO_BODY"
                     /\ state' = "EXPECT_METHOD"
                     /\ code_' = INSUFFICIENT
                     /\ idx' = 0
                     /\ ibuffer' = <<>>
                     /\ UNCHANGED <<token_size_, version, body_size>>

reset == /\ body_type' = "NO_BODY"
         /\ state' = "EXPECT_METHOD"
         /\ code_' = INSUFFICIENT
         /\ idx' = 0
         /\ token_size_' = 0
         /\ ibuffer' = <<>>
         /\ UNCHANGED <<version, body_size>>

(* expected_token(): what the reader would report next. *)
expected_token ==
    CASE state = "ERRORED"                                  -> code_
      [] state = "EXPECT_METHOD"                            -> "method"
      [] state = "EXPECT_REQUEST_TARGET"                    -> "request_target"
      [] state = "EXPECT_VERSION"                           -> "version"
      [] state = "EXPECT_FIELD_NAME"                        -> "field_name"
      [] state = "EXPECT_FIELD_VALUE"                       -> "field_value"
      [] state = "EXPECT_CHUNK_EXT"                         -> "chunk_ext"
      [] state \in {"EXPECT_BODY", "EXPECT_CHUNK_DATA"}     -> "body_chunk"
      [] state = "EXPECT_TRAILER_NAME"                      -> "trailer_name"
      [] state = "EXPECT_TRAILER_VALUE"                     -> "trailer_value"
      [] state = "EXPECT_END_OF_BODY"                       -> "end_of_body"
      [] state = "EXPECT_END_OF_MESSAGE"                    -> "end_of_message"
      [] OTHER                                              -> "skip"
=============================================================================
