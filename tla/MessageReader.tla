--------------------------- MODULE MessageReader ----------------------------
(***************************************************************************)
(* The cases of next() that request.ipp and response.ipp write alike: the  *)
(* value of a header field, a body of known length, chunks and trailers.   *)
(* They say what becomes of state, code_, token_size_, body_type and       *)
(* body_size; what else a reader remembers is UNCHANGED where it uses them. *)
(* The literals that the code compares with are constants, so that short   *)
(* ones can stand for them.                                                *)
(***************************************************************************)
EXTENDS Reader, Decode, TransferEncoding

CONSTANTS
    TransferEncodingName, ContentLength,  \* header field names
    StaticStr        \* " HTTP/1." of a request, "HTTP/1." of a response

ASSUME LiteralsAssumption ==
    /\ {TransferEncodingName, ContentLength} \subseteq Seq(is_tchar) \ {<<>>}
    /\ ~iequals(TransferEncodingName, ContentLength)
    /\ StaticStr \in Seq(Byte) \ {<<>>}

(* The states of the part of a message that is read alike. *)
InField == {"EXPECT_COLON", "EXPECT_OWS_AFTER_COLON", "EXPECT_FIELD_VALUE"}

InHeaders == InField \cup {"EXPECT_FIELD_NAME", "EXPECT_CRLF_AFTER_FIELD_VALUE",
                           "EXPECT_CRLF_AFTER_HEADERS"}

InChunks == {"EXPECT_CHUNK_SIZE", "EXPECT_CHUNK_EXT",
             "EXPEXT_CRLF_AFTER_CHUNK_EXT", "EXPECT_CHUNK_DATA",
             "EXPECT_CRLF_AFTER_CHUNK_DATA"}

InTrailers == {"EXPECT_TRAILER_NAME", "EXPECT_TRAILER_COLON",
               "EXPECT_OWS_AFTER_TRAILER_COLON", "EXPECT_TRAILER_VALUE",
               "EXPECT_CRLF_AFTER_TRAILER_VALUE", "EXPECT_CRLF_AFTER_TRAILERS"}

MessageState == InHeaders \cup InChunks \cup InTrailers
                  \cup {"ERRORED", "EXPECT_BODY", "EXPECT_END_OF_BODY",
                        "EXPECT_END_OF_MESSAGE"}

-----------------------------------------------------------------------------
(* Header fields. *)

(* The name of a field that matters to the framing starts a READING_*      *)
(* framing, is ignored or is refused; none is the body_type of a message   *)
(* in which no such field has been read.                                   *)
TransferEncodingField(size, none) ==
    \/ /\ body_type = "CHUNKED_ENCODING_READ"
       /\ Fail("error_invalid_transfer_encoding", size)
       /\ UNCHANGED framing
    \/ /\ body_type \in {none, "CONTENT_LENGTH_READ", "RANDOM_ENCODING_READ"}
       /\ Emit("EXPECT_COLON", "field_name", size)
       /\ body_type' = "READING_ENCODING"
       /\ UNCHANGED body_size

(* Mutant: a Content-Length is decoded also after a Transfer-Encoding.     *)
ContentLengthFieldAlwaysRead(size, none) ==
    \/ /\ body_type = "CONTENT_LENGTH_READ"
       /\ Fail("error_invalid_content_length", size)
       /\ UNCHANGED framing
    \/ /\ body_type \in {none, "CHUNKED_ENCODING_READ", "RANDOM_ENCODING_READ"}
       /\ Emit("EXPECT_COLON", "field_name", size)
       /\ body_type' = "READING_CONTENT_LENGTH"
       /\ UNCHANGED body_size

ContentLengthField(size, none) ==
    \/ /\ body_type = "CONTENT_LENGTH_READ"
       /\ Fail("error_invalid_content_length", size)
       /\ UNCHANGED framing
    \/ /\ body_type \in {none, "CHUNKED_ENCODING_READ", "RANDOM_ENCODING_READ"}
       /\ Emit("EXPECT_COLON", "field_name", size)
       /\ body_type' = IF body_type = none THEN "READING_CONTENT_LENGTH"
                       ELSE body_type
       /\ UNCHANGED body_size

OtherField(size) == Emit("EXPECT_COLON", "field_name", size) /\ UNCHANGED framing

ExpectColon(buf, i, n) ==
    /\ state = "EXPECT_COLON"
    /\ Colon(buf, i, n, "EXPECT_OWS_AFTER_COLON", "EXPECT_FIELD_VALUE")
    /\ UNCHANGED framing

(* A complete field value, decoded: the one that body_type waits for       *)
(* settles it.  A failed decode still writes body_type and body_size.      *)
ContentLengthValue(value, size) ==
    \E d \in {content_length_decode(value, body_size, UintMax)} :
    /\ body_type' = "CONTENT_LENGTH_READ"
    /\ body_size' = d.out
    /\ \/ d.result = "ok"
          /\ Emit("EXPECT_CRLF_AFTER_FIELD_VALUE", "field_value", size)
       \/ d.result = "invalid" /\ Fail("error_invalid_content_length", size)
       \/ d.result = "overflow" /\ Fail("error_content_length_overflow", size)

TransferEncodingValue(value, size) ==
    \E res \in {decode_transfer_encoding(value)} :
    /\ UNCHANGED body_size
    /\ \/ /\ res = "CHUNKED_INVALID"
          /\ Fail("error_invalid_transfer_encoding", size)
          /\ body_type' = body_type
       \/ /\ res # "CHUNKED_INVALID"
          /\ Emit("EXPECT_CRLF_AFTER_FIELD_VALUE", "field_value", size)
          /\ body_type' = IF res = "CHUNKED_AT_END" THEN "CHUNKED_ENCODING_READ"
                          ELSE "RANDOM_ENCODING_READ"

FieldValue(buf, i, n) ==
    \E e \in i..Len(buf) :
        /\ Run(is_field_value_char, buf, i, e)
        /\ \/ /\ e = Len(buf)
              /\ Suspend("EXPECT_FIELD_VALUE", n)
              /\ UNCHANGED framing
           \/ /\ e < Len(buf)
              /\ \E value \in {decode_field_value(View(buf, i, e))} :
                   \/ body_type = "READING_CONTENT_LENGTH"
                      /\ ContentLengthValue(value, e - i)
                   \/ body_type = "READING_ENCODING"
                      /\ TransferEncodingValue(value, e - i)
                   \/ /\ body_type \notin Reading
                      /\ Emit("EXPECT_CRLF_AFTER_FIELD_VALUE", "field_value", e - i)
                      /\ UNCHANGED framing

ExpectFieldValue(buf, i, n) == state = "EXPECT_FIELD_VALUE" /\ FieldValue(buf, i, n)

(* Mutant: without OWS an empty token is given, again and again.           *)
ExpectOwsAfterColonEmpty(buf, i, n) ==
    /\ state = "EXPECT_OWS_AFTER_COLON"
    /\ \E e \in i..Len(buf) : Run(is_ows, buf, i, e) /\ Emit(state, "skip", e - i)
    /\ UNCHANGED framing

(* Without OWS at hand this is the value: next() calls itself. *)
ExpectOwsAfterColon(buf, i, n) ==
    /\ state = "EXPECT_OWS_AFTER_COLON"
    /\ \E e \in i..Len(buf) :
         /\ Run(is_ows, buf, i, e)
         /\ \/ e = i /\ FieldValue(buf, i, n)
            \/ e > i /\ Emit(state, "skip", e - i) /\ UNCHANGED framing

ExpectCrlfAfterFieldValue(buf, i, n) ==
    /\ state = "EXPECT_CRLF_AFTER_FIELD_VALUE"
    /\ LiberalCrlf(buf, i, n, "EXPECT_FIELD_NAME")
    /\ UNCHANGED framing

(* The cases of a header field from its colon to its line end. *)
FieldCase(buf, i, n) ==
    \/ ExpectColon(buf, i, n)
    \/ ExpectOwsAfterColon(buf, i, n)
    \/ ExpectFieldValue(buf, i, n)
    \/ ExpectCrlfAfterFieldValue(buf, i, n)

-----------------------------------------------------------------------------
(* The body. *)

ExpectBody(buf, i, n) ==
    /\ state = "EXPECT_BODY"
    /\ BodyToken(buf, i, "EXPECT_END_OF_BODY")
    /\ UNCHANGED body_type

ExpectChunkSize(buf, i, n) ==
    /\ state = "EXPECT_CHUNK_SIZE"
    /\ \E e \in i..Len(buf) :
         LET d == chunk_size_decode(View(buf, i, e), body_size, UintMax) IN
         /\ Run(is_hexdigit, buf, i, e)
         /\ \/ e = i /\ Fail("error_invalid_data", n) /\ UNCHANGED body_size
            \/ e > i /\ e = Len(buf) /\ Suspend(state, n) /\ UNCHANGED body_size
            \/ /\ e > i /\ e < Len(buf)
               /\ body_size' = d.out
               /\ \/ d.result = "ok" /\ Emit("EXPECT_CHUNK_EXT", "skip", e - i)
                  \/ d.result # "ok"
                     /\ Fail(IF d.result = "overflow" THEN "error_chunk_size_overflow"
                             ELSE "error_invalid_data", n)
    /\ UNCHANGED body_type

(* Mutant: the last chunk is skipped without end_of_body.                  *)
CrlfAfterChunkExtSilent(buf, i, n) ==
    StrictCrlf(buf, i, n, "EXPEXT_CRLF_AFTER_CHUNK_EXT",
               IF body_size # 0 THEN "EXPECT_CHUNK_DATA" ELSE "EXPECT_TRAILER_NAME",
               "skip")

(* The line after the chunk size; the last chunk has size 0. *)
CrlfAfterChunkExt(buf, i, n) ==
    StrictCrlf(buf, i, n, "EXPEXT_CRLF_AFTER_CHUNK_EXT",
               IF body_size # 0 THEN "EXPECT_CHUNK_DATA" ELSE "EXPECT_TRAILER_NAME",
               IF body_size # 0 THEN "skip" ELSE "end_of_body")

(* With no extension at hand this is the line end: next() calls itself. *)
ExpectChunkExt(buf, i, n) ==
    /\ state = "EXPECT_CHUNK_EXT"
    /\ \E e \in (i + n)..Len(buf) :
         /\ Run(is_chunk_ext_char, buf, i + n, e)
         /\ \/ e = Len(buf) /\ Suspend(state, e - i)
            \/ e < Len(buf) /\ buf[e + 1] # CR /\ Fail("error_invalid_data", n)
            \/ e < Len(buf) /\ buf[e + 1] = CR /\ e = i /\ CrlfAfterChunkExt(buf, i, 0)
            \/ /\ e < Len(buf) /\ buf[e + 1] = CR /\ e > i
               /\ Emit("EXPEXT_CRLF_AFTER_CHUNK_EXT", "chunk_ext", e - i)
    /\ UNCHANGED framing

ExpectCrlfAfterChunkExt(buf, i, n) ==
    /\ state = "EXPEXT_CRLF_AFTER_CHUNK_EXT"
    /\ CrlfAfterChunkExt(buf, i, n)
    /\ UNCHANGED framing

ExpectChunkData(buf, i, n) ==
    /\ state = "EXPECT_CHUNK_DATA"
    /\ BodyToken(buf, i, "EXPECT_CRLF_AFTER_CHUNK_DATA")
    /\ UNCHANGED body_type

ExpectCrlfAfterChunkData(buf, i, n) ==
    /\ state = "EXPECT_CRLF_AFTER_CHUNK_DATA"
    /\ StrictCrlf(buf, i, n, state, "EXPECT_CHUNK_SIZE", "skip")
    /\ UNCHANGED framing

ChunkCase(buf, i, n) ==
    \/ ExpectChunkSize(buf, i, n)
    \/ ExpectChunkExt(buf, i, n)
    \/ ExpectCrlfAfterChunkExt(buf, i, n)
    \/ ExpectChunkData(buf, i, n)
    \/ ExpectCrlfAfterChunkData(buf, i, n)

-----------------------------------------------------------------------------
(* The trailer section. *)

(* The empty line ends the message and makes the reader ready for the next  *)
(* one, in its first state and with the body_type none.                    *)
CrlfAfterTrailers(buf, i, n, first, none) ==
    /\ StrictCrlf(buf, i, n, "EXPECT_CRLF_AFTER_TRAILERS", first, "end_of_message")
    /\ body_type' = IF code_' = "end_of_message" THEN none ELSE body_type
    /\ UNCHANGED body_size

ExpectCrlfAfterTrailers(buf, i, n, first, none) ==
    /\ state = "EXPECT_CRLF_AFTER_TRAILERS"
    /\ CrlfAfterTrailers(buf, i, n, first, none)

ExpectTrailerName(buf, i, n, first, none) ==
    /\ state = "EXPECT_TRAILER_NAME"
    /\ \/ buf[i + 1] \notin is_tchar /\ CrlfAfterTrailers(buf, i, n, first, none)
       \/ /\ buf[i + 1] \in is_tchar
          /\ RescanToken(is_tchar, buf, i, n, state, "EXPECT_TRAILER_COLON",
                         "trailer_name")
          /\ UNCHANGED framing

ExpectTrailerColon(buf, i, n) ==
    /\ state = "EXPECT_TRAILER_COLON"
    /\ Colon(buf, i, n, "EXPECT_OWS_AFTER_TRAILER_COLON", "EXPECT_TRAILER_VALUE")
    /\ UNCHANGED framing

TrailerValue(buf, i, n) ==
    RescanToken(is_field_value_char, buf, i, n, "EXPECT_TRAILER_VALUE",
                "EXPECT_CRLF_AFTER_TRAILER_VALUE", "trailer_value")

ExpectOwsAfterTrailerColon(buf, i, n) ==
    /\ state = "EXPECT_OWS_AFTER_TRAILER_COLON"
    /\ \E e \in i..Len(buf) :
         /\ Run(is_ows, buf, i, e)
         /\ \/ e = i /\ TrailerValue(buf, i, n)
            \/ e > i /\ Emit(state, "skip", e - i)
    /\ UNCHANGED framing

ExpectTrailerValue(buf, i, n) ==
    /\ state = "EXPECT_TRAILER_VALUE"
    /\ TrailerValue(buf, i, n)
    /\ UNCHANGED framing

ExpectCrlfAfterTrailerValue(buf, i, n) ==
    /\ state = "EXPECT_CRLF_AFTER_TRAILER_VALUE"
    /\ StrictCrlf(buf, i, n, state, "EXPECT_TRAILER_NAME", "skip")
    /\ UNCHANGED framing

TrailerCase(buf, i, n, first, none) ==
    \/ ExpectTrailerName(buf, i, n, first, none)
    \/ ExpectTrailerColon(buf, i, n)
    \/ ExpectOwsAfterTrailerColon(buf, i, n)
    \/ ExpectTrailerValue(buf, i, n)
    \/ ExpectCrlfAfterTrailerValue(buf, i, n)
    \/ ExpectCrlfAfterTrailers(buf, i, n, first, none)

-----------------------------------------------------------------------------
(* The beginning of next(): the current token, unless it is incomplete, is *)
(* consumed.                                                               *)

(* Mutant: next() forgets the scanned part of an incomplete token.         *)
ConsumedAlways == token_size_

(* The bytes that next() moves past before it reads on. *)
Consumed == IF code_ = INSUFFICIENT THEN 0 ELSE token_size_

(* The tokens without bytes, given even when the buffer is exhausted. *)
EndOfBody == /\ state = "EXPECT_END_OF_BODY"
             /\ Emit("EXPECT_END_OF_MESSAGE", "end_of_body", 0)
             /\ UNCHANGED framing

-----------------------------------------------------------------------------
(* Properties of both readers. *)

(* The current token, or the part of it already scanned, lies within the   *)
(* buffer, whatever buffers the caller went through: value<T>() and the    *)
(* scan loops of next(), which stop at i == ibuffer.size() only, never     *)
(* leave it.                                                               *)
TokenInsideBuffer == idx + token_size_ <= Len(ibuffer)

(* The OWS before a field value is always skipped, wherever the buffer was *)
(* cut: the syntax is called left_trimmed_field_value.                     *)
ValueIsLeftTrimmed ==
    code_ \in {"field_value", "trailer_value"} /\ token_size_ > 0 =>
        ibuffer[idx + 1] \notin is_ows

(* The framings that a reader in state s of this part may have read. *)
BodySuits(s, type, size) ==
    /\ type \in Reading => s \in InField \cup {"ERRORED"}
    /\ s \in InChunks \cup InTrailers => type = "CHUNKED_ENCODING_READ"
    /\ s = "EXPECT_BODY" => type = "CONTENT_LENGTH_READ"
    /\ s \in {"EXPECT_BODY", "EXPECT_CHUNK_DATA"} => size > 0
    /\ s \in InTrailers => size = 0
=============================================================================
