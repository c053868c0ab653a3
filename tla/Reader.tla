------------------------------- MODULE Reader -------------------------------
(***************************************************************************)
(* The state that the request and the response reader keep alike and the   *)
(* token forms that their next() functions share.                          *)
(*                                                                         *)
(* next() runs one case of its switch on the buffer buf, with idx = i and  *)
(* token_size_ = n.  An action of this module is such a case, or the end   *)
(* of one: it says what becomes of state, code_ and token_size_ (and of    *)
(* body_size in Body); buf and i are left to next() and set_buffer().      *)
(***************************************************************************)
EXTENDS Token, Syntax

CONSTANT UintMax     \* std::numeric_limits<uint_least64_t>::max()

ASSUME UintMaxAssumption == UintMax \in Nat \ {0}

VARIABLES
    state,        \* the next token or part of a token that is expected
    code_,        \* the current token
    idx,          \* offset of the current token in ibuffer
    token_size_,  \* its size; the bytes already scanned if it is incomplete
    ibuffer,      \* the bytes of the caller's buffer
    body_type,    \* what the header fields read so far say of the body
    body_size     \* bytes left of the body or of the current chunk

INSUFFICIENT == "error_insufficient_data"

Uint == 0..UintMax

framing == <<body_type, body_size>>

Reading == {"READING_CONTENT_LENGTH", "READING_ENCODING"}

(* The values of body_type that come from header fields. *)
FieldBodyType == {"CONTENT_LENGTH_READ", "CHUNKED_ENCODING_READ",
                  "RANDOM_ENCODING_READ"} \cup Reading

(* The bytes that the caller must present again in the next buffer. *)
Unread == SubSeq(ibuffer, idx + 1, Len(ibuffer))

(* The bytes of the current token. *)
TokenBytes == View(ibuffer, idx, idx + token_size_)

-----------------------------------------------------------------------------
(* How a case ends: with a token, with an error that stops the reader, or   *)
(* without enough data, to be resumed at state s.                          *)

Emit(s, code, size) == state' = s /\ code_' = code /\ token_size_' = size

Fail(code, size) == Emit("ERRORED", code, size)

Suspend(s, size) == Emit(s, INSUFFICIENT, size)

-----------------------------------------------------------------------------
(* Mutant: the scan moves on before it tests the first byte.               *)
ScanTokenLate(S, buf, i, n, s, code) ==
    \E e \in (i + n + 1)..Len(buf) :
        /\ Run(S, buf, i + n + 1, e)
        /\ \/ e = Len(buf) /\ Suspend(state, e - i)
           \/ e < Len(buf) /\ Emit(s, code, e - i)

(* A token of bytes of class S.  The n bytes scanned by earlier calls are   *)
(* not looked at again.                                                    *)
ScanToken(S, buf, i, n, s, code) ==
    \E e \in (i + n)..Len(buf) :
        /\ Run(S, buf, i + n, e)
        /\ \/ e = Len(buf) /\ Suspend(state, e - i)
           \/ e < Len(buf) /\ e > i /\ Emit(s, code, e - i)
           \/ e < Len(buf) /\ e = i /\ Fail("error_invalid_data", n)

(* A literal of the start line.  The bytes already compared are not         *)
(* compared again.                                                         *)
LiteralToken(literal, buf, i, n, s) ==
    LET avail == Len(buf) - i
        size  == IF avail < Len(literal) THEN avail ELSE Len(literal)
        match == \A k \in (n + 1)..size : buf[i + k] = literal[k]
    IN  \/ match /\ size = Len(literal) /\ Emit(s, "skip", size)
        \/ match /\ size < Len(literal) /\ Suspend(state, size)
        \/ ~match /\ Fail("error_invalid_data", n)

(* The first byte of the rest is tested and, when it is in S, is the token. *)
ByteToken(S, buf, i, n, s, code) ==
    \/ buf[i + 1] \in S /\ Emit(s, code, 1)
    \/ buf[i + 1] \notin S /\ Fail("error_invalid_data", n)

(* A line end of the start line or of a header field: CRLF or a bare LF.   *)
LiberalCrlf(buf, i, n, s) ==
    LET match == liberal_crlf(buf, i) IN
    \/ match = "crlf" /\ Emit(s, "skip", 2)
    \/ match = "lf" /\ Emit(s, "skip", 1)
    \/ match = "insufficient_data" /\ Suspend(state, n)
    \/ match = "invalid_data" /\ Fail("error_invalid_data", n)

(* A line end of a chunk or of a trailer: CRLF.  `here' is the state whose  *)
(* case this is.                                                           *)
StrictCrlf(buf, i, n, here, s, code) ==
    \/ Len(buf) - i < 2 /\ Suspend(here, n)
    \/ Len(buf) - i >= 2 /\ strict_crlf(buf, i) /\ Emit(s, code, 2)
    \/ Len(buf) - i >= 2 /\ ~strict_crlf(buf, i) /\ Fail("error_invalid_data", n)

(* Mutant: OWS that the end of the buffer cuts is taken to be complete.    *)
ColonNoOwsState(buf, i, n, owsState, valueState) ==
    \/ /\ buf[i + 1] = COLON
       /\ \E e \in (i + 1)..Len(buf) :
            Run(is_ows, buf, i + 1, e) /\ Emit(valueState, "skip", e - i)
    \/ buf[i + 1] # COLON /\ Fail("error_invalid_data", n)

(* The colon after a field name and the OWS that follows it in the buffer. *)
Colon(buf, i, n, owsState, valueState) ==
    \/ /\ buf[i + 1] = COLON
       /\ \E e \in (i + 1)..Len(buf) :
            /\ Run(is_ows, buf, i + 1, e)
            /\ Emit(IF e = Len(buf) THEN owsState ELSE valueState, "skip", e - i)
    \/ buf[i + 1] # COLON /\ Fail("error_invalid_data", n)

(* Mutant: what the end of the buffer cuts is taken to be complete.        *)
RescanTokenEager(S, buf, i, n, here, s, code) ==
    \E e \in i..Len(buf) : Run(S, buf, i, e) /\ Emit(s, code, e - i)

(* A name or a value that is a token once the byte after it is known; it is *)
(* scanned again from its first byte at each call.                         *)
RescanToken(S, buf, i, n, here, s, code) ==
    \E e \in i..Len(buf) :
        /\ Run(S, buf, i, e)
        /\ \/ e = Len(buf) /\ Suspend(here, n)
           \/ e < Len(buf) /\ Emit(s, code, e - i)

(* Mutant: all bytes at hand are taken for the body.                       *)
BodyTokenUnbounded(buf, i, s) ==
    LET size == Len(buf) - i
    IN  /\ body_size' = body_size - size
        /\ Emit(IF size >= body_size THEN s ELSE state, "body_chunk", size)

(* Mutant: the body is given only when all of it is in the buffer.         *)
BodyTokenWaits(buf, i, s) ==
    \/ Len(buf) - i < body_size /\ Suspend(state, 0) /\ body_size' = body_size
    \/ Len(buf) - i >= body_size /\ Emit(s, "body_chunk", body_size) /\ body_size' = 0

(* Mutant: the first piece of the body is taken to be the last.            *)
BodyTokenOnce(buf, i, s) ==
    LET rest == Len(buf) - i
        size == IF rest < body_size THEN rest ELSE body_size
    IN  body_size' = body_size - size /\ Emit(s, "body_chunk", size)

(* As many bytes of the body as are in the buffer; s follows the last one. *)
BodyToken(buf, i, s) ==
    LET rest == Len(buf) - i
        size == IF rest < body_size THEN rest ELSE body_size
    IN  /\ body_size' = body_size - size
        /\ Emit(IF body_size = size THEN s ELSE state, "body_chunk", size)
=============================================================================
