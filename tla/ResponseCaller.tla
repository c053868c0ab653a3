--------------------------- MODULE ResponseCaller ---------------------------
(***************************************************************************)
(* A response reader in the hands of any caller that keeps the contract of *)
(* doc/ref/reader_response.adoc, on any stream of bytes, with the          *)
(* connection closed at any point of it.                                   *)
(***************************************************************************)
EXTENDS ResponseReader

CONSTANTS
    Methods,         \* the methods of the requests that are answered
    Alphabet,        \* the bytes that may arrive
    MaxBuf,          \* capacity of the caller's memory, in bytes
    ShrinkAfterEof   \* whether the caller goes on to shrink its buffer when it
                     \* has called puteof()

ASSUME CallerAssumption ==
    Alphabet \subseteq Byte /\ MaxBuf \in Nat /\ ShrinkAfterEof \in BOOLEAN

VARIABLE held        \* bytes of the stream that the caller has and that are
                     \* not in the reader's buffer

vars == <<reader, held>>

Init == ReaderInit /\ held = <<>>

(* The caller reads bytes from the network as long as it is connected, and *)
(* may call set_buffer() at any time with a buffer that starts at the      *)
(* current token, holds at least that token and shows the bytes of the     *)
(* stream as they arrived.                                                 *)

Receive == /\ ~Closed
           /\ Len(ibuffer) + Len(held) < MaxBuf
           /\ \E byte \in Alphabet : held' = Append(held, byte)
           /\ UNCHANGED reader

Feed == LET bytes == Unread \o held IN
        \E k \in token_size_..Len(bytes) :
            /\ Closed /\ ~ShrinkAfterEof => k = Len(bytes)
            /\ set_buffer(SubSeq(bytes, 1, k))
            /\ held' = SubSeq(bytes, k + 1, Len(bytes))

Advance == next /\ UNCHANGED held

(* At the token status_code; the caller may forget it, and may change its  *)
(* mind.                                                                   *)
SetMethod == /\ \E method \in Methods : set_method(method)
             /\ UNCHANGED held

(* The connection was closed, and the reader has all the bytes. *)
PutEof == /\ held = <<>>
          /\ puteof
          /\ UNCHANGED held

(* The caller drops the connection and uses the reader for another one. *)
Restart == reset /\ held' = <<>>

Next == Receive \/ Feed \/ Advance \/ SetMethod \/ PutEof \/ Restart

Spec == Init /\ [][Next]_vars
-----------------------------------------------------------------------------
(* Properties. *)

(* The types of the variables of the reader itself. *)
ReaderOK == /\ state \in State
            /\ code_ \in ResponseCode
            /\ idx \in Nat
            /\ token_size_ \in Nat
            /\ ibuffer \in Seq(Byte)
            /\ connection_flags \subseteq ConnectionFlag
            /\ body_type \in BodyType
            /\ body_size \in Uint

(* Every variable stays in its type; in particular the reader reports only *)
(* the codes that doc/ref/reader_response.adoc allows to a response.       *)
TypeOK == ReaderOK /\ held \in Seq(Byte)

(* The framings that a response reader in state s may have read or been    *)
(* told, on a connection with these flags.                                 *)
OwnSuits(s, type, size, flags) ==
    /\ s \in BeforeStatusCode \cup {"EXPECT_END_OF_CONNECTION_ERROR"} =>
           type = "UNKNOWN_BODY"
    /\ s = "EXPECT_SP_AFTER_STATUS_CODE" =>
           type \in {"UNKNOWN_BODY", "CONNECTION_DELIMITED"} \cup Forced
    /\ s \in AfterStatusCode => type \in {"CONNECTION_DELIMITED"} \cup Forced
    /\ s \in InHeaders => type # "UNKNOWN_BODY"
    /\ s = "EXPECT_UNSAFE_BODY" => type = "FORCE_NO_BODY_AND_STOP"
    /\ s \in {"EXPECT_END_OF_BODY", "EXPECT_END_OF_MESSAGE"} =>
           type \in Forced \/ (type = "CONTENT_LENGTH_READ" /\ size = 0)
    /\ type \in {"READING_ENCODING", "CHUNKED_ENCODING_READ", "RANDOM_ENCODING_READ"} =>
           "HTTP_1_0" \notin flags

FramingSuits(s, type, size, flags) ==
    BodySuits(s, type, size) /\ OwnSuits(s, type, size, flags)

(* What next() relies on when it switches on body_type: a READING_* value  *)
(* lives from a field name to its value and nowhere else, so that the      *)
(* UNREACHABLE defaults are unreachable; each message starts with          *)
(* UNKNOWN_BODY and leaves its status line only after set_method(); a body *)
(* state is entered only with the framing that leads to it and with bytes  *)
(* to deliver; and no transfer coding is read from an HTTP/1.0 server, so  *)
(* that the end of the trailers need not look at the flags.                *)
FramingConsistent == FramingSuits(state, body_type, body_size, connection_flags)

(* The token a state waits for, and the bytes that make it up. *)
TokenClass == [version |-> isdigit, status_code |-> isdigit,
               reason_phrase |-> is_reason_phrase_char, field_name |-> is_tchar,
               field_value |-> is_field_value_char,
               chunk_ext |-> is_chunk_ext_char, trailer_name |-> is_tchar,
               trailer_value |-> is_field_value_char]

(* A data token is made of the bytes of its class and, unless its length   *)
(* is fixed, is followed by a byte that is not, although next() resumes    *)
(* some scans without looking again at the bytes of earlier calls.  The    *)
(* same holds of the part of a token that is still incomplete.             *)
TokenIsMaximalRun ==
    LET end == idx + token_size_ IN
    /\ code_ \in DOMAIN TokenClass =>
          \A k \in (idx + 1)..end : ibuffer[k] \in TokenClass[code_]
    /\ code_ \in DOMAIN TokenClass \ {"version", "status_code"} /\ end < Len(ibuffer) =>
          ibuffer[end + 1] \notin TokenClass[code_]
    /\ code_ = INSUFFICIENT /\ token_size_ > 0 =>
          \/ /\ expected_token = "chunk_ext"
             /\ \A k \in (idx + 1)..end : ibuffer[k] \in TokenClass["chunk_ext"]
          \/ /\ state = "EXPECT_VERSION_STATIC_STR"
             /\ TokenBytes = SubSeq(StaticStr, 1, token_size_)

(* "The error_insufficient_data error should never happens to deliver body *)
(* chunks as they're notified in chunks" (reader/response.hpp:68): a reader *)
(* that waits for body bytes has none at hand, and a chunk is not empty.   *)
BodyNeverStarves ==
    /\ code_ = INSUFFICIENT /\ expected_token = "body_chunk" => idx = Len(ibuffer)
    /\ code_ = "body_chunk" => token_size_ > 0

(* Calling set_buffer() or next() again without new bytes has no effect,   *)
(* unless the end of the connection has become known meanwhile.            *)
RetryIsNoop ==
    [][ code_ = INSUFFICIENT /\ ~Closed /\ held' = held /\ ibuffer' # <<>>
          => Unread' = Unread /\ UNCHANGED <<state, code_, token_size_, framing>> ]_vars

(* When bytes of an unfinished token are in the buffer, expected_token()   *)
(* is no longer a heuristic: the data token it names comes next, unless    *)
(* the reader fails or restarts.                                           *)
ExpectedTokenComes ==
    [][ code_ = INSUFFICIENT /\ Unread # <<>> /\ category(expected_token) = "data"
          /\ code_' \notin ErrorCode
          => code_' = expected_token ]_vars

-----------------------------------------------------------------------------
(* Statements of the repository that the code does not keep. *)

(* doc/ref/reader_response.adoc: "you're free to shrink the buffer *if*    *)
(* the new buffer is at least as big as current token".  A message that    *)
(* was begun and is reported as cut short has no byte left outside the     *)
(* buffer.                                                                 *)
ShrinkLosesNothing ==
    code_ = "error_use_another_connection" /\ body_type # "UNKNOWN_BODY" => held = <<>>
=============================================================================
