--------------------------- MODULE RequestCaller ----------------------------
(***************************************************************************)
(* A request reader in the hands of any caller that keeps the contract of  *)
(* doc/ref/reader_request.adoc, on any stream of bytes.                    *)
(***************************************************************************)
EXTENDS RequestReader

CONSTANTS
    Alphabet,        \* the bytes that may arrive
    MaxBuf           \* capacity of the caller's memory, in bytes

ASSUME CallerAssumption == Alphabet \subseteq Byte /\ MaxBuf \in Nat

VARIABLE held        \* bytes of the stream that the caller has and that are
                     \* not in the reader's buffer

vars == <<reader, held>>

Init == ReaderInit /\ held = <<>>

(* The caller reads bytes from the network, and may call set_buffer()      *)
(* at any time with a buffer that starts at the current token, holds at    *)
(* least that token and shows the bytes of the stream as they arrived.     *)

Receive == /\ Len(ibuffer) + Len(held) < MaxBuf
           /\ \E byte \in Alphabet : held' = Append(held, byte)
           /\ UNCHANGED reader

Feed == LET bytes == Unread \o held IN
        \E k \in token_size_..Len(bytes) :
            /\ set_buffer(SubSeq(bytes, 1, k))
            /\ held' = SubSeq(bytes, k + 1, Len(bytes))

Advance == next /\ UNCHANGED held

(* The caller drops the connection and uses the reader for another one. *)
Restart == reset /\ held' = <<>>

Next == Receive \/ Feed \/ Advance \/ Restart

Spec == Init /\ [][Next]_vars
-----------------------------------------------------------------------------
(* Properties. *)

(* The types of the variables of the reader itself. *)
ReaderOK == /\ state \in State
            /\ code_ \in RequestCode
            /\ idx \in Nat
            /\ token_size_ \in Nat
            /\ ibuffer \in Seq(Byte)
            /\ version \in Version
            /\ body_type \in BodyType
            /\ body_size \in Uint

(* Every variable stays in its type; in particular the reader reports only *)
(* the codes that doc/ref/reader_request.adoc allows to a request.         *)
TypeOK == ReaderOK /\ held \in Seq(Byte)

(* The framings that a reader in state s may have read. *)
FramingSuits(s, type, size) ==
    /\ BodySuits(s, type, size)
    /\ s \in StartLine => type = "NO_BODY"
    /\ s \in {"EXPECT_END_OF_BODY", "EXPECT_END_OF_MESSAGE"} =>
           type = "NO_BODY" \/ (type = "CONTENT_LENGTH_READ" /\ size = 0)

(* What next() relies on when it switches on body_type: a READING_* value  *)
(* lives from a field name to its value and nowhere else, so that the      *)
(* UNREACHABLE defaults of EXPECT_FIELD_NAME and EXPECT_CRLF_AFTER_HEADERS *)
(* are unreachable; a message starts with NO_BODY, also after a pipelined  *)
(* one; and a body state is entered only with the framing that leads to it *)
(* and with bytes to deliver.                                              *)
FramingConsistent == FramingSuits(state, body_type, body_size)

(* The token a state waits for, and the bytes that make it up. *)
TokenClass == [method |-> is_tchar, request_target |-> is_request_target_char,
               version |-> isdigit, field_name |-> is_tchar,
               field_value |-> is_field_value_char,
               chunk_ext |-> is_chunk_ext_char, trailer_name |-> is_tchar,
               trailer_value |-> is_field_value_char]

(* A data token is made of the bytes of its class and is followed by a     *)
(* byte that is not (chunk_ext by CR), although next() resumes a scan      *)
(* without looking again at the bytes of earlier calls.  The same holds of *)
(* the part of a token that is still incomplete.                           *)
TokenIsMaximalRun ==
    LET end == idx + token_size_ IN
    /\ code_ \in DOMAIN TokenClass =>
          \A k \in (idx + 1)..end : ibuffer[k] \in TokenClass[code_]
    /\ code_ \in DOMAIN TokenClass \ {"version"} /\ end < Len(ibuffer) =>
          ibuffer[end + 1] \notin TokenClass[code_]
    /\ code_ = INSUFFICIENT /\ token_size_ > 0 =>
          \/ /\ expected_token \in {"method", "request_target", "chunk_ext"}
             /\ \A k \in (idx + 1)..end : ibuffer[k] \in TokenClass[expected_token]
          \/ /\ state = "EXPECT_STATIC_STR_AFTER_TARGET"
             /\ TokenBytes = SubSeq(StaticStr, 1, token_size_)

(* "The error_insufficient_data error should never happens to deliver body *)
(* chunks as they're notified in chunks" (reader/request.hpp:57): a reader *)
(* that waits for body bytes has none at hand, and a chunk is not empty.   *)
BodyNeverStarves ==
    /\ code_ = INSUFFICIENT /\ expected_token = "body_chunk" => idx = Len(ibuffer)
    /\ code_ = "body_chunk" => token_size_ > 0

(* Calling set_buffer() or next() again without new bytes has no effect: a *)
(* suspended scan is resumed where it was.                                 *)
RetryIsNoop ==
    [][ code_ = INSUFFICIENT /\ held' = held /\ ibuffer' # <<>>
          => Unread' = Unread /\ UNCHANGED <<state, code_, token_size_, framing, version>> ]_vars

(* When bytes of an unfinished token are in the buffer, expected_token()   *)
(* is no longer a heuristic: the data token it names comes next, unless    *)
(* the reader fails or restarts.                                           *)
ExpectedTokenComes ==
    [][ code_ = INSUFFICIENT /\ Unread # <<>> /\ category(expected_token) = "data"
          /\ code_' \notin ErrorCode
          => code_' = expected_token ]_vars
=============================================================================
