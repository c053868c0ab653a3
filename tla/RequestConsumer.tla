-------------------------- MODULE RequestConsumer ---------------------------
(***************************************************************************)
(* A request reader and the code that consumes its tokens.  The consumer   *)
(* keeps, in the history variable seen, what the tokens of the current     *)
(* message told it; it never looks at the reader's private state.  The     *)
(* framing decision of the reader is compared with the one section 3.3.3   *)
(* of RFC 7230, which the comments of request.ipp quote, derives from the  *)
(* header fields seen.                                                     *)
(***************************************************************************)
EXTENDS RequestCaller, MessageFields

VARIABLE seen

Fresh == [http10 |-> FALSE, hosts |-> 0, name |-> "none", te |-> "absent",
          cl |-> NONE, left |-> 0]

NameOf(bytes) == CASE iequals(bytes, Host)                 -> "Host"
                   [] iequals(bytes, TransferEncodingName) -> "Transfer-Encoding"
                   [] iequals(bytes, ContentLength)        -> "Content-Length"
                   [] OTHER                                -> "other"

(* What the consumer learns from a token with these bytes.  The header     *)
(* fields are forgotten once the body starts.                              *)
Learn(code, bytes) ==
    LET value == decode_field_value(bytes) IN
    CASE code = "version" -> [seen EXCEPT !.http10 = bytes[1] = 48]
      [] code = "field_name" ->
           [seen EXCEPT !.name = NameOf(bytes),
                        !.hosts = IF NameOf(bytes) = "Host" THEN Min({2, @ + 1}) ELSE @]
      [] code = "field_value" /\ seen.name = "Transfer-Encoding" ->
           [seen EXCEPT !.te = MergeCodings(@, value), !.name = "none"]
      [] code = "field_value" /\ seen.name = "Content-Length" ->
           [seen EXCEPT !.cl = MergeLengths(@, value), !.name = "none"]
      [] code = "field_value" /\ seen.name \notin {"Transfer-Encoding", "Content-Length"} ->
           [seen EXCEPT !.name = "none"]
      [] code = "end_of_headers" ->
           [seen EXCEPT !.left = IF seen.te = "absent" THEN Max({0, seen.cl}) ELSE 0]
      [] code = "skip" /\ state = "EXPECT_CHUNK_SIZE" ->
           [Fresh EXCEPT !.left = seen.left + Number(bytes, HexValue, 16)]
      [] code = "body_chunk" -> [Fresh EXCEPT !.left = seen.left - Len(bytes)]
      [] code = "end_of_body" -> [Fresh EXCEPT !.left = seen.left]
      [] code = "end_of_message" -> Fresh
      [] OTHER -> seen

(* A token is looked at once, in the step that makes it the current one. *)
Look(asked) == seen' = IF asked /\ state # "ERRORED" /\ code_' \notin ErrorCode
                       THEN Learn(code_', TokenBytes') ELSE seen

ConsumerInit == Init /\ seen = Fresh

ConsumerNext == \/ Receive /\ Look(FALSE)
                \/ Feed /\ Look(code_ = INSUFFICIENT)
                \/ Advance /\ Look(TRUE)
                \/ Restart /\ seen' = Fresh

ConsumerSpec == ConsumerInit /\ [][ConsumerNext]_<<vars, seen>>

-----------------------------------------------------------------------------
(* At end_of_headers the reader has settled on the body that the header    *)
(* fields of THIS message announce, in whatever order they came, however   *)
(* they were cut, and whatever an earlier message or a discarded           *)
(* connection left in version, body_type and body_size: chunked if it is   *)
(* the last and only coding, else the Content-Length, else none; anything  *)
(* else was refused, and so was a request without exactly one Host, unless *)
(* it is of HTTP/1.0, whose Host fields the code does not count.           *)
FramingFollowsFields ==
    code_ = "end_of_headers" =>
        /\ seen.http10 \/ seen.hosts = 1
        /\ seen.te \in {"absent", "chunked"}
        /\ seen.te = "chunked" => state = "EXPECT_CHUNK_SIZE"
        /\ seen.te = "absent" =>
              CASE seen.cl = NONE \/ seen.cl = 0 -> state = "EXPECT_END_OF_BODY"
                [] seen.cl \in 1..UintMax -> state = "EXPECT_BODY" /\ body_size = seen.cl
                [] OTHER -> FALSE

(* The consumer is given exactly the bytes that were announced: at         *)
(* end_of_body none is missing, of no chunk, and at no time are there too  *)
(* many.                                                                   *)
BodyIsComplete ==
    /\ seen.left >= 0
    /\ code_ = "end_of_body" => seen.left = 0

(* A request is refused only for what the consumer can see to be wrong with *)
(* it: in the header fields so far and in the token that is refused, a     *)
(* field name, a field value or the empty line.  error_no_host is "only an *)
(* error on versions more recent than HTTP/1.0" (token.hpp:26), also when  *)
(* the connection carried another version before, and says that there is   *)
(* no Host or that this is the second; a Content-Length is refused when it *)
(* is the second, is no numeral or does not fit, and only if no            *)
(* Transfer-Encoding overrides it.                                         *)
RefusalIsJustified ==
    LET refused == NameOf(TokenBytes) IN
    /\ code_ = "error_no_host" =>
          ~seen.http10 /\ seen.hosts = IF refused = "Host" THEN 1 ELSE 0
    /\ code_ = "error_invalid_content_length" =>
          /\ seen.te = "absent"
          /\ \/ seen.name = "Content-Length" /\ LengthOf(TokenBytes) = BAD
             \/ seen.cl # NONE /\ refused = "Content-Length"
    /\ code_ = "error_content_length_overflow" =>
          /\ seen.te = "absent" /\ seen.name = "Content-Length"
          /\ LengthOf(TokenBytes) \notin Uint
    /\ code_ = "error_invalid_transfer_encoding" =>
          \/ seen.name = "Transfer-Encoding" /\ CodingsOf(seen.te, TokenBytes) = "bad"
          \/ seen.te = "chunked" /\ refused = "Transfer-Encoding"
          \/ seen.te = "other" /\ refused = "other"

-----------------------------------------------------------------------------
(* A statement of the repository that the code does not keep. *)

(* "A server MUST respond with a 400 (Bad Request) status code [...] to any *)
(* request mesage that contains more than one Host header field"           *)
(* (reader/request.ipp:367): the header section of no request ends with    *)
(* two of them.                                                            *)
TwoHostsAreRefused == code_ = "end_of_headers" => seen.hosts < 2
=============================================================================
