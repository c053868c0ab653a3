-------------------------- MODULE ResponseConsumer --------------------------
(***************************************************************************)
(* A response reader and the code that consumes its tokens.  The consumer  *)
(* keeps, in the history variable seen, what the tokens of the current     *)
(* message and the methods of its own requests told it; it never looks at  *)
(* the reader's private state.  The reader's decisions on the body and on  *)
(* the connection are compared with those of section 3.3.3 of RFC 7230.    *)
(***************************************************************************)
EXTENDS ResponseCaller, MessageFields

VARIABLE seen

(* kind is the kind of body: "unknown" until set_method() is called,        *)
(* "fields" while the header fields may tell; left counts the bytes that   *)
(* are missing, and final says that the last chunk was announced.          *)
Fresh == [http10 |-> FALSE, kind |-> "unknown", name |-> "none", te |-> "absent",
          cl |-> NONE, left |-> 0, final |-> FALSE]

(* The kind of body that a method and a status imply. *)
KindOf(method, status) ==
    CASE method = HEAD \/ status \in (100..199) \cup {204, 304} -> "none"
      [] method = CONNECT /\ status \in (200..299) \ {204}     -> "tunnel"
      [] OTHER                                                 -> "fields"

NameOf(bytes) == CASE iequals(bytes, TransferEncodingName) -> "Transfer-Encoding"
                   [] iequals(bytes, ContentLength)        -> "Content-Length"
                   [] OTHER                                -> "other"

(* The kind of body, at the end of the headers. *)
Resolved == IF seen.kind # "fields" THEN seen.kind
            ELSE CASE seen.te = "chunked"                  -> "chunked"
                   [] seen.te = "other"                    -> "close"
                   [] seen.te = "absent" /\ seen.cl = NONE -> "close"
                   [] seen.te = "absent" /\ seen.cl \in 0..UintMax -> "length"
                   [] OTHER                                -> "invalid"

(* What the consumer learns from a token with these bytes.  Fields are of  *)
(* no interest to it when the method and the status settle the body.       *)
Learn(code, bytes) ==
    LET value == decode_field_value(bytes) IN
    CASE code = "version" -> [Fresh EXCEPT !.http10 = seen.http10 \/ bytes[1] = 48]
      [] code = "field_name" /\ seen.kind = "fields" -> [seen EXCEPT !.name = NameOf(bytes)]
      [] code = "field_value" /\ seen.name = "Transfer-Encoding" /\ ~seen.http10 ->
           [seen EXCEPT !.te = MergeCodings(@, value), !.name = "none"]
      [] code = "field_value" /\ seen.name = "Content-Length" ->
           [seen EXCEPT !.cl = MergeLengths(@, value), !.name = "none"]
      [] code = "field_value" /\ ~(seen.name = "Transfer-Encoding" /\ ~seen.http10)
                              /\ seen.name # "Content-Length" ->
           [seen EXCEPT !.name = "none"]
      [] code = "end_of_headers" ->
           [Fresh EXCEPT !.http10 = seen.http10, !.kind = Resolved,
                         !.left = IF Resolved = "length" THEN seen.cl ELSE 0]
      [] code = "skip" /\ state = "EXPECT_CHUNK_SIZE" ->
           [seen EXCEPT !.left = @ + Number(bytes, HexValue, 16),
                        !.final = (Number(bytes, HexValue, 16) = 0)]
      [] code = "body_chunk" /\ seen.kind # "close" ->
           [seen EXCEPT !.left = @ - Len(bytes)]
      [] OTHER -> seen

(* A token is looked at once, in the step that makes it the current one. *)
Look(asked) == seen' = IF asked /\ state # "ERRORED" /\ code_' \notin ErrorCode
                       THEN Learn(code_', TokenBytes') ELSE seen

(* The consumer answers the token status_code with the method. *)
TellMethod(method) ==
    /\ set_method(method)
    /\ UNCHANGED held
    /\ seen' = [seen EXCEPT !.kind = KindOf(method, Number(TokenBytes, DecimalValue, 10))]

ConsumerInit == Init /\ seen = Fresh

ConsumerNext == \/ Receive /\ Look(FALSE)
                \/ Feed /\ Look(code_ = INSUFFICIENT)
                \/ Advance /\ Look(TRUE)
                \/ PutEof /\ Look(FALSE)
                \/ \E method \in Methods : TellMethod(method)
                \/ Restart /\ seen' = Fresh

ConsumerSpec == ConsumerInit /\ [][ConsumerNext]_<<vars, seen>>

-----------------------------------------------------------------------------
(* At end_of_headers the reader has settled on the body that the method,   *)
(* the status and the header fields of THIS message imply, in whatever     *)
(* order and pieces they came and whatever an earlier message or a         *)
(* discarded connection left in body_type, body_size and connection_flags. *)
FramingFollowsFields ==
    code_ = "end_of_headers" =>
        CASE seen.kind \in {"none", "tunnel"} -> state = "EXPECT_END_OF_BODY"
          [] seen.kind = "chunked"            -> state = "EXPECT_CHUNK_SIZE"
          [] seen.kind = "close"              -> state = "EXPECT_UNSAFE_BODY"
          [] seen.kind = "length" /\ seen.left = 0 -> state = "EXPECT_END_OF_BODY"
          [] seen.kind = "length" /\ seen.left > 0 ->
                 state = "EXPECT_BODY" /\ body_size = seen.left
          [] OTHER -> FALSE

(* The consumer is given exactly the bytes that were announced.  In        *)
(* particular end_of_body is never the effect of a connection that broke:  *)
(* not in a body of known length, not between two chunks, and in a body    *)
(* that ends with the connection only when every byte has been delivered.  *)
BodyIsComplete ==
    /\ seen.left >= 0
    /\ code_ = "end_of_body" =>
          /\ seen.left = 0
          /\ seen.kind = "chunked" => seen.final
          /\ seen.kind = "close" => Closed /\ Unread = <<>> /\ held = <<>>

(* After a message the connection is given up exactly when nothing can     *)
(* follow: an HTTP/1.0 server closes it, a successful CONNECT turns it     *)
(* into a tunnel, and the body that ends with it ends it.  The consumer    *)
(* learns it from expected_token() and from the next token.                *)
ConnectionIsReused ==
    code_ = "end_of_message" =>
        (expected_token = "error_use_another_connection" <=>
             seen.http10 \/ seen.kind \in {"tunnel", "close"})

(* A response is refused only for what the consumer can see to be wrong:   *)
(* in the header fields so far and in the field name or value that is      *)
(* refused, unless fields are ignored (a Content-Length that is the        *)
(* second, is no numeral or does not fit, a Transfer-Encoding in which     *)
(* chunked is not the last and only one), in its own omission of           *)
(* set_method(), or in the end of the connection.                          *)
RefusalIsJustified ==
    LET refused == NameOf(TokenBytes) IN
    /\ code_ = "error_set_method" => seen.kind = "unknown"
    /\ code_ = "error_invalid_content_length" =>
          /\ seen.kind = "fields" /\ seen.te = "absent"
          /\ \/ seen.name = "Content-Length" /\ LengthOf(TokenBytes) = BAD
             \/ seen.cl # NONE /\ refused = "Content-Length"
    /\ code_ = "error_content_length_overflow" =>
          /\ seen.kind = "fields" /\ seen.te = "absent" /\ seen.name = "Content-Length"
          /\ LengthOf(TokenBytes) \notin Uint
    /\ code_ = "error_invalid_transfer_encoding" =>
          /\ seen.kind = "fields" /\ ~seen.http10
          /\ \/ seen.name = "Transfer-Encoding" /\ CodingsOf(seen.te, TokenBytes) = "bad"
             \/ seen.te = "chunked" /\ refused = "Transfer-Encoding"
    /\ code_ = "error_use_another_connection" =>
          Closed \/ seen.http10 \/ seen.kind \in {"tunnel", "close"}
=============================================================================
