--------------------------- MODULE ResponseTokens ---------------------------
(***************************************************************************)
(* The response reader implements MessageTokens: whatever the bytes,       *)
(* however they are cut into buffers, whatever the methods and whenever    *)
(* the connection ends, the tokens come in the order of a message, with    *)
(* the body counted, and stop at the first error or after the last message *)
(* of the connection.                                                      *)
(***************************************************************************)
EXTENDS ResponseReader

LastMessage == \/ body_type = "FORCE_NO_BODY_AND_STOP"
               \/ "HTTP_1_0" \in connection_flags

(* The part of the message that a state belongs to. *)
PhaseOf == [s \in State |->
    CASE s \in {"EXPECT_VERSION_STATIC_STR", "EXPECT_VERSION"} -> "version"
      [] s \in {"EXPECT_SP_AFTER_VERSION", "EXPECT_STATUS_CODE"} -> "status_code"
      [] s \in {"EXPECT_SP_AFTER_STATUS_CODE", "EXPECT_REASON_PHRASE"} -> "reason_phrase"
      [] s \in InField -> "value"
      [] s \in (InHeaders \cup {"EXPECT_CRLF_AFTER_REASON_PHRASE"}) \ InField -> "fields"
      [] s \in {"EXPECT_BODY", "EXPECT_END_OF_BODY"} -> "body"
      [] s = "EXPECT_UNSAFE_BODY" -> "stream"
      [] s = "EXPECT_END_OF_MESSAGE" -> "end"
      [] s = "EXPECT_END_OF_CONNECTION_ERROR" -> "closed"
      [] s \in {"EXPECT_CHUNK_SIZE", "EXPECT_CRLF_AFTER_CHUNK_DATA"} -> "chunks"
      [] s = "EXPECT_CHUNK_EXT" -> "chunk_line"
      [] s = "EXPEXT_CRLF_AFTER_CHUNK_EXT" -> "chunk_line_end"
      [] s = "EXPECT_CHUNK_DATA" -> "chunk_data"
      [] s \in {"EXPECT_TRAILER_COLON", "EXPECT_OWS_AFTER_TRAILER_COLON",
                "EXPECT_TRAILER_VALUE"} -> "trailer_value"
      [] s \in {"EXPECT_TRAILER_NAME", "EXPECT_CRLF_AFTER_TRAILER_VALUE",
                "EXPECT_CRLF_AFTER_TRAILERS"} -> "trailers"
      [] s = "ERRORED" -> "dead"]

StatusLine == [version |-> "status_code", status_code |-> "reason_phrase",
               reason_phrase |-> "fields"]

Tokens == INSTANCE MessageTokens WITH
    FirstPart <- "version",
    StartLine <- StatusLine,
    MayBeLast <- TRUE,
    phase <- IF state = "EXPECT_END_OF_MESSAGE" /\ LastMessage THEN "last"
             ELSE PhaseOf[state],
    tok   <- code_,
    size  <- IF code_ = INSUFFICIENT THEN 0 ELSE token_size_,
    left  <- IF state \in {"EXPECT_BODY", "EXPECT_CHUNK_EXT", "EXPECT_CHUNK_DATA",
                           "EXPEXT_CRLF_AFTER_CHUNK_EXT"}
             THEN body_size ELSE 0

(* The refinement: every behaviour of the reader and its caller is, seen    *)
(* through the mapping above, a behaviour of MessageTokens.                *)
TokensFollowGrammar == Tokens!Spec
=============================================================================
