---------------------------- MODULE RequestTokens ---------------------------
(***************************************************************************)
(* The request reader implements MessageTokens: whatever the bytes and     *)
(* however they are cut into buffers, the tokens come in the order of a    *)
(* message, with the body counted, and stop at the first error.            *)
(***************************************************************************)
EXTENDS RequestReader

(* The part of the message that a state belongs to. *)
PhaseOf == [s \in State |->
    CASE s = "EXPECT_METHOD" -> "method"
      [] s \in {"EXPECT_SP_AFTER_METHOD", "EXPECT_REQUEST_TARGET"} -> "request_target"
      [] s \in {"EXPECT_STATIC_STR_AFTER_TARGET", "EXPECT_VERSION"} -> "version"
      [] s \in {"EXPECT_CRLF_AFTER_VERSION", "EXPECT_FIELD_NAME",
                "EXPECT_CRLF_AFTER_FIELD_VALUE",
                "EXPECT_CRLF_AFTER_HEADERS"} -> "fields"
      [] s \in InField -> "value"
      [] s \in {"EXPECT_BODY", "EXPECT_END_OF_BODY"} -> "body"
      [] s = "EXPECT_END_OF_MESSAGE" -> "end"
      [] s \in {"EXPECT_CHUNK_SIZE", "EXPECT_CRLF_AFTER_CHUNK_DATA"} -> "chunks"
      [] s = "EXPECT_CHUNK_EXT" -> "chunk_line"
      [] s = "EXPEXT_CRLF_AFTER_CHUNK_EXT" -> "chunk_line_end"
      [] s = "EXPECT_CHUNK_DATA" -> "chunk_data"
      [] s \in {"EXPECT_TRAILER_COLON", "EXPECT_OWS_AFTER_TRAILER_COLON",
                "EXPECT_TRAILER_VALUE"} -> "trailer_value"
      [] s \in {"EXPECT_TRAILER_NAME", "EXPECT_CRLF_AFTER_TRAILER_VALUE",
                "EXPECT_CRLF_AFTER_TRAILERS"} -> "trailers"
      [] s = "ERRORED" -> "dead"]

RequestLine == [method |-> "request_target", request_target |-> "version",
                version |-> "fields"]

Tokens == INSTANCE MessageTokens WITH
    FirstPart <- "method",
    StartLine <- RequestLine,
    MayBeLast <- FALSE,
    phase <- PhaseOf[state],
    tok   <- code_,
    size  <- IF code_ = INSUFFICIENT THEN 0 ELSE token_size_,
    left  <- IF state \in {"EXPECT_BODY", "EXPECT_CHUNK_EXT", "EXPECT_CHUNK_DATA",
                           "EXPEXT_CRLF_AFTER_CHUNK_EXT"}
             THEN body_size ELSE 0

(* The refinement: every behaviour of the reader and its caller is, seen    *)
(* through the mapping above, a behaviour of MessageTokens.                *)
TokensFollowGrammar == Tokens!Spec
=============================================================================
