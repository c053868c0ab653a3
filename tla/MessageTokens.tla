--------------------------- MODULE MessageTokens ----------------------------
(***************************************************************************)
(* What a reader promises to the loop that consumes its tokens: an HTTP    *)
(* message as a sequence of tokens, independent of bytes and buffers.      *)
(* The order of the tokens is the one that doc/parsing_tutorial1.adoc and  *)
(* doc/parsing_tutorial2.adoc explain; StartLine orders the tokens of the  *)
(* start line, in which requests and responses differ.  A response may     *)
(* have a body that ends with the connection, and be the last message of   *)
(* it.                                                                     *)
(***************************************************************************)
EXTENDS Integers, Sequences, Token

CONSTANTS
    FirstPart,   \* the first token of the start line
    StartLine,   \* the part of the message that follows each token of it
    MayBeLast    \* whether a message may end the use of its connection

VARIABLES
    phase,   \* the part of the message that is read; a part of the start line
             \* has the name of its token
    tok,     \* the current token
    size,    \* its size; 0 while it is incomplete
    left     \* bytes of the body or of the chunk that have been announced and
             \* not delivered

vars == <<phase, tok, size, left>>

Init == /\ phase = FirstPart /\ tok = "error_insufficient_data"
        /\ size = 0 /\ left = 0

(* A token that takes the message from one of its parts to another. *)
Step(p, t, q) == tok' = t /\ phase = p /\ phase' = q

StartLineToken ==
    /\ tok' \in DOMAIN StartLine
    /\ phase = tok' /\ phase' = StartLine[tok']
    /\ size' > 0 \/ (tok' = "reason_phrase" /\ size' = 0)
    /\ left' = left

(* Names and values alternate; only a value may be empty. *)
FieldToken ==
    /\ \/ Step("fields", "field_name", "value") /\ size' > 0
       \/ Step("value", "field_value", "fields") /\ size' >= 0
       \/ Step("trailers", "trailer_name", "trailer_value") /\ size' > 0
       \/ Step("trailer_value", "trailer_value", "trailers") /\ size' >= 0
    /\ left' = left

EndOfHeaders ==
    /\ \/ Step("fields", "end_of_headers", "body") /\ left' >= 0
       \/ Step("fields", "end_of_headers", "chunks") /\ left' = left
       \/ MayBeLast /\ Step("fields", "end_of_headers", "stream") /\ left' = left
    /\ size' > 0

(* A chunk of the body: never empty, and counted unless the body is a      *)
(* stream that ends with the connection.                                   *)
BodyChunk ==
    \/ /\ \/ Step("body", "body_chunk", "body")
          \/ Step("chunk_data", "body_chunk", IF left' = 0 THEN "chunks" ELSE "chunk_data")
       /\ size' \in 1..left
       /\ left' = left - size'
    \/ Step("stream", "body_chunk", "stream") /\ size' > 0 /\ left' = left

(* The size of a chunk is read, then at most one extension, then the data. *)
ChunkLine ==
    \/ Step("chunks", "skip", "chunk_line") /\ left' >= 0 /\ size' > 0
    \/ Step("chunk_line", "chunk_ext", "chunk_line_end") /\ left' = left /\ size' > 0
    \/ /\ \/ Step("chunk_line", "skip", "chunk_data")
          \/ Step("chunk_line_end", "skip", "chunk_data")
       /\ left > 0 /\ left' = left /\ size' = 2

(* The body ends when all of it has been delivered, and before the message. *)
EndOfBody ==
    /\ \/ Step("body", "end_of_body", "end") /\ size' = 0
       \/ MayBeLast /\ Step("body", "end_of_body", "last") /\ size' = 0
       \/ Step("stream", "end_of_body", "last") /\ size' = 0
       \/ Step("chunk_line", "end_of_body", "trailers") /\ size' > 0
       \/ Step("chunk_line_end", "end_of_body", "trailers") /\ size' > 0
    /\ left = 0 /\ left' = left

(* The message ends and another one may follow, unless it was the last. *)
EndOfMessage ==
    /\ \/ Step("last", "end_of_message", "closed") /\ size' = 0
       \/ Step("end", "end_of_message", FirstPart) /\ size' = 0
       \/ Step("trailers", "end_of_message", FirstPart) /\ size' > 0
    /\ left' = left

(* Bytes without meaning, and waiting for more bytes, change nothing, except *)
(* that a reader may find out while it waits that there is no extension.     *)
Skip == /\ tok' = "skip"
        /\ phase \notin {"closed", "dead"} /\ phase' = phase
        /\ size' > 0 /\ left' = left

Wait == /\ tok' = "error_insufficient_data"
        /\ phase \notin {"closed", "dead"}
        /\ size' = 0 /\ left' = left
        /\ \/ phase' = phase
           \/ phase = "chunk_line" /\ phase' = "chunk_line_end"

(* After an error the reader reports it until it is reset. *)
Error == /\ tok' \in ErrorCode \ {"error_insufficient_data"}
         /\ phase # "dead" /\ phase' = "dead"
         /\ phase = "closed" => tok' = "error_use_another_connection"
         /\ size' >= 0 /\ left' = 0

Reset == /\ tok' = "error_insufficient_data" /\ phase' = FirstPart
         /\ size' = 0 /\ left' = 0

Next == \/ Wait \/ Skip \/ Error
        \/ StartLineToken \/ FieldToken \/ EndOfHeaders
        \/ BodyChunk \/ ChunkLine \/ EndOfBody \/ EndOfMessage
        \/ Reset

Spec == Init /\ [][Next]_vars
=============================================================================
