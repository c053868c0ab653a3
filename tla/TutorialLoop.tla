---------------------------- MODULE TutorialLoop ----------------------------
(***************************************************************************)
(* The server of the beginner's tutorial in its last form: on_socket_      *)
(* callback() of doc/parsing_tutorial1h.cpp, with the error cases of       *)
(* parsing_tutorial1e.cpp that the "// ..." of the later versions stands   *)
(* for.  Unlike the loop of doc/tufao.cpp it counts the parsed bytes with  *)
(* token_size(), and stops at the end of a message to call ready().        *)
(***************************************************************************)
EXTENDS RequestReader

CONSTANTS
    Streams,     \* sequences of messages that a client may send: bytes, and
                 \* the data that ready() should find
    AnyCut       \* whether a callback may end anywhere; otherwise it ends with
                 \* a line or with the stream

ASSUME TutorialAssumption == AnyCut \in BOOLEAN

VARIABLES
    stream,      \* what the client sends
    received,    \* how many bytes of it have been passed to the callback
    buffer,      \* my_socket_consumer::buffer
    nparsed,
    pc,          \* "idle", "loop", "ready" or, after a throw, "thrown"
    data,        \* the public variables: method, request_target, version,
                 \* headers and trailers
    last_header, use_trailers,
    ended,       \* how many messages have ended
    reported     \* the calls of ready(): the messages that had ended and data

consumer == <<data, last_header, use_trailers>>
vars == <<reader, stream, received, buffer, nparsed, pc, consumer, ended, reported>>

Bytes == FlattenSeq([k \in 1..Len(stream) |-> stream[k].bytes])

Nothing == [method |-> <<>>, request_target |-> <<>>, version |-> <<>>,
            headers |-> {}, trailers |-> {}]

Init == /\ ReaderInit
        /\ version = "HTTP_1_0" /\ body_size = UintMax    \* some garbage
        /\ stream \in Streams
        /\ received = 0 /\ buffer = <<>> /\ nparsed = 0 /\ pc = "idle"
        /\ data = Nothing /\ last_header = <<>> /\ use_trailers = FALSE
        /\ ended = 0 /\ reported = <<>>

(* The socket has bytes: they are appended, and the loop starts. *)
Callback ==
    /\ pc = "idle"
    /\ \E k \in 1..(Len(Bytes) - received) :
         /\ AnyCut \/ received + k = Len(Bytes) \/ Bytes[received + k] = LF
         /\ received' = received + k
         /\ buffer' = buffer \o View(Bytes, received, received + k)
         /\ set_buffer(buffer')
    /\ nparsed' = 0 /\ pc' = "loop"
    /\ UNCHANGED <<stream, consumer, ended, reported>>

LoopEnds == code_ \in {INSUFFICIENT, "end_of_message"}

Throw == /\ pc = "loop" /\ ~LoopEnds /\ symbol(code_) = "error"
         /\ pc' = "thrown"
         /\ UNCHANGED <<reader, stream, received, buffer, nparsed, consumer, ended, reported>>

(* Mutant: the variables of the last message are kept.                     *)
HandleTokenKeeps(code, bytes) ==
    CASE code = "method" ->
           /\ data' = [data EXCEPT !.method = bytes]
           /\ UNCHANGED <<last_header, use_trailers>>
      [] code \in {"request_target", "version"} ->
           data' = [data EXCEPT ![code] = bytes] /\ UNCHANGED <<last_header, use_trailers>>
      [] code \in {"field_name", "trailer_name"} ->
           last_header' = bytes /\ UNCHANGED <<data, use_trailers>>
      [] code \in {"field_value", "trailer_value"} ->
           /\ data' = [data EXCEPT ![IF use_trailers THEN "trailers" ELSE "headers"] =
                          @ \cup {<<last_header, decode_field_value(bytes)>>}]
           /\ UNCHANGED <<last_header, use_trailers>>
      [] code = "end_of_headers" ->
           use_trailers' = TRUE /\ UNCHANGED <<data, last_header>>
      [] OTHER -> UNCHANGED consumer

(* The switch of the loop. *)
HandleToken(code, bytes) ==
    CASE code = "method" ->
           /\ data' = [data EXCEPT !.method = bytes, !.headers = {}, !.trailers = {}]
           /\ use_trailers' = FALSE
           /\ UNCHANGED last_header
      [] code \in {"request_target", "version"} ->
           data' = [data EXCEPT ![code] = bytes] /\ UNCHANGED <<last_header, use_trailers>>
      [] code \in {"field_name", "trailer_name"} ->
           last_header' = bytes /\ UNCHANGED <<data, use_trailers>>
      [] code \in {"field_value", "trailer_value"} ->
           /\ data' = [data EXCEPT ![IF use_trailers THEN "trailers" ELSE "headers"] =
                          @ \cup {<<last_header, decode_field_value(bytes)>>}]
           /\ UNCHANGED <<last_header, use_trailers>>
      [] code = "end_of_headers" ->
           use_trailers' = TRUE /\ UNCHANGED <<data, last_header>>
      [] OTHER -> UNCHANGED consumer

TakeToken ==
    /\ pc = "loop" /\ ~LoopEnds /\ symbol(code_) # "error"
    /\ HandleToken(code_, TokenBytes)
    /\ nparsed' = nparsed + token_size_
    /\ next
    /\ UNCHANGED <<stream, received, buffer, pc, ended, reported>>

(* Behind the loop: the last token is counted and passed, and the parsed   *)
(* bytes are erased.                                                       *)
AfterLoop ==
    /\ pc = "loop" /\ LoopEnds
    /\ nparsed' = nparsed + token_size_
    /\ next
    /\ buffer' = View(buffer, nparsed', Len(buffer))
    /\ ended' = IF code_ = "end_of_message" THEN ended + 1 ELSE ended
    /\ pc' = IF code_' = INSUFFICIENT THEN "idle" ELSE "ready"
    /\ UNCHANGED <<stream, received, consumer, reported>>

(* ready(), and the callback calls itself for the rest of the buffer. *)
Ready ==
    /\ pc = "ready"
    /\ reported' = Append(reported, [index |-> ended, data |-> data])
    /\ IF buffer = <<>> THEN pc' = "idle" /\ UNCHANGED <<reader, nparsed>>
       ELSE pc' = "loop" /\ nparsed' = 0 /\ set_buffer(buffer)
    /\ UNCHANGED <<stream, received, buffer, consumer, ended>>

Next == \/ Callback \/ Throw \/ TakeToken \/ AfterLoop \/ Ready
        \/ /\ pc = "thrown" \/ (pc = "idle" /\ received = Len(Bytes))
           /\ UNCHANGED vars

Spec == Init /\ [][Next]_vars

-----------------------------------------------------------------------------
(* "Once the `ready` member function is called, the data for your request  *)
(* will be available" (doc/parsing_tutorial1.adoc:29): ready() is called   *)
(* right behind the end of a message, and finds the variables of that one, *)
(* with its own headers and trailers, although the first token of the next *)
(* message may already have been read.  A callback that ends inside a      *)
(* message returns without it, and a report that was left out              *)
(* (EveryMessageIsReported) is not made up for by a later callback.        *)
ReadyGetsThisMessage ==
    [][ /\ pc # "ready" /\ pc' = "ready" => ended' = ended + 1
        /\ reported' # reported => data = stream[ended].data ]_vars

(* Between two callbacks the buffer starts with the bytes that the reader  *)
(* has not read, as set_buffer() demands (reader/request.hpp).  The        *)
(* tutorial says that buffer management is complete                        *)
(* (doc/parsing_tutorial1.adoc:110) and that the size of an insufficient   *)
(* token may be added to nparsed (line 98).                                *)
UnreadIsKept == pc = "idle" => buffer = Unread

(* "Once the `ready` member function is called ..." and "The _out_ of your *)
(* program is connected to the previous piece of code through the `ready`  *)
(* overrideable member-function" (doc/parsing_tutorial1.adoc:21): between  *)
(* two callbacks each message that has ended has been reported.            *)
EveryMessageIsReported == pc = "idle" => ended = Len(reported)
=============================================================================
