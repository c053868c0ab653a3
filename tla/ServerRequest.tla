--------------------------- MODULE ServerRequest ----------------------------
(***************************************************************************)
(* The request object of the Tufao server, HttpServerRequest::onReadyRead() *)
(* of doc/tufao.cpp: it collects what the tokens tell of a request and,    *)
(* when the reader has no more to say, signals ready(), data(), end() or   *)
(* upgrade() to the application.  The same object serves one request after *)
(* another of a connection.                                                *)
(***************************************************************************)
EXTENDS RequestReader

CONSTANTS
    Connection, CloseOption, KeepAlive, UpgradeOption,  \* "connection", "close", ...
    Streams,     \* what a client may send: bytes, and the requests in them
    Pieces       \* the numbers of bytes that may be waiting in the socket

(* A request as the client means it: the parts that the application should *)
(* see, whether it is whole, and where in the stream its head ends.        *)
Sent == [method : Seq(Byte), url : Seq(Byte), httpVersion : {"HTTP_1_0", "HTTP_1_1"},
         headers : Seq(Seq(Byte) \X Seq(Byte)), trailers : Seq(Seq(Byte) \X Seq(Byte)),
         body : Seq(Byte), whole : BOOLEAN, head : Nat]

ASSUME ServerAssumption ==
    /\ Streams \subseteq [bytes : Seq(Byte), requests : Seq(Sent)]
    /\ Pieces \subseteq Nat \ {0}

VARIABLES
    stream,      \* what the client sends
    received,    \* how many bytes of it have been read from the socket
    buffer,      \* the bytes not yet parsed
    pc,          \* where onReadyRead() is: "idle", "loop" or "next"
    request,     \* method, url, httpVersion, headers, trailers, lastHeader, body
    responseOptions,
    whatEmit,    \* the signals to emit after the loop
    is_upgrade,
    connected,   \* readyRead() is connected to onReadyRead()
    timing,      \* the timer is running and connected
    open,        \* the socket is open
    emitted      \* the signals emitted on this connection

socket == <<stream, received, open>>
call == <<whatEmit, is_upgrade>>
vars == <<reader, socket, buffer, pc, request, responseOptions, call, connected, timing,
          emitted>>

LastSignal == IF emitted = <<>> THEN "none" ELSE emitted[Len(emitted)]

(* What clearRequest() leaves in the request. *)
Cleared == [method |-> <<>>, url |-> <<>>, httpVersion |-> "HTTP_1_1", headers |-> <<>>,
            trailers |-> <<>>, lastHeader |-> <<>>, body |-> <<>>]

Init == /\ ReaderInit
        /\ version = "NOT_HTTP_1_0_AND_HOST_READ" /\ body_size = UintMax  \* some garbage
        /\ stream \in Streams
        /\ received = 0 /\ buffer = <<>> /\ pc = "idle"
        /\ request = Cleared /\ responseOptions = {}
        /\ whatEmit = {} /\ is_upgrade = FALSE
        /\ connected = TRUE /\ timing = FALSE /\ open = TRUE
        /\ emitted = <<>>

-----------------------------------------------------------------------------
(* The numbers of bytes that a read of the socket may return. *)
Waiting == {Min({k, Len(stream.bytes) - received}) : k \in Pieces} \ {0}

(* onReadyRead() begins, with k new bytes. *)
OnReadyRead(k) ==
    /\ pc = "idle" /\ open
    /\ timing' = TRUE
    /\ received' = received + k
    /\ \E data \in {buffer \o View(stream.bytes, received, received + k)} :
         buffer' = data /\ set_buffer(data)
    /\ whatEmit' = {} /\ is_upgrade' = FALSE
    /\ pc' = "loop"
    /\ connected' = TRUE
    /\ UNCHANGED <<stream, open, request, responseOptions, emitted>>

ReadyRead == /\ connected
             /\ \E k \in Waiting : OnReadyRead(k)

(* The server has answered a request and turns to the next one, of which   *)
(* the buffer may already hold some bytes.                                 *)
Resume == /\ ~connected
          /\ LastSignal = "end"
          /\ "KEEP_ALIVE" \in responseOptions
          /\ \E k \in Waiting \cup {0} : OnReadyRead(k)

(* The client is too slow: the server gives up. *)
OnTimeout == /\ pc = "idle" /\ timing /\ open
             /\ open' = FALSE
             /\ UNCHANGED <<reader, stream, received, buffer, pc, request,
                            responseOptions, call, connected, timing, emitted>>

-----------------------------------------------------------------------------
(* The switch on symbol(). *)

ErrorToken == /\ symbol(code_) = "error" /\ code_ # INSUFFICIENT
              /\ open' = FALSE /\ pc' = "idle"
              /\ UNCHANGED <<reader, stream, received, buffer, request, responseOptions,
                             call, connected, timing, emitted>>

(* The cases that only store what the token tells. *)
Store(code, r, options) ==
    /\ code_ = code
    /\ request' = r /\ responseOptions' = options
    /\ pc' = "next"
    /\ UNCHANGED <<reader, socket, buffer, call, connected, timing, emitted>>

(* Mutant: the options of the answer are those of the last request too.    *)
MethodTokenKeeps ==
    Store("method", [Cleared EXCEPT !.method = TokenBytes], responseOptions)

MethodToken == Store("method", [Cleared EXCEPT !.method = TokenBytes], {})

RequestTargetToken ==
    Store("request_target", [request EXCEPT !.url = TokenBytes], responseOptions)

VersionToken ==
    \E v \in {IF TokenBytes = <<48>> THEN "HTTP_1_0" ELSE "HTTP_1_1"} :
       Store("version", [request EXCEPT !.httpVersion = v], responseOptions \cup {v})

NameToken ==
    \E code \in {"field_name", "trailer_name"} :
       Store(code, [request EXCEPT !.lastHeader = TokenBytes], responseOptions)

Field == <<request.lastHeader, decode_field_value(TokenBytes)>>

FieldValueToken ==
    Store("field_value",
          [request EXCEPT !.headers = Append(@, Field), !.lastHeader = <<>>],
          responseOptions)

TrailerValueToken ==
    Store("trailer_value",
          [request EXCEPT !.trailers = Append(@, Field), !.lastHeader = <<>>],
          responseOptions)

(* A header field has a list element equal to the option. *)
Says(field, option) == \E v \in ToSet(ListElements(field[2])) : iequals(v, option)

Saying(option) == {f \in DOMAIN request.headers : Says(request.headers[f], option)}

(* headers.find("connection") and the loop from there to headers.end():    *)
(* the fields it may look at, in whatever order the container has them.    *)
(* Those named Connection come first, others may follow, and the loop      *)
(* breaks after a field that says close.                                   *)
LookedAt(close) ==
    LET fields == DOMAIN request.headers
        named  == {f \in fields : iequals(request.headers[f][1], Connection)}
    IN  {looked \in SUBSET fields :
           /\ named = {} => looked = {}
           /\ looked \cap close = {} => named \subseteq looked
           /\ \A f \in looked \cap close : looked \cap close = {f}
           /\ looked \subseteq named \/ named \subseteq looked}

EndOfHeadersToken ==
    /\ code_ = "end_of_headers"
    /\ \E close \in {Saying(CloseOption)}, keepAlive \in {Saying(KeepAlive)},
          upgrade \in {Saying(UpgradeOption)} :
         \E looked \in LookedAt(close) :
            /\ is_upgrade' = (is_upgrade \/ looked \cap upgrade # {})
            /\ responseOptions' =
                 IF /\ looked \cap close = {}
                    /\ request.httpVersion = "HTTP_1_1" \/ looked \cap keepAlive # {}
                 THEN responseOptions \cup {"KEEP_ALIVE"} ELSE responseOptions
    /\ whatEmit' = {"ready"}
    /\ pc' = "next"
    /\ UNCHANGED <<reader, socket, buffer, request, connected, timing, emitted>>

BodyChunkToken ==
    /\ code_ = "body_chunk"
    /\ request' = [request EXCEPT !.body = @ \o TokenBytes]
    /\ whatEmit' = whatEmit \cup {"data"}
    /\ pc' = "next"
    /\ UNCHANGED <<reader, socket, buffer, responseOptions, is_upgrade, connected, timing,
                   emitted>>

(* Mutant: the reader keeps the bytes of the next request.                 *)
EndOfMessageTokenKeeps ==
    /\ code_ = "end_of_message"
    /\ whatEmit' = whatEmit \cup {"end"}
    /\ connected' = FALSE
    /\ pc' = "next"
    /\ UNCHANGED <<reader, socket, buffer, request, responseOptions, is_upgrade, timing,
                   emitted>>

(* The reader is left with the token alone, so that it reads no further. *)
EndOfMessageToken ==
    /\ code_ = "end_of_message"
    /\ buffer' = View(buffer, idx, Len(buffer))
    /\ set_buffer(TokenBytes)
    /\ whatEmit' = whatEmit \cup {"end"}
    /\ connected' = FALSE
    /\ pc' = "next"
    /\ UNCHANGED <<socket, request, responseOptions, is_upgrade, timing, emitted>>

OtherToken == \E code \in {"skip", "end_of_body", "chunk_ext"} :
                 Store(code, request, responseOptions)

Switch == /\ pc = "loop"
          /\ \/ ErrorToken \/ MethodToken \/ RequestTargetToken \/ VersionToken
             \/ NameToken \/ FieldValueToken \/ TrailerValueToken \/ EndOfHeadersToken
             \/ BodyChunkToken \/ EndOfMessageToken \/ OtherToken

NextToken == /\ pc = "next"
             /\ next
             /\ pc' = "loop"
             /\ UNCHANGED <<socket, buffer, request, responseOptions, call, connected,
                            timing, emitted>>

-----------------------------------------------------------------------------
(* The reader needs more data: the loop ends, and what it found is told.   *)

(* Mutant: the application gets what is left before the buffer is updated. *)
EmitUpgradeEarly ==
    /\ is_upgrade
    /\ connected' = FALSE /\ timing' = FALSE
    /\ request' = [request EXCEPT !.body = buffer]
    /\ buffer' = request.body
    /\ emitted' = Append(emitted, "upgrade")

EmitUpgrade ==
    /\ is_upgrade
    /\ connected' = FALSE /\ timing' = FALSE
    /\ request' = [request EXCEPT !.body = View(buffer, idx, Len(buffer))]
    /\ buffer' = request.body
    /\ emitted' = Append(emitted, "upgrade")

EmitSignals ==
    /\ ~is_upgrade
    /\ emitted' = emitted \o SelectSeq(<<"ready", "data", "end">>,
                                       LAMBDA signal : signal \in whatEmit)
    /\ buffer' = View(buffer, idx, Len(buffer))
    /\ UNCHANGED <<request, connected, timing>>

AfterLoop == /\ pc = "loop" /\ code_ = INSUFFICIENT
             /\ EmitUpgrade \/ EmitSignals
             /\ pc' = "idle"
             /\ UNCHANGED <<reader, socket, responseOptions, call>>

Next == \/ ReadyRead \/ Resume \/ OnTimeout \/ Switch \/ NextToken \/ AfterLoop
        \/ pc = "idle" /\ (~open \/ ~timing) /\ UNCHANGED vars

(* The client sends its whole stream, the server answers, the loop runs. *)
Spec == /\ Init /\ [][Next]_vars
        /\ WF_vars(ReadyRead \/ Resume \/ Switch \/ NextToken \/ AfterLoop)

-----------------------------------------------------------------------------
(* How many requests the application has seen to their end, or the upgrade. *)
Told == Cardinality({k \in DOMAIN emitted : emitted[k] \in {"end", "upgrade"}})

(* The request that the last signal is about. *)
Current == stream.requests[IF LastSignal \in {"end", "upgrade"} THEN Told ELSE Told + 1]

(* The application is looking at that request. *)
Looking == /\ pc = "idle"
           /\ \/ LastSignal \in {"ready", "data"}
              \/ LastSignal \in {"end", "upgrade"} /\ ~connected

Named(r) == {f \in DOMAIN r.headers : iequals(r.headers[f][1], Connection)}
Option(r, fields, option) == \E f \in fields : Says(r.headers[f], option)

(* However the socket cuts the stream, each request gets one ready(), then *)
(* data(), then one end(); at each of them the object holds the head of    *)
(* that request and no field of another, the bytes of the body that came,  *)
(* and at end() all of them and the trailers.                              *)
SignalsTellTheRequest ==
    /\ \A k \in DOMAIN emitted :
         LET before == IF k = 1 THEN "none" ELSE emitted[k - 1] IN
         IF emitted[k] \in {"ready", "upgrade"} THEN before \in {"none", "end"}
                                               ELSE before \in {"ready", "data"}
    /\ Looking =>
         /\ request.method = Current.method /\ request.url = Current.url
         /\ request.httpVersion = Current.httpVersion
         /\ request.headers = Current.headers
         /\ LastSignal \in {"ready", "data"} =>
              request.body = View(Current.body, 0, Len(request.body))
         /\ LastSignal = "end" => /\ Current.whole
                            /\ request.body = Current.body
                            /\ request.trailers = Current.trailers

(* The answer leaves the connection open only if the request does not ask  *)
(* for its end in any Connection field, and always if it is HTTP/1.1 and   *)
(* no field says close: the options of one request are not those of the    *)
(* request before it.                                                      *)
ConnectionIsKept ==
    Looking =>
      /\ Option(Current, Named(Current), CloseOption) => "KEEP_ALIVE" \notin responseOptions
      /\ /\ Current.httpVersion = "HTTP_1_1"
         /\ ~Option(Current, DOMAIN Current.headers, CloseOption)
         => "KEEP_ALIVE" \in responseOptions

(* At upgrade() the connection belongs to the application: the timer does  *)
(* not close it, and body holds the bytes that follow the request, all     *)
(* that arrived and no others.  (Of an upgrade request with a body, what   *)
(* was read of the body is swapped away.)                                  *)
UpgradeHasTheRest ==
    Looking /\ LastSignal = "upgrade" =>
      /\ open
      /\ Option(Current, DOMAIN Current.headers, UpgradeOption)
      /\ \E from \in Current.head..received :
           /\ request.body = View(stream.bytes, from, received)
           /\ Current.body = <<>> => from = Current.head

(* The requests of a stream that have to be told: up to the first one that *)
(* ends the connection or may change its protocol.                         *)
Due == [s \in Streams |-> Cardinality({n \in DOMAIN s.requests :
         /\ s.requests[n].whole
         /\ \A m \in 1..(n - 1) :
              LET r == s.requests[m] IN
              /\ r.whole
              /\ r.httpVersion = "HTTP_1_1"
              /\ ~Option(r, DOMAIN r.headers, CloseOption)
              /\ ~Option(r, DOMAIN r.headers, UpgradeOption)})]

(* Every request that arrives whole gets its end() or upgrade(), also when *)
(* it was in the buffer before its turn came, unless the timer closes the  *)
(* connection first.                                                       *)
RequestsAreTold == <>(Told >= Due[stream] \/ (~open /\ state # "ERRORED"))
=============================================================================
