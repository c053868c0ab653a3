--------------------------- MODULE UpgradeClient ----------------------------
(***************************************************************************)
(* A WebSocket client that waits for the response to its upgrade request:  *)
(* WebSocketHttpClient::execute() of the Tufao project (doc/tufao2.cpp).   *)
(* Its owner appends what the socket has to chunk and calls execute(),     *)
(* until it returns true or fails; what is then in chunk are the first     *)
(* bytes of the new protocol.                                              *)
(***************************************************************************)
EXTENDS ResponseReader

CONSTANTS
    GET,         \* the method of the upgrade request
    Upgrade,     \* the field name "Upgrade"
    Streams,     \* what a server may send: a head, and bytes that follow it;
                 \* ok says that the head agrees to the upgrade
    MaxPiece     \* the most bytes one read of the socket returns

ASSUME ClientAssumption ==
    /\ Streams \subseteq [head : Seq(Byte), tail : Seq(Byte), ok : BOOLEAN]
    /\ MaxPiece \in Nat \ {0}
    /\ GET \notin {HEAD, CONNECT}

VARIABLES
    stream,      \* what the server sends
    received,    \* how many bytes of it have been read from the socket
    chunk,       \* the owner's buffer
    pc,          \* where execute() is: "idle", "switch" or "next"
    errored, ready,
    lastHeader,  \* the last field name
    headers,     \* the field names that have a value
    upgraded     \* what the last call of execute() returned

client == <<errored, ready, lastHeader, headers>>
vars == <<reader, stream, received, chunk, pc, client, upgraded>>

Bytes == stream.head \o stream.tail

Init == /\ ReaderInit
        /\ body_size = UintMax                        \* some garbage
        /\ stream \in Streams
        /\ received = 0 /\ chunk = <<>> /\ pc = "idle"
        /\ errored = FALSE /\ ready = FALSE
        /\ lastHeader = <<>> /\ headers = {}
        /\ upgraded = FALSE

(* The socket has bytes; execute() is called. *)
Execute ==
    /\ pc = "idle" /\ ~errored /\ ~upgraded
    /\ \E k \in 1..(Len(Bytes) - received) :
         /\ k <= MaxPiece
         /\ received' = received + k
         /\ chunk' = chunk \o View(Bytes, received, received + k)
         /\ set_buffer(chunk')
    /\ pc' = "switch"
    /\ UNCHANGED <<stream, client, upgraded>>

-----------------------------------------------------------------------------
(* The switch on symbol(). *)

(* The tokens that make execute() fail. *)
Refused == \/ symbol(code_) = "error" /\ code_ # INSUFFICIENT
           \/ code_ = "version" /\ TokenBytes = <<48>>
           \/ code_ = "status_code" /\ status_code_decode(TokenBytes) # 101

Refuse == /\ Refused
          /\ errored' = TRUE /\ pc' = "idle"
          /\ UNCHANGED <<reader, stream, received, chunk, ready, lastHeader, headers,
                         upgraded>>

StatusCode == /\ code_ = "status_code" /\ ~Refused
              /\ set_method(GET)
              /\ pc' = "next"
              /\ UNCHANGED <<stream, received, chunk, client, upgraded>>

FieldNameToken ==
    /\ code_ = "field_name"
    /\ lastHeader' = TokenBytes
    /\ pc' = "next"
    /\ UNCHANGED <<reader, stream, received, chunk, errored, ready, headers, upgraded>>

(* Mutant: the name is cleared before it is used.                          *)
FieldValueTokenLate ==
    /\ code_ = "field_value"
    /\ headers' = headers \cup {<<>>}
    /\ lastHeader' = <<>>
    /\ pc' = "next"
    /\ UNCHANGED <<reader, stream, received, chunk, errored, ready, upgraded>>

FieldValueToken ==
    /\ code_ = "field_value"
    /\ headers' = headers \cup {lastHeader}
    /\ lastHeader' = <<>>
    /\ pc' = "next"
    /\ UNCHANGED <<reader, stream, received, chunk, errored, ready, upgraded>>

(* Mutant: the reader keeps the bytes that follow the message.             *)
EndOfMessageTokenKeeps ==
    /\ code_ = "end_of_message"
    /\ ready' = TRUE
    /\ pc' = "next"
    /\ UNCHANGED <<reader, stream, received, chunk, errored, lastHeader, headers, upgraded>>

(* The reader is left with the token alone, so that it reads no further. *)
EndOfMessageToken ==
    /\ code_ = "end_of_message"
    /\ ready' = TRUE
    /\ chunk' = View(chunk, idx, Len(chunk))
    /\ set_buffer(View(chunk', 0, token_size_))
    /\ pc' = "next"
    /\ UNCHANGED <<stream, received, errored, lastHeader, headers, upgraded>>

OtherToken ==
    /\ symbol(code_) \notin {"error", "status_code", "field_name", "field_value",
                             "end_of_message"}
    /\ ~Refused
    /\ pc' = "next"
    /\ UNCHANGED <<reader, stream, received, chunk, client, upgraded>>

Switch == /\ pc = "switch"
          /\ \/ Refuse \/ StatusCode \/ FieldNameToken \/ FieldValueToken
             \/ EndOfMessageToken \/ OtherToken

NextToken == /\ pc = "next"
             /\ next
             /\ pc' = "switch"
             /\ UNCHANGED <<stream, received, chunk, client, upgraded>>

(* The reader needs more data: execute() returns. *)
Return == /\ pc = "switch" /\ code_ = INSUFFICIENT
          /\ chunk' = View(chunk, idx, Len(chunk))
          /\ upgraded' = (ready /\ \E name \in headers : iequals(name, Upgrade))
          /\ pc' = "idle"
          /\ UNCHANGED <<reader, stream, received, client>>

Next == \/ Execute \/ Switch \/ NextToken \/ Return
        \/ /\ pc = "idle" /\ (errored \/ upgraded \/ received = Len(Bytes))
           /\ UNCHANGED vars

(* The server sends all its bytes and the owner calls execute() for them. *)
Spec == Init /\ [][Next]_vars /\ WF_vars(Execute \/ Switch \/ NextToken \/ Return)

-----------------------------------------------------------------------------
(* However the socket cuts the stream, execute() returns true only for a    *)
(* head that agrees to the upgrade, and then chunk holds the bytes behind  *)
(* that head, all that arrived and none of the head, although the reader   *)
(* was given them too; and it fails only when the head does not agree.     *)
UpgradeKeepsTheRest ==
    /\ upgraded => stream.ok /\ chunk = View(Bytes, Len(stream.head), received)
    /\ errored => ~stream.ok

(* A head that agrees to the upgrade ends in it, without waiting for a     *)
(* byte that follows the head.                                             *)
UpgradeHappens == stream.ok => <>upgraded
=============================================================================
