--------------------------- MODULE ResponseDriver ---------------------------
(***************************************************************************)
(* A client that reads the responses of a connection to the end of the     *)
(* connection, as test/response.cpp does: it answers the token status_code *)
(* with set_method(), presents the unread bytes again in front of the new  *)
(* ones, and calls puteof() and next() when the server has closed the      *)
(* connection and the reader wants more.                                   *)
(*                                                                         *)
(* The same stream is read twice by the same reader object: first from one *)
(* large buffer, then, after reset(), in pieces of any sizes.              *)
(***************************************************************************)
EXTENDS ResponseReader, TokenLog

CONSTANTS
    Streams,     \* what a server may send until it closes the connection
    RequestMethods,  \* the methods of the requests that the client sends
    MaxPiece     \* the most bytes one read of the socket returns

ASSUME DriverAssumption == Streams \subseteq Seq(Byte) /\ MaxPiece \in Nat \ {0}

VARIABLES
    stream,      \* what the server sends
    method,      \* the method of the client's requests
    base,        \* offset in stream of the first byte of ibuffer
    received,    \* how many bytes of stream have been read from the socket
    asked,       \* whether next() has been called since puteof()
    log,         \* the tokens seen: code, first and last offset in stream
    pass,        \* "whole", "pieces" or "done"
    whole        \* the log of the first pass

driver == <<reader, stream, method, base, received, asked, log, pass, whole>>

DriverInit ==
    /\ ReaderInit
    /\ body_size = UintMax                        \* some garbage
    /\ stream \in Streams
    /\ method \in RequestMethods
    /\ base = 0 /\ received = 0 /\ asked = FALSE /\ log = <<>>
    /\ pass = "whole" /\ whole = <<>>

RecordToken == log' = Record(log, code_', base' + idx', base' + idx' + token_size_')

(* Bytes have arrived, and are added to the unread ones. *)
ReadSome ==
    /\ code_ = INSUFFICIENT
    /\ \E k \in 1..(Len(stream) - received) :
         /\ pass = "whole" => k = Len(stream)
         /\ pass = "pieces" => k <= MaxPiece
         /\ received' = received + k
         /\ \E buffer \in {View(stream, base + idx, received + k)} : set_buffer(buffer)
         /\ base' = base + idx
         /\ RecordToken
    /\ UNCHANGED <<stream, method, asked, pass, whole>>

(* The status code was read; body_type says whether it has been answered. *)
AnswerStatus ==
    /\ code_ = "status_code" /\ body_type = "UNKNOWN_BODY"
    /\ set_method(method)
    /\ UNCHANGED <<stream, method, base, received, asked, log, pass, whole>>

TakeToken ==
    /\ symbol(code_) # "error"
    /\ code_ = "status_code" => body_type # "UNKNOWN_BODY"
    /\ next
    /\ base' = base
    /\ RecordToken
    /\ UNCHANGED <<stream, method, received, asked, pass, whole>>

(* All bytes have been offered, and the reader asks for more. *)
Starved == code_ = INSUFFICIENT /\ received = Len(stream)

(* The connection was closed: puteof(), and the next token is asked for. *)
EndOfStream ==
    /\ Starved /\ ~Closed
    /\ puteof
    /\ UNCHANGED <<stream, method, base, received, asked, log, pass, whole>>

AskAgain ==
    /\ Starved /\ Closed /\ ~asked
    /\ next
    /\ asked' = TRUE /\ base' = base
    /\ RecordToken
    /\ UNCHANGED <<stream, method, received, pass, whole>>

(* The reader failed, or the end of the connection told it nothing. *)
Finished == state = "ERRORED" \/ (asked /\ code_ = INSUFFICIENT)

SecondPass ==
    /\ pass = "whole" /\ Finished
    /\ reset
    /\ base' = 0 /\ received' = 0 /\ asked' = FALSE /\ log' = <<>>
    /\ pass' = "pieces" /\ whole' = log
    /\ UNCHANGED <<stream, method>>

Done == /\ pass = "pieces" /\ Finished
        /\ pass' = "done"
        /\ UNCHANGED <<reader, stream, method, base, received, asked, log, whole>>

Loop == /\ pass # "done"
        /\ ReadSome \/ AnswerStatus \/ TakeToken \/ EndOfStream \/ AskAgain

DriverNext == Loop \/ SecondPass \/ Done \/ (pass = "done" /\ UNCHANGED driver)

(* The client goes on as long as there is something to do, and the server  *)
(* sends its whole stream.                                                 *)
DriverSpec == DriverInit /\ [][DriverNext]_driver /\ WF_driver(Loop \/ SecondPass \/ Done)

-----------------------------------------------------------------------------
(* "The strucutral and data tokens will always be emitted the same"        *)
(* (doc/parsing_tutorial2.adoc:83): the pieces in which a stream arrives   *)
(* change neither the tokens, nor their bytes, nor the error it ends with, *)
(* and a reader after reset() reads as a new one does, although it has     *)
(* seen the end of a connection and an HTTP/1.0 server.                    *)
PiecesDoNotMatter == pass # "whole" => Agrees(log, whole, pass = "done")

(* A connection that is closed between two messages is reported as one     *)
(* that cannot be used any more, in whatever pieces its last bytes came:    *)
(* a client that is still asked for more data after puteof() knows that    *)
(* the server stopped inside a message.                                    *)
CloseIsReported ==
    /\ pass = "done" /\ code_ = INSUFFICIENT
    /\ log = <<>> \/ Last(log).code = "end_of_message"
    => Unread # <<>>

(* A reader never stalls the client: every connection is read to its end,  *)
(* or to its first error, in both passes.                                  *)
StreamIsDrained == <>(pass = "done")
=============================================================================
