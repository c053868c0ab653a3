--------------------------- MODULE RequestDriver ----------------------------
(***************************************************************************)
(* The loop around a request reader that the documentation takes from the  *)
(* Tufao project (doc/tufao.cpp): each time the socket has bytes, the      *)
(* unread ones are presented again followed by the new ones, and tokens    *)
(* are taken until the reader has too little data or fails.  At the end of *)
(* a message the buffer is cut down to the current token, so that the next *)
(* request stays in the buffer until its turn comes.                       *)
(*                                                                         *)
(* The same stream is read twice by the same reader object: first from one *)
(* large buffer, then, after reset(), in pieces of any sizes.              *)
(***************************************************************************)
EXTENDS RequestReader, TokenLog

CONSTANTS
    Streams,     \* the byte streams a client may send
    MaxPiece     \* the most bytes one read of the socket returns

ASSUME DriverAssumption == Streams \subseteq Seq(Byte) /\ MaxPiece \in Nat \ {0}

VARIABLES
    stream,      \* what the client sends
    base,        \* offset in stream of the first byte of ibuffer
    received,    \* how many bytes of stream have been read from the socket
    log,         \* the tokens seen: code, first and last offset in stream
    pass,        \* "whole", "pieces" or "done"
    whole        \* the log of the first pass

driver == <<reader, stream, base, received, log, pass, whole>>

DriverInit ==
    /\ ReaderInit
    /\ version = "NOT_HTTP_1_0_AND_HOST_READ"     \* some garbage
    /\ body_size = UintMax
    /\ stream \in Streams
    /\ base = 0 /\ received = 0 /\ log = <<>>
    /\ pass = "whole" /\ whole = <<>>

RecordToken == log' = Record(log, code_', base' + idx', base' + idx' + token_size_')

(* onReadyRead: bytes are added to the unread ones. *)
ReadyRead ==
    /\ code_ = INSUFFICIENT
    /\ \E k \in 0..(Len(stream) - received) :
         /\ pass = "whole" => k = Len(stream) - received
         /\ pass = "pieces" => k <= MaxPiece
         /\ received + k > base + Len(ibuffer)
         /\ received' = received + k
         /\ \E buffer \in {View(stream, base + idx, received + k)} : set_buffer(buffer)
         /\ base' = base + idx
         /\ RecordToken
    /\ UNCHANGED <<stream, pass, whole>>

(* The end of a message: the buffer is cut down to the token. *)
CutAtEndOfMessage ==
    /\ code_ = "end_of_message"
    /\ ibuffer # TokenBytes
    /\ set_buffer(TokenBytes)
    /\ base' = base + idx
    /\ UNCHANGED <<stream, received, log, pass, whole>>

TakeToken ==
    /\ symbol(code_) # "error"
    /\ code_ = "end_of_message" => ibuffer = TokenBytes
    /\ next
    /\ base' = base
    /\ RecordToken
    /\ UNCHANGED <<stream, received, pass, whole>>

(* The reader failed, or all bytes have been offered to it. *)
Finished == \/ state = "ERRORED"
            \/ code_ = INSUFFICIENT /\ base + Len(ibuffer) = Len(stream)

SecondPass ==
    /\ pass = "whole" /\ Finished
    /\ reset
    /\ base' = 0 /\ received' = 0 /\ log' = <<>>
    /\ pass' = "pieces" /\ whole' = log
    /\ UNCHANGED stream

Done == /\ pass = "pieces" /\ Finished
        /\ pass' = "done"
        /\ UNCHANGED <<reader, stream, base, received, log, whole>>

Loop == pass # "done" /\ (ReadyRead \/ CutAtEndOfMessage \/ TakeToken)

DriverNext == Loop \/ SecondPass \/ Done \/ (pass = "done" /\ UNCHANGED driver)

(* The loop of the driver runs as long as there is something to do, and    *)
(* the client sends its whole stream.                                      *)
DriverSpec == DriverInit /\ [][DriverNext]_driver /\ WF_driver(Loop \/ SecondPass \/ Done)

-----------------------------------------------------------------------------
(* "The strucutral and data tokens will always be emitted the same"        *)
(* (doc/parsing_tutorial2.adoc:83): the pieces in which a stream arrives   *)
(* change neither the tokens, nor their bytes, nor the error it ends with. *)
PiecesDoNotMatter == pass # "whole" => Agrees(log, whole, pass = "done")

(* A reader never stalls the loop: every stream is read to its end, or to  *)
(* its first error, in both passes.                                        *)
StreamIsDrained == <>(pass = "done")
=============================================================================
