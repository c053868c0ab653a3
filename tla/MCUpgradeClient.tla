-------------------------- MODULE MCUpgradeClient ---------------------------
(***************************************************************************)
(* The upgrade client with the literals of the code, on a corpus of        *)
(* answers to an upgrade request.                                          *)
(***************************************************************************)
EXTENDS UpgradeClient, Ascii

Agreeing == {
    <<"HTTP/1.1 101 S", "Upgrade: websocket", "">>,
    <<"HTTP/1.1 101 ", "upgrade:w", "Content-Length: z", "X:", "">>,
    <<"HTTP/1.1 101 S", "Transfer-Encoding: chunked", "UPGRADE: w", "">> }

Refusing == {
    <<"HTTP/1.1 101 S", "Connection: upgrade", "">>,
    <<"HTTP/1.0 101 S", "Upgrade: websocket", "">>,
    <<"HTTP/1.1 200 OK", "Upgrade: websocket", "">>,
    <<"HTTP/1.1 100 C", "">>,
    <<"HTTP/1.1 101 S", "Upgrade websocket", "">> }

(* Bytes of the new protocol, some of which look like HTTP. *)
Tails == {<<>>, <<129, 0>>, <<CR, LF>>, Ascii("HTTP/1.1 200 OK") \o CRLF, Ascii("HT")}

Answers == {[head |-> Lines(h, end), tail |-> t, ok |-> h \in Agreeing] :
               h \in Agreeing \cup Refusing, t \in Tails, end \in {CRLF, <<LF>>}}
=============================================================================
