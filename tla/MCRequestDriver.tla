-------------------------- MODULE MCRequestDriver ---------------------------
(***************************************************************************)
(* The driver with the literals of the code, on a corpus of requests.      *)
(***************************************************************************)
EXTENDS RequestDriver, Ascii

(* Header sections that lead to every framing and refusal. *)
Heads == {
    <<"GET /?a HTTP/1.1", "Host: x">>,
    <<"P / HTTP/1.0", "X:", "y:  a b ">>,
    <<"P / HTTP/1.1", "host:x", "CONTENT-length:  03 ">>,
    <<"P / HTTP/1.0", "Content-Length: 0">>,
    <<"P / HTTP/1.0", "Content-Length: 3", "Transfer-Encoding: a ,, Chunked">>,
    <<"P / HTTP/1.0", "Transfer-Encoding: a", "transfer-encoding: chunked">>,
    <<"P / HTTP/1.0", "Transfer-Encoding: chunked", "Content-Length: z">>,
    <<"P / HTTP/1.0", "Transfer-Encoding: chunked, a">>,
    <<"P / HTTP/1.0", "Transfer-Encoding: chunked", "Transfer-Encoding: a">>,
    <<"P / HTTP/1.0", "Transfer-Encoding: a">>,
    <<"P / HTTP/1.0", "Content-Length: 1", "Content-Length: 1">>,
    <<"P / HTTP/1.0", "Content-Length: 300">>,
    <<"P / HTTP/1.0", "Content-Length: 1 1">>,
    <<"P / HTTP/1.1", "Host: x", "Host: x">>,
    <<"P / HTTP/1.1">>,
    <<"P  HTTP/1.1">>,
    <<"P / HTTP/2.0">> }

(* Bodies, some of them followed by another request or cut short. *)
Bodies == {
    <<>>,
    Ascii("abc"),
    Ascii("abcP / HTTP/1.0") \o CRLF \o CRLF,
    Lines(<<"3", "abc", "1;e=v w", "d", "00", "T: v ", "u:">>, CRLF) \o CRLF,
    Lines(<<"0">>, CRLF) \o CRLF \o Lines(<<"P / HTTP/1.0", "">>, <<LF>>),
    Lines(<<"2", "abc">>, CRLF),
    Lines(<<"1", "a", "0">>, <<LF>>),
    Lines(<<"1ff">>, CRLF) }

Corpus == {Lines(h, end) \o end \o b : h \in Heads, b \in Bodies, end \in {CRLF, <<LF>>}}
=============================================================================
