-------------------------- MODULE MCResponseDriver --------------------------
(***************************************************************************)
(* The client with the literals of the code, on a corpus of responses.     *)
(***************************************************************************)
EXTENDS ResponseDriver, ResponseTokens, Ascii

(* Header sections that lead to every framing and refusal. *)
Heads == {
    <<"HTTP/1.1 200 OK", "Server: a b ">>,
    <<"HTTP/1.1 200 ", "CONTENT-length:  03 ">>,
    <<"HTTP/1.0 200 OK", "Content-Length: 3">>,
    <<"HTTP/1.0 200 OK", "Transfer-Encoding: chunked">>,
    <<"HTTP/1.1 404 Not Found", "Content-Length: 0">>,
    <<"HTTP/1.1 204 No", "Content-Length: z">>,
    <<"HTTP/1.1 100 C">>,
    <<"HTTP/1.1 200 OK", "Content-Length: 3", "Transfer-Encoding: a ,, Chunked">>,
    <<"HTTP/1.1 200 OK", "Transfer-Encoding: a">>,
    <<"HTTP/1.1 200 OK", "Transfer-Encoding: chunked, a">>,
    <<"HTTP/1.1 200 OK", "Content-Length: 1", "Content-Length: 1">>,
    <<"HTTP/1.1 200 OK", "Content-Length: 300">>,
    <<"HTTP/1.1 099 OK">>,
    <<"HTTP/1.1 200">>,
    <<"HTTP/2.0 200 OK">> }

(* Bodies, some of them followed by another response or cut short. *)
Bodies == {
    <<>>,
    Ascii("ab"),
    Ascii("abcHTTP/1.1 204 N") \o CRLF \o CRLF,
    Lines(<<"3", "abc", "1;e=v w", "d", "00", "T: v ", "u:">>, CRLF) \o CRLF,
    Lines(<<"0">>, CRLF) \o CRLF \o Lines(<<"HTTP/1.0 304 ", "">>, <<LF>>),
    Lines(<<"HTTP/1.0 200 ", "">>, <<LF>>) \o Ascii("a"),
    Lines(<<"2", "abc">>, CRLF),
    Lines(<<"3">>, CRLF) \o Ascii("ab") }

(* Responses to be read, and ones that end inside the status line, a field *)
(* or the empty line.                                                      *)
Corpus == {Lines(h, end) \o end \o b : h \in Heads, b \in Bodies, end \in {CRLF, <<LF>>}}
            \cup {<<>>, Ascii("HTT"), Ascii("HTTP/1.1 20"), Ascii("HTTP/1.1 200 O"),
                  Lines(<<"HTTP/1.1 200 OK", "Content-Length: 3">>, CRLF),
                  Lines(<<"HTTP/1.1 200 OK", "Content-Length: 3">>, CRLF) \o <<CR>>}
=============================================================================
