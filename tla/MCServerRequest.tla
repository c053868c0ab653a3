-------------------------- MODULE MCServerRequest ---------------------------
(***************************************************************************)
(* The request object with the literals of the code, on a corpus of one or *)
(* two requests.                                                           *)
(***************************************************************************)
EXTENDS ServerRequest, Ascii

(* A request: the version, the names and values of its fields, and its     *)
(* body, of which the second part is what the framing makes of it.         *)
Spoken(minor, fields, framed, body, trailers, whole) ==
    [minor |-> minor, fields |-> fields, framed |-> framed, body |-> body,
     trailers |-> trailers, whole |-> whole]

Host1 == <<"Host", "h">>

Firsts == {
    Spoken("1", <<Host1>>, <<>>, "", <<>>, TRUE),
    Spoken("1", <<Host1, <<"Content-Length", "2">>>>, Ascii("ab"), "ab", <<>>, TRUE),
    Spoken("1", <<Host1, <<"Transfer-Encoding", "chunked">>>>,
           Lines(<<"1;e", "a", "2", "bc", "0", "T: v", "">>, CRLF), "abc",
           <<<<"T", "v">>>>, TRUE),
    Spoken("1", <<Host1, <<"Transfer-Encoding", "chunked">>>>,
           Lines(<<"1", "ab">>, CRLF), "a", <<>>, FALSE),
    Spoken("0", <<<<"X", "">>>>, <<>>, "", <<>>, TRUE),
    Spoken("0", <<<<"Connection", "a, Keep-Alive">>>>, <<>>, "", <<>>, TRUE),
    Spoken("1", <<Host1, <<"Connection", "x">>, <<"connection", "close ,y">>>>,
           <<>>, "", <<>>, TRUE),
    Spoken("1", <<<<"Connection", "y">>, <<"X", "close">>, Host1>>, <<>>, "", <<>>, TRUE) }

Seconds == {
    Spoken("1", <<Host1, <<"Connection", "close">>>>, <<>>, "", <<>>, TRUE),
    Spoken("0", <<<<"Content-Length", "1">>>>, Ascii("z"), "z", <<>>, TRUE),
    Spoken("1", <<Host1, <<"Connection", "Upgrade">>>>, Ascii("ws"), "", <<>>, TRUE),
    Spoken("1", <<Host1, <<"Connection", "upgrade">>, <<"Content-Length", "2">>>>,
           Ascii("abws"), "ab", <<>>, TRUE),
    Spoken("1", <<Host1, <<"Connection", "upgrade">>, <<"Connection", "close">>>>,
           <<>>, "", <<>>, TRUE),
    Spoken("1", <<>>, <<>>, "", <<>>, FALSE) }

HeadOf(s) == Lines(<<IF s.minor = "0" THEN "G / HTTP/1.0" ELSE "G / HTTP/1.1">>, CRLF)
                \o FoldLeft(LAMBDA acc, f : acc \o Ascii(f[1]) \o Ascii(": ")
                                                \o Ascii(f[2]) \o CRLF, <<>>, s.fields)
                \o CRLF

Pairs(fs) == <<>> \o [k \in DOMAIN fs |-> <<Ascii(fs[k][1]), Ascii(fs[k][2])>>]

SentAt(s, offset) ==
    [method |-> Ascii("G"), url |-> Ascii("/"),
     httpVersion |-> IF s.minor = "0" THEN "HTTP_1_0" ELSE "HTTP_1_1",
     headers |-> Pairs(s.fields), trailers |-> Pairs(s.trailers),
     body |-> Ascii(s.body), whole |-> s.whole,
     head |-> offset + Len(HeadOf(s))]

Of(a, b) ==
    LET first == HeadOf(a) \o a.framed IN
    [bytes |-> first \o HeadOf(b) \o b.framed,
     requests |-> <<SentAt(a, 0), SentAt(b, Len(first))>>]

Corpus == {Of(a, b) : a \in Firsts, b \in Seconds}
=============================================================================
