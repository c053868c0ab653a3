------------------------------- MODULE Ascii --------------------------------
(***************************************************************************)
(* Byte sequences for the models, written as strings.                      *)
(***************************************************************************)
EXTENDS Integers, SequencesExt

(* The printable ASCII characters; a dot stands for the ones not used. *)
Printable == " !..........,-./0123456789:;.=.?.ABCDEFGHIJKLMNOPQRSTUVWXYZ......abcdefghijklmnopqrstuvwxyz...."

(* The ASCII codes of a string. *)
CodeOf(c) == 31 + CHOOSE i \in 1..95 :
                     SubSeq(Printable, i, i) = c /\ (c = "." => i = 15)

Ascii(s) == <<>> \o [k \in 1..Len(s) |-> CodeOf(SubSeq(s, k, k))]

CRLF == <<13, 10>>

(* Lines(ls, end): the lines ls, each followed by end. *)
Lines(ls, end) == FoldLeft(LAMBDA acc, l : acc \o Ascii(l) \o end, <<>>, ls)

-----------------------------------------------------------------------------
(* The literals of the code, as byte sequences: the models compare with them *)
(* in every step, so they are written out.                                 *)
HostLiteral == <<72, 111, 115, 116>>  \* "Host"
(* "Transfer-Encoding" *)
TransferEncodingLiteral == <<84, 114, 97, 110, 115, 102, 101, 114, 45, 69, 110, 99, 111, 100, 105, 110, 103>>
(* "Content-Length" *)
ContentLengthLiteral == <<67, 111, 110, 116, 101, 110, 116, 45, 76, 101, 110, 103, 116, 104>>
ChunkedLiteral == <<99, 104, 117, 110, 107, 101, 100>>  \* "chunked"
SpHttp1Literal == <<32, 72, 84, 84, 80, 47, 49, 46>>  \* " HTTP/1."
Http1Literal == <<72, 84, 84, 80, 47, 49, 46>>  \* "HTTP/1."
(* "connection" *)
ConnectionLiteral == <<99, 111, 110, 110, 101, 99, 116, 105, 111, 110>>
CloseLiteral == <<99, 108, 111, 115, 101>>  \* "close"
(* "keep-alive" *)
KeepAliveLiteral == <<107, 101, 101, 112, 45, 97, 108, 105, 118, 101>>
UpgradeLiteral == <<117, 112, 103, 114, 97, 100, 101>>  \* "upgrade"
=============================================================================
