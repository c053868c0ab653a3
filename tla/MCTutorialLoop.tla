--------------------------- MODULE MCTutorialLoop ---------------------------
(***************************************************************************)
(* The tutorial's server with the literals of the code, on sequences of up *)
(* to three requests.                                                      *)
(***************************************************************************)
EXTENDS TutorialLoop, Ascii

(* A field is its name and its value. *)
Field(f) == Ascii(f[1]) \o Ascii(": ") \o Ascii(f[2]) \o CRLF

Section(fs) == FlattenSeq([k \in 1..Len(fs) |-> Field(fs[k])]) \o CRLF

AsData(fs) == {<<Ascii(fs[k][1]), Ascii(fs[k][2])>> : k \in 1..Len(fs)}

(* The message with this method, header fields and body, and with trailers *)
(* if its body is chunked.                                                 *)
Message(method, fields, body, trailers) ==
    [bytes |-> Ascii(method) \o Ascii(" / HTTP/1.1") \o CRLF \o Section(fields) \o body
                 \o (IF <<"Transfer-Encoding", "chunked">> \in {fields[k] : k \in 1..Len(fields)}
                     THEN Section(trailers) ELSE <<>>),
     data |-> [method |-> Ascii(method), request_target |-> Ascii("/"),
               version |-> Ascii("1"), headers |-> AsData(fields),
               trailers |-> AsData(trailers)]]

Messages == {
    Message("GET", <<<<"Host", "a">>>>, <<>>, <<>>),
    Message("P", <<<<"Host", "b">>, <<"Content-Length", "3">>>>, Ascii("a") \o CRLF, <<>>),
    Message("PUT", <<<<"Transfer-Encoding", "chunked">>, <<"Host", "c">>>>,
            Lines(<<"2", "xy", "0">>, CRLF), <<<<"T", "u v">>, <<"Host", "d">>>>) }

(* A message that is cut, and one that is refused. *)
Broken == {[bytes |-> Ascii("GET"), data |-> Nothing],
           [bytes |-> Ascii("P / HTTP/2"), data |-> Nothing]}

Conversations == {<<m>> : m \in Messages} \cup (Messages \X Messages)
                   \cup (Messages \X Messages \X Broken)
=============================================================================
