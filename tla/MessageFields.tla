--------------------------- MODULE MessageFields ----------------------------
(***************************************************************************)
(* What section 3.3.3 of RFC 7230, which the comments of the readers quote, *)
(* derives from the framing fields of a message: a reference that looks at *)
(* the values of the fields only.                                          *)
(***************************************************************************)
EXTENDS MessageReader, Numeral

NONE == -1     \* no Content-Length seen
BAD == -2      \* a Content-Length that is no numeral, or more than one

(* All Transfer-Encoding fields together are one list of codings. *)
MergeCodings(te, value) ==
    LET codings == ListElements(value)
        chunkedAt == {k \in 1..Len(codings) : iequals(codings[k], Chunked)}
    IN  IF te \in {"chunked", "bad"} THEN "bad"
        ELSE IF chunkedAt = {} THEN "other"
        ELSE IF chunkedAt = {Len(codings)} THEN "chunked"
        ELSE "bad"

(* The first Content-Length counts; a second one is an error by itself. *)
MergeLengths(cl, value) ==
    IF cl = NONE /\ value # <<>> /\ \A k \in 1..Len(value) : value[k] \in isdigit
    THEN Number(value, DecimalValue, 10) ELSE BAD

(* What the bytes of a field_value token say by themselves, and after the  *)
(* codings te of earlier fields.                                           *)
LengthOf(bytes) == MergeLengths(NONE, decode_field_value(bytes))

CodingsOf(te, bytes) == MergeCodings(te, decode_field_value(bytes))
=============================================================================
