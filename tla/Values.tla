------------------------------- MODULE Values -------------------------------
(***************************************************************************)
(* The decoders of field values and chunk sizes, on every view of at most  *)
(* MaxDigits bytes of DigitBytes and of at most MaxList bytes of           *)
(* ListBytes: the two number decoders, for every maximum of the target     *)
(* type in Maxima, against the number the digits denote, and               *)
(* decode_transfer_encoding against what the list says.                    *)
(***************************************************************************)
EXTENDS Decode, TransferEncoding, Numeral

CONSTANTS DigitBytes, MaxDigits, Maxima, ListBytes, MaxList

ASSUME ValuesAssumption ==
    /\ DigitBytes \cup ListBytes \subseteq Byte
    /\ Maxima \subseteq Nat \ {0}
    /\ Chunked \in Seq(Byte)

VARIABLE in

Init == in = <<>>

Over(bytes) == \A k \in 1..Len(in) : in[k] \in bytes

ExtendNumber == /\ Over(DigitBytes) /\ Len(in) < MaxDigits
                /\ \E c \in DigitBytes : in' = Append(in, c)

ExtendList == /\ Over(ListBytes) /\ Len(in) < MaxList
              /\ \E c \in ListBytes : in' = Append(in, c)

Spec == Init /\ [][ExtendNumber \/ ExtendList]_in

-----------------------------------------------------------------------------
Digits == <<48, 49, 50, 51, 52, 53, 54, 55, 56, 57, 97, 98, 99, 100, 101, 102>>

(* The position of a character among the digits of a base, -1 if it is none. *)
DigitValue(c, base) ==
    IF \E v \in 0..(base - 1) : Digits[v + 1] = ToLower(c)
    THEN CHOOSE v \in 0..(base - 1) : Digits[v + 1] = ToLower(c) ELSE -1

(* The number a numeral denotes, read from its first digit. *)
Denotes(base) == Number(in, [c \in Byte |-> DigitValue(c, base)], base)

IsNumeral(base) == in # <<>> /\ \A k \in 1..Len(in) : DigitValue(in[k], base) # -1

(* What a caller expects of a decoder: ok exactly on the numerals that fit, *)
(* with their value, and invalid never on a numeral.                        *)
Decodes(d, base, max) ==
    LET fits == IsNumeral(base) /\ Denotes(base) <= max IN
    /\ (d.result = "ok") <=> fits
    /\ fits => d.out = Denotes(base)
    /\ d.result = "invalid" => ~IsNumeral(base)

(* content_length::decode accepts exactly the decimal numerals that fit in *)
(* the target, leading zeros included, although it reads them backwards,   *)
(* and chunk_size::decode exactly the hexadecimal ones.                    *)
NumbersDecode ==
    \A max \in Maxima : /\ Decodes(content_length_decode(in, 1, max), 10, max)
                        /\ Decodes(chunk_size_decode(in, 1, max), 16, max)

(* No arithmetic of the loop leaves the target type: the weight of a digit *)
(* and the sum stay within max on every input, the rejected ones included, *)
(* so body_size never holds a wrapped number.                              *)
DecodeNeverWraps ==
    \A max \in Maxima : \A acc \in {DigitLoop(in, DecimalValue, 10, max),
                                    DigitLoop(in, HexValue, 16, max)} :
        acc.digit \in 1..max /\ acc.out \in 0..max

-----------------------------------------------------------------------------
(* <<s, e>> delimits a coding: no comma inside, no white space at its ends, *)
(* and only white space between it and the comma or the end on each side.  *)
IsCoding(s, e) ==
    /\ \A k \in (s + 1)..e : in[k] # COMMA
    /\ in[s + 1] \notin is_ows /\ in[e] \notin is_ows
    /\ \A k \in 1..s : (\A j \in k..s : in[j] # COMMA) => in[k] \in is_ows
    /\ \A k \in (e + 1)..Len(in) :
           (\A j \in (e + 1)..k : in[j] # COMMA) => in[k] \in is_ows

Codings == {c \in (0..Len(in)) \X (0..Len(in)) : c[1] < c[2] /\ IsCoding(c[1], c[2])}

ChunkedCodings == {c \in Codings : iequals(View(in, c[1], c[2]), Chunked)}

(* The verdict on a Transfer-Encoding value is the one section 3.3.1 of    *)
(* RFC 7230 asks for: chunked at most once and, when present, last,        *)
(* whatever empty elements and white space the list holds.                 *)
ChunkedIsLastAndOnce ==
    decode_transfer_encoding(in) =
        CASE ChunkedCodings = {} -> "CHUNKED_NOT_FOUND"
          [] Cardinality(ChunkedCodings) = 1
             /\ \A c \in ChunkedCodings : \A d \in Codings : d[1] <= c[1]
                                 -> "CHUNKED_AT_END"
          [] OTHER               -> "CHUNKED_INVALID"
=============================================================================
