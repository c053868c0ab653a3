------------------------------ MODULE Numeral -------------------------------
(***************************************************************************)
(* What a numeral denotes: a reference for the decoders of Content-Length  *)
(* and chunk sizes that reads the digits from the first one and has no     *)
(* bound.                                                                  *)
(***************************************************************************)
EXTENDS Integers, Sequences

(* The number that k digits of a numeral in some base denote is upTo[k]. *)
Number(digits, ValueOf, base) ==
    LET upTo[k \in 0..Len(digits)] ==
            IF k = 0 THEN 0 ELSE upTo[k - 1] * base + ValueOf[digits[k]]
    IN  upTo[Len(digits)]
=============================================================================
