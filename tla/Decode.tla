------------------------------- MODULE Decode -------------------------------
(***************************************************************************)
(* syntax::content_length::decode and syntax::chunk_size::decode.  Both    *)
(* read the digits from the last one, keep the weight of the current digit *)
(* in `digit', and guard each operation on the unsigned type Target (of    *)
(* maximum max) by a division or subtraction that cannot wrap itself.      *)
(* `out' is an in-out parameter: it keeps its value when the view is empty *)
(* and holds the sum of the digits read so far when the result is not ok.  *)
(***************************************************************************)
EXTENDS Syntax, SequencesExt

(* The value of each byte as a digit, -1 if it is none. *)
DecimalValue == [c \in Byte |-> IF c \in isdigit THEN c - 48 ELSE -1]

(* Mutant: the lower case bit of a hexadecimal letter is not set first.    *)
HexValueNoCaseFold == [c \in Byte |->
    CASE c \in isdigit               -> c - 48
      [] c \in is_hexdigit \ isdigit -> 10 + c - 97
      [] OTHER                       -> -1]

HexValue == [c \in Byte |->
    CASE c \in isdigit               -> c - 48
      [] c \in is_hexdigit \ isdigit -> 10 + ToLower(c) - 97
      [] OTHER                       -> -1]

(* while (in.size() && in[0] == '0') in.remove_prefix(1);                  *)
SkipZeros(in) ==
    LET nonzero == {k \in 1..Len(in) : in[k] # 48}
    IN  IF nonzero = {} THEN <<>> ELSE SubSeq(in, Min(nonzero), Len(in))

(* Mutant: the weight is multiplied without a check.                       *)
WeightOverflowsUnchecked(acc, base, max) == FALSE

(* The check at the end of an iteration, made when a digit is left to read. *)
WeightOverflows(acc, base, max) == ~acc.first /\ max \div base < acc.digit

(* One iteration of the digit loop, for a digit of that value.             *)
DigitStep(acc, value, base, max) ==
    LET weight == IF acc.first THEN 1 ELSE acc.digit * base IN
    IF acc.result # "ok" THEN acc
    ELSE IF WeightOverflows(acc, base, max) THEN [acc EXCEPT !.result = "overflow"]
    ELSE IF value = -1 THEN [acc EXCEPT !.result = "invalid"]
    ELSE IF max \div weight < value \/ max - value * weight < acc.out
    THEN [acc EXCEPT !.result = "overflow"]
    ELSE [result |-> "ok", out |-> acc.out + value * weight, digit |-> weight,
          first |-> FALSE]

(* The loop, from the last digit to the first that is not a leading zero:  *)
(* acc[k] is what k iterations leave.                                      *)
DigitLoop(in, ValueOf, base, max) ==
    LET digits == SkipZeros(in)
        acc[k \in 0..Len(digits)] ==
            IF k = 0 THEN [result |-> "ok", out |-> 0, digit |-> 1, first |-> TRUE]
            ELSE DigitStep(acc[k - 1], ValueOf[digits[Len(digits) + 1 - k]], base, max)
    IN  acc[Len(digits)]

decode(in, out, ValueOf, base, max) ==
    IF in = <<>> THEN [result |-> "invalid", out |-> out]
    ELSE LET acc == DigitLoop(in, ValueOf, base, max)
         IN  [result |-> acc.result, out |-> acc.out]

content_length_decode(in, out, max) == decode(in, out, DecimalValue, 10, max)

chunk_size_decode(in, out, max) == decode(in, out, HexValue, 16, max)
=============================================================================
