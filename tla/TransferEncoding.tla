-------------------------- MODULE TransferEncoding --------------------------
(***************************************************************************)
(* reader/detail/transfer_encoding.hpp and the list walk it is based on,   *)
(* algorithm/header/header_value_any_of.hpp.                               *)
(***************************************************************************)
EXTENDS Syntax, SequencesExt

CONSTANT Chunked     \* the bytes of "chunked"

(* A view without the white space at its two ends (find_if_not forwards,   *)
(* then backwards).                                                        *)
Trim(v) == LET ink == {k \in 1..Len(v) : v[k] \notin is_ows}
           IN  IF ink = {} THEN <<>> ELSE SubSeq(v, Min(ink), Max(ink))

(* Mutant: the list walk stops at the first empty element.                 *)
ListElementsUntilEmpty(v) ==
    LET walk[comma \in 0..Len(v)] ==
          LET next_comma == Min({k \in comma..Len(v) :
                                   k = Len(v) \/ v[k + 1] = COMMA})
              value == Trim(View(v, comma, next_comma))
          IN  IF value = <<>> THEN <<>>
              ELSE IF next_comma + 1 >= Len(v) THEN <<value>>
              ELSE <<value>> \o walk[next_comma + 1]
    IN  walk[0]

(* The views that header_value_any_of offers to its predicate, in order:   *)
(* from `comma' to the next comma or the end, trimmed, empty ones left out. *)
(* The loop ends when nothing follows the comma just found.                *)
ListElements(v) ==
    LET walk[comma \in 0..Len(v)] ==
          LET next_comma == Min({k \in comma..Len(v) :
                                   k = Len(v) \/ v[k + 1] = COMMA})
              value == Trim(View(v, comma, next_comma))
              here  == IF value = <<>> THEN <<>> ELSE <<value>>
          IN  IF next_comma + 1 >= Len(v) THEN here
              ELSE here \o walk[next_comma + 1]
    IN  walk[0]

(* decode_transfer_encoding_p::operator(): count and res are its state,    *)
(* stop its return value, after which no further element is offered.       *)
decode_transfer_encoding_p(s, v) ==
    IF s.stop THEN s
    ELSE IF ~iequals(v, Chunked)
    THEN IF s.count = 1 THEN [s EXCEPT !.res = "CHUNKED_INVALID", !.stop = TRUE] ELSE s
    ELSE IF s.count + 1 = 2
    THEN [count |-> s.count + 1, res |-> "CHUNKED_INVALID", stop |-> TRUE]
    ELSE [count |-> s.count + 1, res |-> "CHUNKED_AT_END", stop |-> FALSE]

(* The predicate is offered the elements in turn: s[k] is its state after k. *)
decode_transfer_encoding(field) ==
    LET codings == ListElements(field)
        s[k \in 0..Len(codings)] ==
            IF k = 0 THEN [count |-> 0, res |-> "CHUNKED_NOT_FOUND", stop |-> FALSE]
            ELSE decode_transfer_encoding_p(s[k - 1], codings[k])
    IN  s[Len(codings)].res
=============================================================================
