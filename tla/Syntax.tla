------------------------------- MODULE Syntax -------------------------------
(***************************************************************************)
(* The byte classes and the small matchers the readers are built from:     *)
(* boost/http/reader/detail/abnf.hpp and common.hpp and boost/http/syntax. *)
(* A byte is an integer of 0..255, a buffer or a string_view a sequence of *)
(* bytes, and an offset counts the bytes before it, as in the code: the    *)
(* byte at offset i of buf is buf[i + 1].                                  *)
(***************************************************************************)
EXTENDS Integers, Sequences, FiniteSetsExt

Byte == 0..255

CR == 13
LF == 10
SP == 32
COLON == 58
COMMA == 44

-----------------------------------------------------------------------------
(* Byte classes: the set of the bytes the predicate of that name accepts.  *)

isalpha == (65..90) \cup (97..122)

isdigit == 48..57

isalnum == isalpha \cup isdigit

is_tchar == {33, 35, 36, 37, 38, 39, 42, 43, 45, 46, 94, 95, 96, 124, 126}
              \cup isalnum

is_ows == {32, 9}

is_vchar == 33..126

is_obs_text == 128..255

is_chunk_ext_char == {59, 61, 34, 9, 32, 33, 92} \cup is_tchar \cup (35..91)
                       \cup (93..126) \cup is_obs_text \cup is_vchar

is_field_value_char == is_vchar \cup is_obs_text \cup is_ows

is_request_target_char ==
    {63, 47, 45, 46, 95, 126, 37, 33, 36, 38, 39, 40, 41, 42, 43, 44, 59,
     61, 58, 64} \cup isalnum

is_reason_phrase_char == is_ows \cup is_vchar \cup is_obs_text

is_hexdigit == isdigit \cup (65..70) \cup (97..102)

-----------------------------------------------------------------------------
(* Run(S, buf, from, to): the scan loop that starts at offset from and     *)
(* stops at the first byte outside the class S, or at the end of the       *)
(* buffer, stops at offset to.                                             *)
Run(S, buf, from, to) ==
    /\ \A k \in (from + 1)..to : buf[k] \in S
    /\ to < Len(buf) => buf[to + 1] \notin S

(* The bytes of buf between two offsets: view_type(data + from, to - from). *)
View(buf, from, to) == SubSeq(buf, from + 1, to)

(* boost::algorithm::iequals: equality up to ASCII case.                    *)
ToLower(b) == IF b \in 65..90 THEN b + 32 ELSE b

iequals(a, b) == /\ Len(a) = Len(b)
                 /\ \A k \in 1..Len(a) : ToLower(a[k]) = ToLower(b[k])

(* Mutant: a CR at the end of the buffer is refused at once.               *)
liberal_crlf_eager(buf, i) ==
    CASE buf[i + 1] = LF                                      -> "lf"
      [] buf[i + 1] = CR /\ Len(buf) > i + 1 /\ buf[i + 2] = LF -> "crlf"
      [] OTHER                                                -> "invalid_data"

(* liberal_crlf::match and strict_crlf::match on the view that starts at   *)
(* offset i.  The caller has at least one byte for the first and at least  *)
(* two for the second.                                                     *)
liberal_crlf(buf, i) ==
    CASE buf[i + 1] = LF                             -> "lf"
      [] buf[i + 1] = CR /\ Len(buf) = i + 1         -> "insufficient_data"
      [] buf[i + 1] = CR /\ Len(buf) > i + 1 /\ buf[i + 2] = LF -> "crlf"
      [] OTHER                                       -> "invalid_data"

strict_crlf(buf, i) == buf[i + 1] = CR /\ buf[i + 2] = LF

(* status_code::match on the view that starts at offset i, and decode. *)
status_code_match(buf, i) == /\ Len(buf) - i >= 3
                             /\ \A k \in 1..3 : buf[i + k] \in isdigit

status_code_decode(view) ==
    (view[1] - 48) * 100 + (view[2] - 48) * 10 + (view[3] - 48)

(* detail::decode_field_value: drops the trailing OWS, never the first     *)
(* byte.  On the empty view the loop starts at size() - 1, which wraps and *)
(* counts bytes in front of the view; remove_suffix then clamps to the     *)
(* size, so the result is the empty view whatever was counted.             *)
decode_field_value(in) ==
    IF in = <<>> THEN <<>>
    ELSE SubSeq(in, 1, Max({1} \cup {k \in 1..Len(in) : in[k] \notin is_ows}))
=============================================================================
