------------------------------ MODULE TokenLog ------------------------------
(***************************************************************************)
(* What a consumer sees of a stream: the tokens with their places, in      *)
(* offsets from the start of the stream.  The drivers keep such a log to   *)
(* compare two ways of reading the same stream.                            *)
(***************************************************************************)
EXTENDS Token, Integers, SequencesExt

(* Structural and data tokens and errors are recorded; the pieces of a body *)
(* are put together, and an error counts as a place without bytes.         *)
Record(log, code, from, to) ==
    CASE code \in {"skip", "error_insufficient_data"} -> log
      [] symbol(code) = "error" /\ code # "error_insufficient_data" ->
             Append(log, [code |-> code, from |-> from, to |-> from])
      [] code = "body_chunk" /\ log # <<>> /\ Last(log).code = code ->
             [log EXCEPT ![Len(log)].to = to]
      [] OTHER -> Append(log, [code |-> code, from |-> from, to |-> to])

(* A log agrees with a complete one as far as it goes: only its last token, *)
(* a piece of a body, may still grow.                                      *)
Agrees(log, whole, complete) ==
    /\ Len(log) <= Len(whole)
    /\ \A k \in 1..Len(log) :
          /\ log[k].code = whole[k].code /\ log[k].from = whole[k].from
          /\ log[k].to <= whole[k].to
          /\ k < Len(log) \/ complete => log[k] = whole[k]
    /\ complete => Len(log) = Len(whole)
=============================================================================
