------------------------------ MODULE MCValues ------------------------------
(***************************************************************************)
(* The decoders on short views, with a single byte in place of "chunked".  *)
(***************************************************************************)
EXTENDS Values

ChunkedStandIn == <<99>>
=============================================================================
