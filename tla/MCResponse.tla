----------------------------- MODULE MCResponse -----------------------------
(***************************************************************************)
(* The response reader with any caller and a consumer that remembers what   *)
(* the tokens told it, on every stream over a few bytes.                   *)
(***************************************************************************)
EXTENDS ResponseConsumer

(* Stand-ins of a byte or two for the literals, to keep buffers short. *)
TransferEncodingStandIn == <<48>>
ContentLengthStandIn == <<52>>
ChunkedStandIn == <<50>>
StaticStrStandIn == <<32, 58>>
=============================================================================
