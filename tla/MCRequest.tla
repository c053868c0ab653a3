------------------------------ MODULE MCRequest -----------------------------
(***************************************************************************)
(* The request reader with any caller and a consumer that remembers what   *)
(* the tokens told it, on every stream over a few bytes.                   *)
(***************************************************************************)
EXTENDS RequestConsumer, RequestTokens

(* Stand-ins of a byte or two for the literals, to keep buffers short. *)
HostStandIn == <<48>>
TransferEncodingStandIn == <<48, 48>>
ContentLengthStandIn == <<50>>
ChunkedStandIn == <<50>>
StaticStrStandIn == <<32, 58>>
=============================================================================
