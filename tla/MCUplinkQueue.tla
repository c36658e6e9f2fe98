----------------------------- MODULE MCUplinkQueue -----------------------------
(* A small queue for TLC: payloads of one and two bytes, room for both and *)
(* one more byte, and a payload that never fits.                           *)
EXTENDS UplinkQueue

CONSTANTS small, large, oversized

MCPayload  == {small, large, oversized}
MCByteSize == [p \in MCPayload |-> CASE p = small -> 1 [] p = large -> 2 [] p = oversized -> 5]
=============================================================================
