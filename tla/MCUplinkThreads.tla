---------------------------- MODULE MCUplinkThreads ----------------------------
(* Threads over a small queue.  Two payloads of one size, which only       *)
(* differ in their names, as threads of a kind do.                         *)
EXTENDS UplinkThreads, TLC

CONSTANTS a, b

MCPayload == {a, b}
MCOneSize == [p \in MCPayload |-> 1]

Symmetry == Permutations(Enqueuer) \cup Permutations(Reader) \cup Permutations(Payload)
=============================================================================
