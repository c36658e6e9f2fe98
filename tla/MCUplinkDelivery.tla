--------------------------- MODULE MCUplinkDelivery ---------------------------
(* Items of one byte; which of them are events and which snapshots is up   *)
(* to the configuration.                                                   *)
EXTENDS UplinkDelivery

MCPayload  == [item : Event \cup Snapshot, mode : {"realtime", "replay"}]
MCByteSize == [p \in MCPayload |-> 1]

\* Events only differ in their names, and so do snapshots.
Symmetry == Permutations(Event) \cup Permutations(Snapshot)
=============================================================================
