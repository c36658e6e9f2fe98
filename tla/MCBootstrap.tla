----------------------------- MODULE MCBootstrap -----------------------------
(* Keys: the one on disk, the one the Core knows, and another.             *)
EXTENDS Bootstrap

MCKey == 1..3
=============================================================================
