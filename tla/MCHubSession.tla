----------------------------- MODULE MCHubSession -----------------------------
(* The maintenance loop and one or two loops beside it.                    *)
EXTENDS HubSession

CONSTANTS h, u, c, main

MCToken   == 1..7
MCSession == 1..7
=============================================================================
