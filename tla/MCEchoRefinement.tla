-------------------------- MODULE MCEchoRefinement --------------------------
(* The datapath of MCEchoDatapath, checked against the echo service.      *)
EXTENDS EchoRefinement

CONSTANTS p1, p2, none

MCWorkers == {0}
MCPeers == {p1, p2}
MCLens == {0, 1}
=============================================================================
