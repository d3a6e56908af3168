--------------------------- MODULE MCEchoDatapath ---------------------------
(* One worker in steady state: two receive and two send contexts, so the   *)
(* free-list can run dry and a batch can mix receive and send completions. *)
EXTENDS EchoDatapath

CONSTANTS p1, p2, none

MCWorkers == {0}
MCPeers == {p1, p2}
MCLens == {0, 1}
=============================================================================
