---------------------------- MODULE MCEchoServer ----------------------------
(* Two processors and --cores 0, so two workers with one context of each   *)
(* kind, and one IPv4 and one IPv6 client: enough for one worker to be     *)
(* busy while the other is idle, for each socket outcome and construction  *)
(* failure on either index, and for the signal to arrive at any point of  *)
(* start-up, steady state or teardown.                                     *)
EXTENDS EchoServer, TLC

CONSTANTS p1, p2, none

MCPeers == {p1, p2}
MCPeerFamily == (p1 :> "v4") @@ (p2 :> "v6")
MCLens == {0, 1}
MCWorkers == 0..(NumWorkers(0, 2) - 1)
=============================================================================
