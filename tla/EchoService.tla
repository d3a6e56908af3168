----------------------------- MODULE EchoService -----------------------------
(***************************************************************************)
(* What the echo service promises about each datagram, whatever worker,    *)
(* context or batch handles it (spec sections 2 and 4.2, P2 and P3): a     *)
(* datagram the server receives is eventually either echoed, exactly once, *)
(* back to its sender with its own length - only if it is not empty - or   *)
(* dropped (no send context free, a failed send post, an empty datagram). *)
(* UDP promises no delivery: an accepted echo may still be lost by the    *)
(* network stack instead of going on the wire.                            *)
(***************************************************************************)
EXTENDS Naturals, Bags

CONSTANTS
    Datagrams     \* records with at least a field len

VARIABLES
    status,       \* [Datagrams -> {"none", "queued", "echoing", "echoed", "dropped"}]
    wire          \* bag of echoes sent

vars == <<status, wire>>

Status == {"none", "queued", "echoing", "echoed", "dropped"}

\* The endpoint receives datagram d.
Deliver(d) ==
    /\ status[d] = "none"
    /\ status' = [status EXCEPT ![d] = "queued"]
    /\ UNCHANGED wire

\* The server takes d up for echo; an empty datagram is never echoed.
Accept(d) ==
    /\ status[d] = "queued"
    /\ d.len > 0
    /\ status' = [status EXCEPT ![d] = "echoing"]
    /\ UNCHANGED wire

\* The server gives up on d.
Drop(d) ==
    /\ status[d] = "queued"
    /\ status' = [status EXCEPT ![d] = "dropped"]
    /\ UNCHANGED wire

\* The echo of d - d itself: same sender, same length - goes on the wire.
Transmit(d) ==
    /\ status[d] = "echoing"
    /\ status' = [status EXCEPT ![d] = "echoed"]
    /\ wire' = wire (+) SetToBag({d})

\* The stack fails the send of d's echo; nothing goes on the wire.
Lose(d) ==
    /\ status[d] = "echoing"
    /\ status' = [status EXCEPT ![d] = "dropped"]
    /\ UNCHANGED wire

Init ==
    /\ status = [d \in Datagrams |-> "none"]
    /\ wire = EmptyBag

Next == \E d \in Datagrams : Deliver(d) \/ Accept(d) \/ Drop(d) \/ Transmit(d)
                                   \/ Lose(d)

(* A received datagram is eventually handled, and an accepted echo is     *)
(* eventually sent unless the stack loses it first; delivery and loss     *)
(* are up to the network.                                                 *)
Spec == /\ Init /\ [][Next]_vars
        /\ \A d \in Datagrams : WF_vars(Accept(d) \/ Drop(d)) /\ WF_vars(Transmit(d))

=============================================================================
