--------------------------- MODULE EchoRefinement ---------------------------
(***************************************************************************)
(* The datapath implements the echo service.  A datagram delivered to     *)
(* worker w is "queued" while its receive completion waits in the port or *)
(* in the dequeued batch, "echoing" while a posted send context holds it, *)
(* "echoed" once its echo is on the wire, and "dropped" once handled with *)
(* no echo outstanding or sent.  The wire is the bag of echoes.           *)
(***************************************************************************)
EXTENDS EchoDatapath

\* Every datagram the kernel can deliver, tagged with its worker.
AllDatagrams == [w : Workers, id : 1..MaxArrivals, peer : Peers, len : Lens]

\* Ids of datagrams whose receive completion worker w has not handled (a
\* failed receive carries no datagram; its context holds a stale one).
QueuedIds(w) ==
    LET q == iocp[w] \o batch[w]
    IN  {buf[w][q[i].ctx].id : i \in {j \in UnhandledRecvs(w) : q[j].ok}}

\* Ids of datagrams whose echo worker w has posted and the kernel holds.
EchoingIds(w) == {buf[w][s].id : s \in InFlightSends(w)}

StatusOf(d) ==
    CASE d \notin arrived            -> "none"
      [] d.id \in QueuedIds(d.w)     -> "queued"
      [] d.id \in EchoingIds(d.w)    -> "echoing"
      [] CopiesIn(d, echoed) > 0     -> "echoed"
      [] OTHER                       -> "dropped"

Service == INSTANCE EchoService
             WITH Datagrams <- AllDatagrams,
                  status <- [d \in AllDatagrams |-> StatusOf(d)],
                  wire <- echoed

(* The datapath, with its worker and kernel fairness, implements the echo *)
(* service: each datagram goes none -> queued -> echoing -> echoed, or    *)
(* queued -> dropped, or echoing -> dropped when the kernel fails the     *)
(* send, one step of the service per step of the code; every echo is the *)
(* received datagram itself sent once, every received datagram is        *)
(* eventually handled and every accepted echo eventually sent or lost.   *)
ServiceSpec == Service!Spec

=============================================================================
