---------------------------- MODULE EchoDatapath ----------------------------
(***************************************************************************)
(* The per-core datapath of the sharded UDP echo server                    *)
(* (src/src/server/main.cpp, worker_thread_func) together with the part    *)
(* of the kernel it drives: the socket's outstanding overlapped requests   *)
(* and the I/O completion port of each worker.                             *)
(*                                                                         *)
(* A worker owns OUTSTANDING_OPS receive contexts and OUTSTANDING_OPS send *)
(* contexts.  A context is, at any moment, in exactly one place:           *)
(*   pending[w]   - posted to the socket, owned by the kernel;             *)
(*   iocp[w]      - completed, its entry queued in the completion port;    *)
(*   batch[w]     - dequeued by GetQueuedCompletionStatusEx, not handled;  *)
(*   avail[w]     - a send context on the LIFO free-list;                  *)
(*   stranded[w]  - a receive context whose post_recv failed: the code     *)
(*                  ignores the failure and never posts it again.          *)
(* post_recv / post_send live in common/socket_utils.hpp, which is not    *)
(* part of the sources; their effect is taken from the spec (section 4.2). *)
(***************************************************************************)
EXTENDS Naturals, Sequences, FiniteSets, Bags, SequencesExt, FiniteSetsExt

CONSTANTS
    Workers,          \* processor ids of the workers
    OUTSTANDING_OPS,  \* depth of the receive and of the send pool
    Peers,            \* remote addresses of clients
    NoPeer,           \* remote address of a context never filled
    Lens,             \* datagram lengths (bytes_transferred) the network sends
    MaxArrivals,      \* bound: datagrams the network delivers in a behaviour
    MaxPostFailures,  \* bound: post_recv/post_send calls that fail
    MaxRecvErrors,    \* bound: receives per worker that complete with an error
    MaxSendErrors     \* bound: sends that complete with an error

ASSUME OUTSTANDING_OPS \in Nat \ {0}
ASSUME Lens \subseteq Nat /\ MaxArrivals \in Nat /\ MaxPostFailures \in Nat
ASSUME MaxRecvErrors \in Nat /\ MaxSendErrors \in Nat

VARIABLES
    pc,           \* worker thread: "absent" "init" "top" "wait" "batch" "exited"
    pending,      \* contexts with an outstanding request on the socket
    iocp,         \* completion port queue: Seq of [ctx, bytes]
    batch,        \* the OVERLAPPED_ENTRY array still to be handled
    avail,        \* available_send_contexts (back of the vector = Last)
    stranded,     \* receive contexts lost to a failed post_recv
    buf,          \* buffer + remote_addr of each context: a datagram record
    packets_received, packets_sent, bytes_received, bytes_sent,
    g_shutdown,   \* the process-wide atomic flag
    iocpOpen,     \* the worker's completion-port handle is open
    sockOpen,     \* the worker's socket is open
    arrived,      \* history: datagrams the kernel delivered to a worker
    echoed,       \* history: bag of echoes put on the wire
    nextId,       \* datagrams delivered so far (also the id of the last one)
    postFailures, \* post calls that have failed so far
    recvErrors,   \* history: receives of each worker completed with an error
    lost          \* history: echoes whose send completed with an error

datapathVars == <<pc, pending, iocp, batch, avail, stranded, buf,
                  packets_received, packets_sent, bytes_received, bytes_sent,
                  g_shutdown, iocpOpen, sockOpen, arrived, echoed, nextId,
                  postFailures, recvErrors, lost>>
counters == <<packets_received, packets_sent, bytes_received, bytes_sent>>
history == <<arrived, echoed, nextId, recvErrors, lost>>

-----------------------------------------------------------------------------
RecvCtxs == {"recv"} \X (1..OUTSTANDING_OPS)
SendCtxs == {"send"} \X (1..OUTSTANDING_OPS)
Ctxs == RecvCtxs \cup SendCtxs
\* io_ctx->operation: set by post_recv / post_send, fixed per pool here.
Operation(c) == c[1]

\* A datagram as it sits in a context: its identity stands for the payload.
Datagram == [id : 1..MaxArrivals, peer : Peers, len : Lens]
Blank == [id |-> 0, peer |-> NoPeer, len |-> 0]
\* A completion entry: the request, dwNumberOfBytesTransferred, and whether
\* the request succeeded (its status, which the worker never reads).
Entry == [ctx : Ctxs, bytes : Lens, ok : BOOLEAN]

\* const ULONG max_entries = OUTSTANDING_OPS * 2
MaxEntries == 2 * OUTSTANDING_OPS

\* The initial free-list: send_contexts pushed in order 1..OUTSTANDING_OPS.
InitialAvail == [i \in 1..OUTSTANDING_OPS |-> <<"send", i>>]

\* A worker whose contexts are allocated and not yet freed.
Running(w) == pc[w] \in {"top", "wait", "batch"}

-----------------------------------------------------------------------------
(* Worker thread start: allocate both pools, put every send context on the *)
(* free-list and post every receive context; a failed initial post is     *)
(* logged and the context is never posted.                                 *)
WorkerInit(w) ==
    /\ pc[w] = "init"
    /\ \E failed \in SUBSET RecvCtxs :
         /\ postFailures + Cardinality(failed) <= MaxPostFailures
         /\ pending' = [pending EXCEPT ![w] = RecvCtxs \ failed]
         /\ stranded' = [stranded EXCEPT ![w] = failed]
         /\ postFailures' = postFailures + Cardinality(failed)
    /\ avail' = [avail EXCEPT ![w] = InitialAvail]
    /\ buf' = [buf EXCEPT ![w] = [c \in Ctxs |-> Blank]]
    /\ pc' = [pc EXCEPT ![w] = "top"]
    /\ UNCHANGED <<iocp, batch, counters, g_shutdown, iocpOpen, sockOpen,
                   history>>

\* Mutant: the thread waits for its outstanding I/O before leaving the loop.
WorkerCheckFlag_drainFirst(w) ==
    /\ pc[w] = "top"
    /\ pc' = [pc EXCEPT ![w] = IF g_shutdown /\ pending[w] = {} THEN "exited" ELSE "wait"]
    /\ UNCHANGED <<pending, iocp, batch, avail, stranded, buf, counters,
                   g_shutdown, iocpOpen, sockOpen, history, postFailures>>

(* while (!g_shutdown.load()): leaving the loop prints the summary and     *)
(* returns, which destroys recv_contexts and send_contexts.                *)
WorkerCheckFlag(w) ==
    /\ pc[w] = "top"
    /\ pc' = [pc EXCEPT ![w] = IF g_shutdown THEN "exited" ELSE "wait"]
    /\ UNCHANGED <<pending, iocp, batch, avail, stranded, buf, counters,
                   g_shutdown, iocpOpen, sockOpen, history, postFailures>>

\* Mutant: the entry loop stops one short of num_removed.
GetQueued_dropsLast(w) ==
    /\ pc[w] = "wait"
    /\ \/ /\ ~iocpOpen[w] \/ iocp[w] = <<>>
          /\ pc' = [pc EXCEPT ![w] = "top"]
          /\ UNCHANGED <<iocp, batch>>
       \/ /\ iocpOpen[w] /\ iocp[w] # <<>>
          /\ \E k \in 1..Min({Len(iocp[w]), MaxEntries}) :
               /\ batch' = [batch EXCEPT ![w] = SubSeq(iocp[w], 1, k - 1)]
               /\ iocp' = [iocp EXCEPT ![w] = SubSeq(iocp[w], k + 1, Len(iocp[w]))]
               /\ pc' = [pc EXCEPT ![w] = IF k > 1 THEN "batch" ELSE "top"]
    /\ UNCHANGED <<pending, avail, stranded, buf, counters, g_shutdown,
                   iocpOpen, sockOpen, history, postFailures>>

(* GetQueuedCompletionStatusEx with max_entries and the shutdown timeout:  *)
(* a closed handle fails and a timeout returns nothing, both `continue`;   *)
(* otherwise up to max_entries completions are removed in queue order.     *)
GetQueued(w) ==
    /\ pc[w] = "wait"
    /\ \/ /\ ~iocpOpen[w] \/ iocp[w] = <<>>
          /\ pc' = [pc EXCEPT ![w] = "top"]
          /\ UNCHANGED <<iocp, batch>>
       \/ /\ iocpOpen[w] /\ iocp[w] # <<>>
          /\ \E k \in 1..Min({Len(iocp[w]), MaxEntries}) :
               /\ batch' = [batch EXCEPT ![w] = SubSeq(iocp[w], 1, k)]
               /\ iocp' = [iocp EXCEPT ![w] = SubSeq(iocp[w], k + 1, Len(iocp[w]))]
          /\ pc' = [pc EXCEPT ![w] = "batch"]
    /\ UNCHANGED <<pending, avail, stranded, buf, counters, g_shutdown,
                   iocpOpen, sockOpen, history, postFailures>>

(* A receive completion: count it; if it carries bytes and a send context  *)
(* is free, pop it and post the echo (the payload and the peer address are *)
(* handed to the send context); a failed post_send pushes the context back;*)
(* no free context drops the echo.  In every case the receive context is   *)
(* posted again, and a failed post_recv strands it.                        *)
\* Mutant: a failed post_send does not push the send context back.
HandleRecv_leakOnSendFailure(w, e, sendOk, recvOk) ==
    LET c == e.ctx
        wantsEcho == e.bytes > 0
        haveSend == avail[w] # <<>>
        s == Last(avail[w])
        sent == wantsEcho /\ haveSend /\ sendOk
        echo == [id |-> buf[w][c].id, peer |-> buf[w][c].peer, len |-> e.bytes]
    IN
    /\ packets_received' = [packets_received EXCEPT ![w] = @ + 1]
    /\ bytes_received' = [bytes_received EXCEPT ![w] = @ + e.bytes]
    /\ packets_sent' = [packets_sent EXCEPT ![w] = @ + (IF sent THEN 1 ELSE 0)]
    /\ bytes_sent' = [bytes_sent EXCEPT ![w] = @ + (IF sent THEN e.bytes ELSE 0)]
    /\ avail' = [avail EXCEPT ![w] = IF wantsEcho /\ haveSend THEN Front(@) ELSE @]
    /\ buf' = IF sent THEN [buf EXCEPT ![w][s] = echo] ELSE buf
    /\ pending' = [pending EXCEPT ![w] =
                     @ \cup (IF sent THEN {s} ELSE {})
                       \cup (IF recvOk THEN {c} ELSE {})]
    /\ stranded' = [stranded EXCEPT ![w] = @ \cup (IF recvOk THEN {} ELSE {c})]
    /\ postFailures' = postFailures + (IF recvOk THEN 0 ELSE 1)
                        + (IF wantsEcho /\ haveSend /\ ~sendOk THEN 1 ELSE 0)

\* Mutant: packets_sent is incremented whether or not post_send succeeded.
HandleRecv_countFailedSend(w, e, sendOk, recvOk) ==
    LET c == e.ctx
        wantsEcho == e.bytes > 0
        haveSend == avail[w] # <<>>
        s == Last(avail[w])
        sent == wantsEcho /\ haveSend /\ sendOk
        echo == [id |-> buf[w][c].id, peer |-> buf[w][c].peer, len |-> e.bytes]
    IN
    /\ packets_received' = [packets_received EXCEPT ![w] = @ + 1]
    /\ bytes_received' = [bytes_received EXCEPT ![w] = @ + e.bytes]
    /\ packets_sent' = [packets_sent EXCEPT ![w] = @ + (IF wantsEcho /\ haveSend THEN 1 ELSE 0)]
    /\ bytes_sent' = [bytes_sent EXCEPT ![w] = @ + (IF sent THEN e.bytes ELSE 0)]
    /\ avail' = [avail EXCEPT ![w] = IF sent THEN Front(@) ELSE @]
    /\ buf' = IF sent THEN [buf EXCEPT ![w][s] = echo] ELSE buf
    /\ pending' = [pending EXCEPT ![w] =
                     @ \cup (IF sent THEN {s} ELSE {})
                       \cup (IF recvOk THEN {c} ELSE {})]
    /\ stranded' = [stranded EXCEPT ![w] = @ \cup (IF recvOk THEN {} ELSE {c})]
    /\ postFailures' = postFailures + (IF recvOk THEN 0 ELSE 1)
                        + (IF wantsEcho /\ haveSend /\ ~sendOk THEN 1 ELSE 0)

\* Mutant: the echo goes to the send context's old remote_addr.
HandleRecv_stalePeer(w, e, sendOk, recvOk) ==
    LET c == e.ctx
        wantsEcho == e.bytes > 0
        haveSend == avail[w] # <<>>
        s == Last(avail[w])
        sent == wantsEcho /\ haveSend /\ sendOk
        echo == [id |-> buf[w][c].id, peer |-> buf[w][s].peer, len |-> e.bytes]
    IN
    /\ packets_received' = [packets_received EXCEPT ![w] = @ + 1]
    /\ bytes_received' = [bytes_received EXCEPT ![w] = @ + e.bytes]
    /\ packets_sent' = [packets_sent EXCEPT ![w] = @ + (IF sent THEN 1 ELSE 0)]
    /\ bytes_sent' = [bytes_sent EXCEPT ![w] = @ + (IF sent THEN e.bytes ELSE 0)]
    /\ avail' = [avail EXCEPT ![w] = IF sent THEN Front(@) ELSE @]
    /\ buf' = IF sent THEN [buf EXCEPT ![w][s] = echo] ELSE buf
    /\ pending' = [pending EXCEPT ![w] =
                     @ \cup (IF sent THEN {s} ELSE {})
                       \cup (IF recvOk THEN {c} ELSE {})]
    /\ stranded' = [stranded EXCEPT ![w] = @ \cup (IF recvOk THEN {} ELSE {c})]
    /\ postFailures' = postFailures + (IF recvOk THEN 0 ELSE 1)
                        + (IF wantsEcho /\ haveSend /\ ~sendOk THEN 1 ELSE 0)

HandleRecv(w, e, sendOk, recvOk) ==
    LET c == e.ctx
        wantsEcho == e.bytes > 0
        haveSend == avail[w] # <<>>
        s == Last(avail[w])
        sent == wantsEcho /\ haveSend /\ sendOk
        echo == [id |-> buf[w][c].id, peer |-> buf[w][c].peer, len |-> e.bytes]
    IN
    /\ packets_received' = [packets_received EXCEPT ![w] = @ + 1]
    /\ bytes_received' = [bytes_received EXCEPT ![w] = @ + e.bytes]
    /\ packets_sent' = [packets_sent EXCEPT ![w] = @ + (IF sent THEN 1 ELSE 0)]
    /\ bytes_sent' = [bytes_sent EXCEPT ![w] = @ + (IF sent THEN e.bytes ELSE 0)]
    /\ avail' = [avail EXCEPT ![w] = IF sent THEN Front(@) ELSE @]
    /\ buf' = IF sent THEN [buf EXCEPT ![w][s] = echo] ELSE buf
    /\ pending' = [pending EXCEPT ![w] =
                     @ \cup (IF sent THEN {s} ELSE {})
                       \cup (IF recvOk THEN {c} ELSE {})]
    /\ stranded' = [stranded EXCEPT ![w] = @ \cup (IF recvOk THEN {} ELSE {c})]
    /\ postFailures' = postFailures + (IF recvOk THEN 0 ELSE 1)
                        + (IF wantsEcho /\ haveSend /\ ~sendOk THEN 1 ELSE 0)

\* Mutant: only a send that completed successfully returns to the pool.
HandleSend_recycleOnlyOk(w, e) ==
    /\ avail' = [avail EXCEPT ![w] = IF e.ok THEN Append(@, e.ctx) ELSE @]
    /\ UNCHANGED <<pending, stranded, buf, counters, postFailures>>

(* A send completion: return the context to the free-list.                 *)
HandleSend(w, e) ==
    /\ avail' = [avail EXCEPT ![w] = Append(@, e.ctx)]
    /\ UNCHANGED <<pending, stranded, buf, counters, postFailures>>

\* Mutant: the completion is classified by bytes_transferred, not operation.
HandleEntry_dispatchOnBytes(w) ==
    /\ pc[w] = "batch"
    /\ LET e == Head(batch[w]) IN
         IF e.bytes > 0
         THEN \E sendOk, recvOk \in BOOLEAN :
                /\ HandleRecv(w, e, sendOk, recvOk)
                /\ postFailures' <= MaxPostFailures
         ELSE HandleSend(w, e)
    /\ batch' = [batch EXCEPT ![w] = Tail(@)]
    /\ pc' = [pc EXCEPT ![w] = IF Len(batch[w]) = 1 THEN "top" ELSE "batch"]
    /\ UNCHANGED <<iocp, g_shutdown, iocpOpen, sockOpen, history>>

(* One iteration of the loop over the dequeued entries.                    *)
HandleEntry(w) ==
    /\ pc[w] = "batch"
    /\ LET e == Head(batch[w]) IN
         IF Operation(e.ctx) = "recv"
         THEN \E sendOk, recvOk \in BOOLEAN :
                /\ HandleRecv(w, e, sendOk, recvOk)
                /\ postFailures' <= MaxPostFailures
         ELSE HandleSend(w, e)
    /\ batch' = [batch EXCEPT ![w] = Tail(@)]
    /\ pc' = [pc EXCEPT ![w] = IF Len(batch[w]) = 1 THEN "top" ELSE "batch"]
    /\ UNCHANGED <<iocp, g_shutdown, iocpOpen, sockOpen, history>>

-----------------------------------------------------------------------------
(* Kernel: a datagram from peer p with len bytes completes one of the      *)
(* outstanding receives of worker w's socket; the kernel fills its buffer  *)
(* and remote address and queues the completion on the port.               *)
Arrive(w, p, len) ==
    /\ sockOpen[w]
    /\ nextId < MaxArrivals
    /\ \E c \in pending[w] \cap RecvCtxs :
         LET d == [id |-> nextId + 1, peer |-> p, len |-> len] IN
         /\ buf' = [buf EXCEPT ![w][c] = d]
         /\ pending' = [pending EXCEPT ![w] = @ \ {c}]
         /\ iocp' = [iocp EXCEPT ![w] = Append(@, [ctx |-> c, bytes |-> len, ok |-> TRUE])]
         /\ arrived' = arrived \cup {[w |-> w] @@ d}
    /\ nextId' = nextId + 1
    /\ UNCHANGED <<pc, batch, avail, stranded, counters, g_shutdown, iocpOpen,
                   sockOpen, echoed, postFailures, recvErrors, lost>>

(* Kernel: an outstanding send of worker w goes on the wire, to the peer   *)
(* and with the payload the send context was posted with.                  *)
SendComplete(w, s) ==
    /\ s \in pending[w] \cap SendCtxs
    /\ pending' = [pending EXCEPT ![w] = @ \ {s}]
    /\ iocp' = [iocp EXCEPT ![w] = Append(@, [ctx |-> s, bytes |-> buf[w][s].len, ok |-> TRUE])]
    /\ echoed' = echoed (+) SetToBag({[w |-> w] @@ buf[w][s]})
    /\ UNCHANGED <<pc, batch, avail, stranded, buf, counters, g_shutdown,
                   iocpOpen, sockOpen, arrived, nextId, postFailures, recvErrors,
                   lost>>

(* Kernel: an outstanding receive completes with an error and no data -    *)
(* on a UDP socket, an ICMP port-unreachable for an earlier echo surfaces  *)
(* as WSAECONNRESET on the next receive.  The buffer is not written, and   *)
(* the entry is dequeued like any other.                                   *)
RecvFailed(w) ==
    /\ sockOpen[w]
    /\ recvErrors[w] < MaxRecvErrors
    /\ \E c \in pending[w] \cap RecvCtxs :
         /\ pending' = [pending EXCEPT ![w] = @ \ {c}]
         /\ iocp' = [iocp EXCEPT ![w] = Append(@, [ctx |-> c, bytes |-> 0, ok |-> FALSE])]
    /\ recvErrors' = [recvErrors EXCEPT ![w] = @ + 1]
    /\ UNCHANGED <<pc, batch, avail, stranded, buf, counters, g_shutdown, iocpOpen,
                   sockOpen, arrived, echoed, nextId, postFailures, lost>>

(* Kernel: an outstanding send completes with an error (the route to the   *)
(* peer is gone, the stack ran out of buffers) and nothing goes on the     *)
(* wire.  The completion is queued with 0 bytes, and HandleSend, which     *)
(* never reads the status, recycles the context like a successful one.    *)
SendFailed(w, s) ==
    /\ s \in pending[w] \cap SendCtxs
    /\ Cardinality(lost) < MaxSendErrors
    /\ pending' = [pending EXCEPT ![w] = @ \ {s}]
    /\ iocp' = [iocp EXCEPT ![w] = Append(@, [ctx |-> s, bytes |-> 0, ok |-> FALSE])]
    /\ lost' = lost \cup {[w |-> w] @@ buf[w][s]}
    /\ UNCHANGED <<pc, batch, avail, stranded, buf, counters, g_shutdown, iocpOpen,
                   sockOpen, arrived, echoed, nextId, postFailures, recvErrors>>

-----------------------------------------------------------------------------
WorkerStep(w) == WorkerInit(w) \/ WorkerCheckFlag(w) \/ GetQueued(w)
                 \/ HandleEntry(w)

KernelStep(w) == \/ \E p \in Peers, len \in Lens : Arrive(w, p, len)
                 \/ \E s \in SendCtxs : SendComplete(w, s)
                 \/ RecvFailed(w)
                 \/ \E s \in SendCtxs : SendFailed(w, s)

(* The datapath in steady state: every worker constructed and started,     *)
(* the shutdown flag clear.                                                *)
Init ==
    /\ pc = [w \in Workers |-> "init"]
    /\ pending = [w \in Workers |-> {}]
    /\ iocp = [w \in Workers |-> <<>>]
    /\ batch = [w \in Workers |-> <<>>]
    /\ avail = [w \in Workers |-> <<>>]
    /\ stranded = [w \in Workers |-> {}]
    /\ buf = [w \in Workers |-> [c \in Ctxs |-> Blank]]
    /\ packets_received = [w \in Workers |-> 0]
    /\ packets_sent = [w \in Workers |-> 0]
    /\ bytes_received = [w \in Workers |-> 0]
    /\ bytes_sent = [w \in Workers |-> 0]
    /\ g_shutdown = FALSE
    /\ iocpOpen = [w \in Workers |-> TRUE]
    /\ sockOpen = [w \in Workers |-> TRUE]
    /\ arrived = {}
    /\ echoed = EmptyBag
    /\ nextId = 0
    /\ postFailures = 0
    /\ recvErrors = [w \in Workers |-> 0]
    /\ lost = {}

Next == \E w \in Workers : WorkerStep(w) \/ KernelStep(w)

(* Each worker thread is runnable whenever it is not blocked, and the     *)
(* kernel eventually transmits a posted UDP send.  Arrivals get no        *)
(* fairness: the network may fall silent at any time.                     *)
Fairness == \A w \in Workers :
              /\ WF_datapathVars(WorkerStep(w))
              /\ \A s \in SendCtxs : WF_datapathVars(SendComplete(w, s))

Spec == Init /\ [][Next]_datapathVars /\ Fairness

-----------------------------------------------------------------------------
(***************************************************************************)
(* Properties.                                                             *)
(***************************************************************************)
TypeOK ==
    /\ pc \in [Workers -> {"absent", "init", "top", "wait", "batch", "exited"}]
    /\ pending \in [Workers -> SUBSET Ctxs]
    /\ iocp \in [Workers -> Seq(Entry)]
    /\ batch \in [Workers -> Seq(Entry)]
    /\ avail \in [Workers -> Seq(SendCtxs)]
    /\ stranded \in [Workers -> SUBSET RecvCtxs]
    /\ buf \in [Workers -> [Ctxs -> Datagram \cup {Blank}]]
    /\ \A ctr \in {packets_received, packets_sent, bytes_received, bytes_sent} :
         ctr \in [Workers -> Nat]
    /\ g_shutdown \in BOOLEAN
    /\ iocpOpen \in [Workers -> BOOLEAN] /\ sockOpen \in [Workers -> BOOLEAN]
    /\ nextId \in 0..MaxArrivals /\ postFailures \in 0..MaxPostFailures
    /\ recvErrors \in [Workers -> 0..MaxRecvErrors]
    /\ lost \subseteq {[w |-> w] @@ d : w \in Workers, d \in Datagram}

\* How many times context c of worker w appears among the places it can be.
Occurrences(w, c) ==
    LET InSeq(q, f(_)) == Cardinality({i \in DOMAIN q : f(q[i]) = c})
    IN  (IF c \in pending[w] THEN 1 ELSE 0)
        + (IF c \in stranded[w] THEN 1 ELSE 0)
        + InSeq(iocp[w], LAMBDA x : x.ctx)
        + InSeq(batch[w], LAMBDA x : x.ctx)
        + InSeq(avail[w], LAMBDA x : x)

(* Spec P1 / global invariant 1, for the code as written: while a worker   *)
(* runs, each of its I/O contexts is in exactly one place - owned by the   *)
(* kernel, queued or dequeued as a completion, on the send free-list, or   *)
(* stranded by a failed post_recv.  A context lost by a receive/send       *)
(* completion path, or pushed to the free-list twice, breaks it.           *)
ContextConservation ==
    \A w \in Workers : Running(w) =>
        \A c \in Ctxs : Occurrences(w, c) = 1

\* Sends of worker w that the kernel still owns.
InFlightSends(w) == pending[w] \cap SendCtxs
\* Echoes of worker w already put on the wire, with multiplicity.
EchoesOf(w) == {e \in BagToSet(echoed) : e.w = w}
\* Echoes of worker w whose send the kernel failed.
LostOf(w) == {e \in lost : e.w = w}
\* Receive completions of worker w that the worker has not handled yet.
UnhandledRecvs(w) ==
    LET q == iocp[w] \o batch[w]
    IN  {i \in DOMAIN q : Operation(q[i].ctx) = "recv"}

(* Spec P5, strengthened: the four counters agree with what the kernel did.*)
(* packets_sent/bytes_sent count exactly the echoes on the wire plus the   *)
(* sends still outstanding and those the kernel failed (the counters are  *)
(* bumped when the send is posted); packets_received/bytes_received plus the       *)
(* receive completions not yet handled count exactly the datagrams the     *)
(* kernel delivered plus the receives that completed with an error (the    *)
(* worker never reads a completion's status).  Counting a failed           *)
(* post_send, or counting a receive in the wrong branch, breaks it.        *)
CountersMatchKernel ==
    \A w \in Workers :
      LET mine == {d \in arrived : d.w = w}
          q == iocp[w] \o batch[w]
      IN
      /\ packets_sent[w] = MapThenSumSet(LAMBDA e : CopiesIn(e, echoed), EchoesOf(w))
                           + Cardinality(InFlightSends(w)) + Cardinality(LostOf(w))
      /\ bytes_sent[w] = MapThenSumSet(LAMBDA e : CopiesIn(e, echoed) * e.len, EchoesOf(w))
                         + MapThenSumSet(LAMBDA s : buf[w][s].len, InFlightSends(w))
                         + MapThenSumSet(LAMBDA e : e.len, LostOf(w))
      /\ packets_received[w] + Cardinality(UnhandledRecvs(w))
           = Cardinality(mine) + recvErrors[w]
      /\ bytes_received[w] + MapThenSumSet(LAMBDA i : q[i].bytes, UnhandledRecvs(w))
           = MapThenSumSet(LAMBDA d : d.len, mine)

(* Spec P2 and P3: every echo on the wire, and every echo the kernel still *)
(* owns, is a non-empty datagram that worker received, sent back to the    *)
(* address it came from with its own length, and no datagram is echoed    *)
(* twice - although the receive context is re-posted (and refilled by the *)
(* kernel) while its echo is still outstanding.  An echo whose send failed *)
(* is such a datagram too, and is never also on the wire.                  *)
EchoFidelity ==
    /\ \A e \in BagToSet(echoed) : CopiesIn(e, echoed) = 1 /\ e \in arrived /\ e.len > 0
    /\ \A w \in Workers : \A s \in InFlightSends(w) :
         LET e == [w |-> w] @@ buf[w][s]
         IN  e \in arrived /\ e.len > 0 /\ CopiesIn(e, echoed) = 0 /\ e \notin lost
    /\ \A e \in lost : e \in arrived /\ e.len > 0 /\ CopiesIn(e, echoed) = 0

(* Once the network falls silent the worker drains its completion port and *)
(* every send context returns to available_send_contexts: the pool does not*)
(* shrink for good, whatever the order completions arrived in.             *)
SendPoolRestored ==
    <>[](\A w \in Workers : Running(w) =>
            /\ Len(avail[w]) = OUTSTANDING_OPS
            /\ iocp[w] = <<>> /\ batch[w] = <<>>)

\* Receive contexts of worker w that are posted or whose completion waits.
RecvDepth(w) ==
    Cardinality({c \in RecvCtxs : Occurrences(w, c) = 1 /\ c \notin stranded[w]})

(* Spec P1 and global invariant 3 as written: while a worker is not        *)
(* shutting down, OUTSTANDING_OPS receives are in the kernel or being      *)
(* handled.  worker_thread_func ignores the result of post_recv, so a      *)
(* failed post leaves the pipeline one receive shallower for good.         *)
RecvPipelineFull ==
    \A w \in Workers : Running(w) /\ ~g_shutdown => RecvDepth(w) = OUTSTANDING_OPS

(* Spec test 3 (and P5's reading of packets_received as datagrams): a     *)
(* worker never counts more packets received than datagrams the network   *)
(* delivered to it.  worker_thread_func counts every receive completion   *)
(* without reading its status, so a receive failed by an ICMP reset for   *)
(* an earlier echo is counted as a packet.                                 *)
PacketsAreDatagrams ==
    \A w \in Workers : packets_received[w] <= Cardinality({d \in arrived : d.w = w})

=============================================================================
