----------------------------- MODULE EchoServer -----------------------------
(***************************************************************************)
(* The whole process (src/src/server/main.cpp, main and signal_handler):   *)
(* the supervisor builds one worker per processor index, starts the        *)
(* threads, sleeps until SIGINT/SIGTERM sets g_shutdown, then closes every *)
(* completion port, joins every thread, closes every socket and sums the   *)
(* counters.  The workers and the kernel are those of EchoDatapath.        *)
(***************************************************************************)
EXTENDS EchoDatapath

CONSTANTS
    NumProcessors,     \* get_processor_count()
    RequestedCores,    \* --cores, after std::atoi
    ConstructCanFail,  \* whether socket/bind/IOCP creation may fail
    PeerFamily,        \* address family ("v4" or "v6") of each peer
    PortArgs           \* what std::atoi makes of --port (0 when it is absent)

VARIABLES
    mainPc,       \* "start" "construct" "wait" "closeIocp" "join"
                  \* "closeSockets" "stats" "done" "exit1" "exit0"
    nextIndex,    \* the loop index i of the construction loop
    workers,      \* indices whose worker_context was pushed into `workers`
    joined,       \* workers whose thread main has joined
    totals,       \* total_recv, total_sent, total_bytes_recv, total_bytes_sent
    family        \* socket of each index: "dual" "v6only" "v4" or "none"

serverVars == <<mainPc, nextIndex, workers, joined, totals, family>>
vars == <<datapathVars, serverVars>>

(* num_workers: --cores is used only when it is in 1..num_processors,      *)
(* otherwise every processor gets a worker.                                *)
NumWorkers(requested, nprocs) ==
    IF requested > 0 /\ requested <= nprocs THEN requested ELSE nprocs

ASSUME Workers = 0..(NumWorkers(RequestedCores, NumProcessors) - 1)
ASSUME PortArgs \subseteq Int

\* The states in which main has returned.
Exited == {"done", "exit1", "exit0"}

(* main up to the construction loop: --help prints the usage and returns   *)
(* 0; an absent or out-of-range --port returns 1; so does a failed         *)
(* WSAStartup.  Then the signal handlers are installed.                    *)
StartUp ==
    /\ mainPc = "start"
    /\ \E help, wsaOk \in BOOLEAN, port \in PortArgs :
         mainPc' = CASE help                  -> "exit0"
                     [] port \notin 1..65535   -> "exit1"
                     [] ~wsaOk                -> "exit1"
                     [] OTHER                 -> "construct"
    /\ UNCHANGED <<datapathVars, nextIndex, workers, joined, totals, family>>

(* The socket a construction attempt ends with: AF_INET6 with IPV6_V6ONLY  *)
(* cleared; AF_INET6 whose setsockopt failed (the code goes on with it     *)
(* and binds in6addr_any all the same); the AF_INET fallback when the      *)
(* IPv6 socket cannot be created; or none when both creations fail.        *)
SocketOutcomes ==
    IF ConstructCanFail THEN {"dual", "v6only", "v4", "none"} ELSE {"dual"}

(* Which peers a bound socket of family fam hears from: a dual-stack       *)
(* socket both families (IPv4 as mapped addresses), the others their own.  *)
Reaches(fam, p) ==
    \/ fam = "dual"
    \/ fam = "v6only" /\ PeerFamily[p] = "v6"
    \/ fam = "v4" /\ PeerFamily[p] = "v4"

-----------------------------------------------------------------------------
\* Mutant: the construction loop runs for i <= num_workers.
ConstructWorker_offByOne ==
    /\ mainPc = "construct"
    /\ nextIndex \in 0..Cardinality(Workers)
    /\ \E fam \in SocketOutcomes, bound \in IF ConstructCanFail THEN BOOLEAN ELSE {TRUE} :
         LET ok == fam # "none" /\ bound IN
         /\ workers' = IF ok THEN workers \cup {nextIndex} ELSE workers
         /\ sockOpen' = [sockOpen EXCEPT ![nextIndex] = ok]
         /\ iocpOpen' = [iocpOpen EXCEPT ![nextIndex] = ok]
         /\ family' = [family EXCEPT ![nextIndex] = IF ok THEN fam ELSE "none"]
    /\ nextIndex' = nextIndex + 1
    /\ UNCHANGED <<pc, pending, iocp, batch, avail, stranded, buf, counters,
                   g_shutdown, history, postFailures, mainPc, joined, totals>>

(* One iteration of the construction loop for index i: create the socket   *)
(* (IPv6 dual-stack, else IPv4), set affinity and buffer sizes (warnings   *)
(* only), bind, create and associate the IOCP.  A failure to create the    *)
(* socket skips the index; a failed bind or IOCP closes the socket and     *)
(* skips it.  Only a fully built worker keeps an open socket and IOCP.     *)
ConstructWorker ==
    /\ mainPc = "construct"
    /\ nextIndex \in Workers
    /\ \E fam \in SocketOutcomes, bound \in IF ConstructCanFail THEN BOOLEAN ELSE {TRUE} :
         LET ok == fam # "none" /\ bound IN
         /\ workers' = IF ok THEN workers \cup {nextIndex} ELSE workers
         /\ sockOpen' = [sockOpen EXCEPT ![nextIndex] = ok]
         /\ iocpOpen' = [iocpOpen EXCEPT ![nextIndex] = ok]
         /\ family' = [family EXCEPT ![nextIndex] = IF ok THEN fam ELSE "none"]
    /\ nextIndex' = nextIndex + 1
    /\ UNCHANGED <<pc, pending, iocp, batch, avail, stranded, buf, counters,
                   g_shutdown, history, postFailures, mainPc, joined, totals>>

(* After the loop: no worker is fatal (exit code 1); otherwise start one   *)
(* thread per worker.                                                      *)
StartWorkers ==
    /\ mainPc = "construct"
    /\ nextIndex \notin Workers
    /\ IF workers = {}
       THEN /\ mainPc' = "exit1"
            /\ UNCHANGED pc
       ELSE /\ mainPc' = "wait"
            /\ pc' = [w \in Workers |-> IF w \in workers THEN "init" ELSE pc[w]]
    /\ UNCHANGED <<pending, iocp, batch, avail, stranded, buf, counters,
                   g_shutdown, iocpOpen, sockOpen, history, postFailures,
                   nextIndex, workers, joined, totals, family>>

(* while (!g_shutdown.load()) sleep_for(1s).                               *)
WaitShutdown ==
    /\ mainPc = "wait"
    /\ mainPc' = IF g_shutdown THEN "closeIocp" ELSE "wait"
    /\ UNCHANGED <<datapathVars, nextIndex, workers, joined, totals, family>>

\* Mutant: the sockets are closed together with the completion ports,
\* before the threads are joined.
CloseIocps_andSockets ==
    /\ mainPc = "closeIocp"
    /\ iocpOpen' = [w \in Workers |-> IF w \in workers THEN FALSE ELSE iocpOpen[w]]
    /\ sockOpen' = [w \in Workers |-> IF w \in workers THEN FALSE ELSE sockOpen[w]]
    /\ pending' = [w \in Workers |-> IF w \in workers THEN {} ELSE pending[w]]
    /\ mainPc' = "join"
    /\ UNCHANGED <<pc, iocp, batch, avail, stranded, buf, counters,
                   g_shutdown, history, postFailures,
                   nextIndex, workers, joined, totals, family>>

(* CloseHandle on every worker's completion port.                          *)
CloseIocps ==
    /\ mainPc = "closeIocp"
    /\ iocpOpen' = [w \in Workers |-> IF w \in workers THEN FALSE ELSE iocpOpen[w]]
    /\ mainPc' = "join"
    /\ UNCHANGED <<pc, pending, iocp, batch, avail, stranded, buf, counters,
                   g_shutdown, sockOpen, history, postFailures,
                   nextIndex, workers, joined, totals, family>>

\* Mutant: the thread is detached instead of joined.
JoinWorker_detach(w) ==
    /\ mainPc = "join"
    /\ w = Min(workers \ joined)
    /\ joined' = joined \cup {w}
    /\ mainPc' = IF joined' = workers THEN "closeSockets" ELSE "join"
    /\ UNCHANGED <<datapathVars, nextIndex, workers, totals, family>>

(* worker_thread.join(), in the order of the vector: blocks until that     *)
(* thread has returned.                                                    *)
JoinWorker(w) ==
    /\ mainPc = "join"
    /\ w = Min(workers \ joined)
    /\ pc[w] = "exited"
    /\ joined' = joined \cup {w}
    /\ mainPc' = IF joined' = workers THEN "closeSockets" ELSE "join"
    /\ UNCHANGED <<datapathVars, nextIndex, workers, totals, family>>

(* closesocket on every worker's socket.  The kernel aborts the requests   *)
(* still outstanding on it and writes their status into their contexts.   *)
CloseSockets ==
    /\ mainPc = "closeSockets"
    /\ sockOpen' = [w \in Workers |-> IF w \in workers THEN FALSE ELSE sockOpen[w]]
    /\ pending' = [w \in Workers |-> IF w \in workers THEN {} ELSE pending[w]]
    /\ mainPc' = "stats"
    /\ UNCHANGED <<pc, iocp, batch, avail, stranded, buf, counters, g_shutdown,
                   iocpOpen, history, postFailures, nextIndex, workers,
                   joined, totals, family>>

\* The sum of one counter over the constructed workers.
Total(ctr) == MapThenSumSet(LAMBDA w : ctr[w], workers)

(* Sum the four counters over the workers and print them.                  *)
PrintStats ==
    /\ mainPc = "stats"
    /\ totals' = [recv |-> Total(packets_received), sent |-> Total(packets_sent),
                  bytes_recv |-> Total(bytes_received),
                  bytes_sent |-> Total(bytes_sent)]
    /\ mainPc' = "done"
    /\ UNCHANGED <<datapathVars, nextIndex, workers, joined, family>>

(* signal_handler: SIGINT or SIGTERM stores true into g_shutdown.  The     *)
(* handler is installed after start-up, before any worker is built; a      *)
(* signal before that ends the process by its default action.              *)
SignalHandler ==
    /\ ~g_shutdown
    /\ mainPc \notin {"start"} \cup Exited
    /\ g_shutdown' = TRUE
    /\ UNCHANGED <<pc, pending, iocp, batch, avail, stranded, buf, counters,
                   iocpOpen, sockOpen, history, postFailures, serverVars>>

\* The process has returned from main.
Terminated ==
    /\ mainPc \in Exited
    /\ UNCHANGED vars

MainStep == StartUp \/ ConstructWorker \/ StartWorkers \/ WaitShutdown \/ CloseIocps
            \/ (\E w \in Workers : JoinWorker(w)) \/ CloseSockets \/ PrintStats

(* The kernel of EchoDatapath, where a datagram reaches a worker's socket  *)
(* only from a peer of a family that socket was bound for.                *)
ServerKernelStep(w) ==
    \/ \E p \in Peers, len \in Lens : Reaches(family[w], p) /\ Arrive(w, p, len)
    \/ \E s \in SendCtxs : SendComplete(w, s)
    \/ RecvFailed(w)
    \/ \E s \in SendCtxs : SendFailed(w, s)

ServerInit ==
    /\ pc = [w \in Workers |-> "absent"]
    /\ pending = [w \in Workers |-> {}]
    /\ iocp = [w \in Workers |-> <<>>]
    /\ batch = [w \in Workers |-> <<>>]
    /\ avail = [w \in Workers |-> <<>>]
    /\ stranded = [w \in Workers |-> {}]
    /\ buf = [w \in Workers |-> [c \in Ctxs |-> Blank]]
    /\ packets_received = [w \in Workers |-> 0]
    /\ packets_sent = [w \in Workers |-> 0]
    /\ bytes_received = [w \in Workers |-> 0]
    /\ bytes_sent = [w \in Workers |-> 0]
    /\ g_shutdown = FALSE
    /\ iocpOpen = [w \in Workers |-> FALSE]
    /\ sockOpen = [w \in Workers |-> FALSE]
    /\ arrived = {}
    /\ echoed = EmptyBag
    /\ nextId = 0
    /\ postFailures = 0
    /\ recvErrors = [w \in Workers |-> 0]
    /\ lost = {}
    /\ mainPc = "start"
    /\ nextIndex = 0
    /\ workers = {}
    /\ joined = {}
    /\ totals = [recv |-> 0, sent |-> 0, bytes_recv |-> 0, bytes_sent |-> 0]
    /\ family = [w \in Workers |-> "none"]

ServerNext ==
    \/ MainStep
    \/ SignalHandler
    \/ \E w \in Workers : (WorkerStep(w) \/ ServerKernelStep(w)) /\ UNCHANGED serverVars
    \/ Terminated

(* The main thread and every worker thread are scheduled whenever they can *)
(* run; sleep_for and the bounded GetQueuedCompletionStatusEx wait always  *)
(* return.  The signal is not fair: nobody has to stop the server.         *)
ServerFairness ==
    /\ WF_vars(MainStep)
    /\ \A w \in Workers : WF_vars(WorkerStep(w) /\ UNCHANGED serverVars)

ServerSpec == ServerInit /\ [][ServerNext]_vars /\ ServerFairness

-----------------------------------------------------------------------------
(***************************************************************************)
(* Properties.                                                             *)
(***************************************************************************)
ServerTypeOK ==
    /\ TypeOK
    /\ mainPc \in {"start", "construct", "wait", "closeIocp", "join",
                   "closeSockets", "stats"} \cup Exited
    /\ nextIndex \in 0..Cardinality(Workers)
    /\ workers \subseteq Workers /\ joined \subseteq workers
    /\ totals \in [{"recv", "sent", "bytes_recv", "bytes_sent"} -> Nat]
    /\ family \in [Workers -> {"dual", "v6only", "v4", "none"}]

(* Spec 4.1 teardown order: a worker thread only touches a socket that is  *)
(* still open - sockets are closed only after every thread has been       *)
(* joined, even though a thread may be in the middle of a batch (posting  *)
(* sends and receives) when the completion ports are closed.              *)
SocketOutlivesWorker ==
    \A w \in Workers : pc[w] \in {"init", "top", "wait", "batch"} => sockOpen[w]

(* Spec 5: the statistics printed at shutdown are the workers' final       *)
(* counters - they are read after the join, so no worker adds to a counter *)
(* after the totals were taken.                                            *)
StatsAreFinal ==
    mainPc = "done" =>
        totals = [recv |-> Total(packets_received), sent |-> Total(packets_sent),
                  bytes_recv |-> Total(bytes_received),
                  bytes_sent |-> Total(bytes_sent)]

(* Spec P6: once SIGINT/SIGTERM has set g_shutdown, main returns - every   *)
(* worker leaves its loop (woken by the closed completion port or by the   *)
(* dequeue timeout), is joined, and the process exits.                     *)
ShutdownCompletes ==
    g_shutdown ~> (mainPc \in Exited)

(* The OVERLAPPED contract of Windows (and spec global invariant 1): a    *)
(* context is freed only when the kernel no longer owns it.  Spec 3 frees  *)
(* contexts at worker exit too.  worker_thread_func returns,               *)
(* destroying recv_contexts and send_contexts, while its receives are      *)
(* still posted on a socket that main closes only after the join.          *)
ContextsOutliveKernelIo ==
    \A w \in Workers : pc[w] = "exited" => pending[w] = {}

(* Spec 6 (network model) and test 4: the server answers clients of both  *)
(* families - while main waits for the signal, some worker's socket hears *)
(* IPv4 peers.  The construction loop keeps an IPv6 socket whose          *)
(* IPV6_V6ONLY setsockopt failed and never tries the IPv4 fallback then.  *)
IPv4Served ==
    mainPc = "wait" => \E w \in workers : family[w] \in {"dual", "v4"}

=============================================================================
