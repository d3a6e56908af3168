# TLA+ model of WinUDPShardedEcho

This directory is a model-checking project for the sharded UDP echo server in
`src/src/server/main.cpp`. It holds TLA+ modules, TLC configurations, and
`PROJECT.json`. `PROJECT.json` lists the components, the runs, the mutants, the
map from definitions to source lines, the findings and the hazards.

## 1. Inventory

### Components

| component | code | state it keeps | operations |
|---|---|---|---|
| **Worker** (one per processor) | `worker_thread_func`, main.cpp:37-148 | `OUTSTANDING_OPS` receive contexts and `OUTSTANDING_OPS` send contexts (buffer, remote address, OVERLAPPED); the LIFO `available_send_contexts`; four atomic counters | allocates the pools and posts every receive; loops while `!g_shutdown`; dequeues up to `2*OUTSTANDING_OPS` completions with a timeout; for a receive it counts, maybe echoes, and re-posts; for a send it pushes the context back; on exit it prints the counters and frees the pools |
| **Supervisor** | `main`, main.cpp:159-360 | the `workers` vector (socket, IOCP handle, thread, counters per index) | picks the worker count; builds each index (socket, affinity, buffer sizes, bind, IOCP), skipping failed indices; exits 1 when none was built; starts the threads; polls `g_shutdown` once a second; closes every IOCP, joins every thread, closes every socket, then sums the counters |
| **Signal handler** | `signal_handler`, main.cpp:16-22 | `g_shutdown` (`std::atomic<bool>`) | SIGINT/SIGTERM store `true` |
| **Kernel socket + IOCP** | `post_recv`, `post_send`, `create_iocp_and_associate` in `common/socket_utils.hpp`. That file is not in the sources, so its behaviour is taken from the spec. | outstanding overlapped requests per socket; the completion queue per port | a posted receive is filled by an arriving datagram and queued as a completion; a posted send goes on the wire and is queued; a post may fail; `closesocket` aborts what is outstanding; a closed port handle makes the dequeue fail |
| Argument parsing | main.cpp:160-203, `ArgParser` (not in the sources) | port, cores, recvbuf | only the `--cores` to worker-count rule matters to the core |
| TDigest | `src/src/common/tdigest.hpp` | buffer, centroids, total weight | add, compress, merge, percentile, reset. The datapath does not use it. |
| Socket family | main.cpp:226-245 | IPv6 dual-stack, IPv6-only, or IPv4 per index | decides which clients an index can hear |

### How they interact

- The supervisor builds the workers and starts their threads. After that it
  interacts with them only through `g_shutdown`, `CloseHandle(iocp)` and
  `join`. It reads their counters only after the join.
- A worker shares nothing with other workers. It talks only to its own
  kernel socket and completion port: it posts requests, and the kernel
  completes them.
- Asynchrony comes from the kernel. Datagrams arrive and sends finish
  whenever the kernel decides. Completions queue on the port in completion
  order, and the worker takes them in batches.

### What is hard

- **Context ownership.** A context moves between the kernel, the completion
  queue, the dequeued batch, the free-list and, after a failed post, nowhere.
  A missing push, a double push or a lost entry leaks the pool or corrupts it.
- **Re-post while echoing.** The echo uses the receive buffer and peer
  address, and the receive context is re-posted while the echo is still in
  flight.
- **Partial failure.** `post_send` and `post_recv` can fail. Their failure
  paths differ, and the code ignores failures of `post_recv`.
- **Shutdown.** A signal can arrive at any point. A worker can be blocked in
  the dequeue or be in the middle of a batch when its port is closed. The
  teardown order (close the ports, join, close the sockets, read the
  counters) and each thread's exit decide whether the process terminates
  and whether it touches freed memory.

### Properties that make each component correct

- **Worker**
  - Every context is in exactly one place (spec P1, invariant 1).
  - The counters agree with what the kernel delivered and sent (spec P5,
    strengthened).
  - Every echo is a datagram that was received, goes back to its sender,
    is sent at most once, and is never empty (spec P2, P3).
  - The send pool refills once traffic stops.
- **Supervisor**
  - No worker uses a closed socket.
  - The totals are the final counters.
  - After the signal, the process exits (spec P6).
- **Kernel contract**
  - A context is freed only when the kernel no longer owns it. Windows
    requires an OVERLAPPED to stay valid until its request completes. Spec
    invariant 1 implies it, but spec 3 frees contexts at worker exit and
    closes the endpoint after the join, so the spec has the same flaw.

## 2. Plan

1. **`EchoDatapath`** (done). The workers' datapath and the kernel, in
   steady state. `MCEchoDatapath` checks it with one worker.
2. **`EchoServer`** (done). It EXTENDS `EchoDatapath` and adds the
   supervisor, the signal handler, the socket family of each index and the
   teardown. `MCEchoServer` checks it with two workers.
3. **`EchoService` and `EchoRefinement`** (done). The per-datagram promise
   of the service, and the refinement mapping under which the datapath
   implements it, fairness included.
4. **`TDigest`** (done). The estimator as a state machine over several
   digests, with `build_from` as a RECURSIVE fold and `std::sort` as every
   order an unstable sort can leave.
5. **Error completions** (done). `RecvFailed` is a receive that completes
   with an error and no data. It is checked in the `datapath` and
   `refinement` runs, and the `recv_error` run shows how it is counted.
   `SendFailed` is a send that completes with an error, so nothing goes on
   the wire. It maps to a `Lose` step that `EchoService` gained, because UDP
   may lose an accepted echo. The `datapath`, `server` and `refinement` runs
   allow one.
6. **Start-up and a larger server run** (done). `StartUp` covers `--help`,
   the port check and `WSAStartup`. The `server` run allows a failed post
   and a failed send. `ContextConservation` is not repeated there: no
   teardown step touches a running worker's contexts, so the `datapath` run
   already covers it. The isolation property
   (P7) is not stated: every action changes only its own worker's
   variables, so it would hold by the shape of the model.
7. **TDigest algebra** (partly done). `percentile` is checked to be
   monotone in q, as part of `PercentileCorrect`. "`merge` equals compressing
   the union" is not checked, because `merge` is defined as exactly that.

## 3. Modules and how they correspond to the code

### `EchoDatapath.tla`

The variables are functions over the `Workers` (processor ids):

- `pc` is where the thread is:
  - `init`: started, pools not yet allocated;
  - `top`: at `while (!g_shutdown.load())`;
  - `wait`: in `GetQueuedCompletionStatusEx`;
  - `batch`: in the `for` over the entries;
  - `exited`: returned, with the pools destroyed.
- Where each context is: `pending` (posted, owned by the kernel), `iocp`
  (queued completion entries), `batch` (dequeued entries not handled yet),
  `avail` (the send free-list, with the back of the vector as `Last`) and
  `stranded` (receive contexts whose `post_recv` failed).
- `buf` is the buffer and remote address of each context. A datagram is a
  record `[id, peer, len]`, and its id stands for the payload.
- `packets_received`, `packets_sent`, `bytes_received` and `bytes_sent` are
  the four counters.
- `g_shutdown`, `iocpOpen` and `sockOpen` are the flag and the two handles.
- History variables for the properties: `arrived` (every datagram the kernel
  delivered), `echoed` (a bag of the echoes on the wire), `nextId`, and
  `postFailures`, which is bounded, `recvErrors`, the receives of each
  worker that completed with an error, and `lost`, the echoes whose send
  completed with an error.

Actions:

| action | code |
|---|---|
| `WorkerInit` | allocation and initial `post_recv` loop (37-69). A subset of the posts fails. |
| `WorkerCheckFlag` | the loop test, and the exit that frees the pools (71, 139-148) |
| `GetQueued` | the batched dequeue (72-94). A closed handle or a timeout loops. Otherwise 1..`max_entries` entries are removed. |
| `HandleEntry` | one entry of the batch (96-138). It dispatches on `operation` to `HandleRecv` (105-133) or `HandleSend` (134-137). `HandleRecv` is one step: counting, pop, `post_send` (ok or failed, with the push-back), the drop when there is no send context, and the re-post (ok or stranded). |
| `Arrive`, `SendComplete` | the kernel, taken from the spec. A datagram fills any posted receive. A posted send goes on the wire with what it was posted with. Both queue a successful completion. |
| `RecvFailed` | the kernel. A posted receive completes with an error status and 0 bytes, for example `WSAECONNRESET` after an ICMP port-unreachable for an earlier echo. Its buffer is not written. A completion `Entry` carries its status in `ok`, which the worker never reads. |
| `SendFailed` | the kernel. A posted send completes with an error status and 0 bytes, and its echo is not put on the wire. `HandleSend` recycles the context all the same. |

`post_send` is modelled as copying the payload and peer into the send
context when it is called. The spec's "buffer copies" on the datapath say
so, and `WSASendTo` captures its destination address at the call.

### `EchoServer.tla`

`EchoServer` EXTENDS `EchoDatapath`. It adds `mainPc`, `nextIndex`,
`workers`, `joined`, `totals` and `family`. `family` is the socket each index
ended with: `dual`, `v6only`, `v4` or `none`.

| action | code |
|---|---|
| `StartUp` | 160-187 and 210-217. `--help` returns 0. `--port` is taken as the integer `std::atoi` makes of it (0 when absent), and outside 1..65535 it returns 1. A failed `WSAStartup` returns 1. |
| `ConstructWorker` | one iteration of the construction loop (222-300). The socket outcome is one of `SocketOutcomes` (226-245): IPv6 with `IPV6_V6ONLY` cleared; IPv6 whose `setsockopt` failed, which the code keeps and binds all the same; the IPv4 fallback; or none. Then bind and IOCP either succeed or the index is skipped with its socket closed. |
| `StartWorkers` | `workers.empty()`, then exit 1, or start the threads (302-313) |
| `WaitShutdown` | the 1-second poll of the flag (315-320) |
| `CloseIocps` | 322-327 |
| `JoinWorker` | in vector order, blocking until that thread has exited (329-334) |
| `CloseSockets` | 336-341. Aborts what is outstanding. |
| `PrintStats` | 343-356 |
| `SignalHandler` | 16-22 |
| `Terminated` | `main` returns |

`NumWorkers` is the `--cores` rule (189-196). The MC module derives
`Workers` from it. The server's kernel step `ServerKernelStep` is the
datapath's, except that a datagram reaches a socket only from a peer whose
family the socket hears (`Reaches`, spec 6). That is kernel behaviour, so it
is taken from the spec.

### `EchoService.tla` and `EchoRefinement.tla`

`EchoService` is the abstract promise of the service for each datagram. It
is taken from spec 2 and 4.2 (P2, P3). `status[d]` is one of:

- `none`;
- `queued`: received, not handled yet;
- `echoing`: an echo was handed to the endpoint;
- `echoed`;
- `dropped`.

`wire` is the bag of echoes sent. The actions are `Deliver`, `Accept` (only
non-empty datagrams), `Drop`, `Transmit` and `Lose`. `Transmit` puts the
datagram itself, with its sender and length, on the wire. `Lose` drops an
accepted echo without putting anything on the wire. Fairness: a queued
datagram is eventually handled, and an accepted echo is eventually sent
unless it is lost first. `Lose` itself has no fairness.

`EchoRefinement` EXTENDS `EchoDatapath` and maps its state to the service
with `INSTANCE EchoService WITH`. A delivered datagram is:

- `queued` while its receive completion is in the port or in the dequeued
  batch. The receive context keeps its buffer until it is re-posted.
- `echoing` while a posted send context holds its id.
- `echoed` once its echo is in the `echoed` bag.
- `dropped` otherwise. After `SendFailed`, its id is in no posted send
  and not in `echoed`, so the step maps to `Lose`.

`wire` is `echoed`. Every datapath step is one service step or a stutter.

### `TDigest.tla`

The variables are functions over a set of `Digests`:

- `buffer`: `buffer_`;
- `centroids`: `centroids_`, each an exact rational `[sum, w]` with
  mean = sum / w;
- `total_weight`: `total_weight_`;
- `samples`: a history of every raw value each digest stands for.

| definition | code |
|---|---|
| `Add` | `add` (50-53) |
| `Compress` | `compress` (59-77), including the early return |
| `Merge` | `merge` (84-107). Own centroids, own buffer, the other's centroids, the other's buffer. `o = d` is allowed. |
| `Reset` | `reset` (151-155) |
| `Init` | the constructor (40-43) |
| `SortedOrders` | `std::sort` by mean. It is not stable, so every order of equal-mean items is a nondeterministic choice. |
| `BuildFrom`, `Fold` | `build_from` (176-211). The merge test `cw + w <= max(1, 4*total/compression)` is cross-multiplied by `Compression`. |
| `Percentile(d, k)` | `percentile(k/4)` (112-146). It returns the item whose mean the code returns, or `NaN`. |

Doubles are replaced by exact rationals. For the small integer samples
checked, the only inexact values in the code are merged means, and rounding
could only reorder means that differ by an ulp.

## 4. Runs

| run | cfg | expect | what it shows |
|---|---|---|---|
| `datapath` | `MCEchoDatapath.cfg` | pass | One worker. `OUTSTANDING_OPS = 2`, three datagrams from two peers with length 0 or 1, and at most one failed post. See the list below. |
| `server` | `MCEchoServer.cfg` | pass | Two processors with `--cores 0`, so two workers. Each index may end with any socket outcome or fail to build. `OUTSTANDING_OPS = 1`, two datagrams from an IPv4 and an IPv6 client, one failed post, one failed send, and the signal at any moment. See the list below. |
| `recv_depth` | `MCEchoDatapath_depth.cfg` | violation | Spec P1 / invariant 3 as written (`RecvPipelineFull`) fails after one failed `post_recv`. |
| `context_lifetime` | `MCEchoServer_lifetime.cfg` | violation | `ContextsOutliveKernelIo` fails: a worker exits, and so frees its contexts, with receives still posted. |
| `refinement` | `MCEchoRefinement.cfg` | pass | The `datapath` instance implements `EchoService!Spec`, including its fairness (`ServiceSpec`). |
| `recv_error` | `MCEchoDatapath_errors.cfg` | violation | `PacketsAreDatagrams` fails: a receive that completed with an error is counted as a received packet. |
| `dual_stack` | `MCEchoServer_dualstack.cfg` | violation | `IPv4Served` fails: every index that got a socket kept an IPv6 socket whose `IPV6_V6ONLY` `setsockopt` failed, so no IPv4 client is served. |
| `tdigest` | `MCTDigest.cfg` | pass | Two digests, values {1, 2, 3}, `Compression = 8`, at most 4 `add` and 2 `merge` calls, with `compress` and `reset` anywhere. See the list below. |

The `datapath` run checks these properties:

- `ContextConservation`: no context is lost or duplicated through any
  interleaving of receive and send completions, a dry free-list, partial
  batches, or a failed post.
- `CountersMatchKernel`: the counters equal what the kernel delivered and
  transmitted, plus the receives and sends it failed.
- `EchoFidelity`: each echo is a received non-empty datagram, sent back to
  its own sender once. An echo whose send failed is never also on the wire.
- `SendPoolRestored`: the send pool refills after traffic stops, failed
  sends included.

The `server` run checks these properties:

- `SocketOutlivesWorker`: no thread runs on a closed socket.
- `StatsAreFinal`: the printed totals equal the final counters.
- `ShutdownCompletes`: the flag being set leads to main returning.

The `tdigest` run checks these properties:

- `MassConserved`: after any call sequence, `total_weight_` is the number of
  samples, and centroids plus buffer carry exactly their count and sum.
- `CentroidsSorted`: `centroids_` stays sorted by mean. `percentile` relies
  on this, because it sorts only when the buffer is non-empty.
- `PercentileCorrect`: the result is NaN exactly when the digest is empty.
  Otherwise it lies within the sample range and never decreases as q grows.
  While no centroid has absorbed a point, it is the exact nearest-rank
  quantile.

### Findings

1. **Use after free at shutdown (main.cpp:148).** `worker_thread_func`
   returns, which destroys the `io_context` vectors, while every receive
   that has not completed is still posted. The socket is closed only at
   line 339, after all joins. So the OVERLAPPED headers and buffers are
   released while the kernel still owns them. In the window before
   `closesocket`, a datagram arrival writes into freed memory, and so does
   the abort that `closesocket` causes. TLC finds it in 7 steps: build,
   start, signal, the worker posts and exits. Spec 3 does not prevent it:
   it also frees contexts at worker exit and closes the endpoint only after
   the join.
2. **Receive depth (main.cpp:133, also 63 and 118).** A failed `post_recv`
   strands its context for good. Spec P1 and invariant 3 state that the
   depth is always `OUTSTANDING_OPS`. Spec 4.2 accepts the shrinkage. The
   code follows 4.2.
3. **Silent IPv6-only endpoints (main.cpp:239).** When
   `setsockopt(IPV6_V6ONLY, 0)` fails, both branches set `using_ipv6 = true`.
   The IPv6 socket is bound anyway, and the IPv4 fallback is never tried. If
   that happens on every index, the server runs and answers no IPv4 client.
   Spec 6 promises both families, and its design note asks that such a
   socket be treated, and logged, as single-stack.
4. **Failed receives counted as packets (main.cpp:107).** The worker never
   reads a completion's status. On a Windows UDP socket, an ICMP
   port-unreachable for an earlier echo (the client has gone) completes the
   next receive with `WSAECONNRESET`. That completion is counted in
   `packets_received` and the receive is re-posted. Spec test 3 expects
   `packets_received` to be at most the number of datagrams sent. This
   assumes `common/socket_utils.hpp`, which is not among the sources, does
   not turn the behaviour off with `SIO_UDP_CONNRESET`.
   `CountersMatchKernel` states the counters the code actually keeps.
   `ServiceSpec` shows that the stale buffer of such a context is never
   echoed.

### Bounds and why they are enough

- **`datapath`.**
  - With two send contexts and three datagrams, the free-list runs dry:
    two echoes are in flight when the third datagram arrives.
  - A batch can hold a mix of receive and send completions, and a dequeue
    can take fewer entries than are queued.
  - A receive context is refilled while its echo is still in flight.
  - Lengths {0, 1} cover both sides of the `bytes_transferred > 0` test.
  - One post failure reaches both failure paths: the push-back and the
    stranded receive.
  - One failed receive lands among the real ones, on a context whose buffer
    still holds an earlier datagram.
  - One failed send: a context returns to the pool through the error path
    while another echo is in flight. The run has 980,561 states and takes
    about 60 s. `refinement` uses two datagrams, to stay within the time
    limit for its liveness check.
- **`server`.**
  - Two workers let one worker build while the other is skipped.
  - One worker can be mid-batch while the other is already exited.
  - The signal can land in every phase of `main`.
  - Ports {0, 9000, 65536} cover an absent port, a valid port and one out
    of range.
  - One IPv4 and one IPv6 peer, so each socket outcome decides what a
    worker can hear.
  - One failed send, so teardown also meets a context recycled through an
    error completion. 519,236 states, in about 55 s.
- **`tdigest`.**
  - With `Compression = 8`, the limit `max(1, 4*total/8)` is 1 up to a
    total of 3. So a few `add` calls keep every point apart, which is the
    case the exact-quantile check covers.
  - Totals of 4 to 16, reached through merges and self-merges, let
    centroids absorb points and build weights of 2 and more.
  - Values {1, 2, 3} give equal means from different items, for example
    `[2,1]` and `[4,2]`, so the unstable sort matters.
  - 163,320 states, in about 40 s.

### Fairness

- **Worker threads.** `WF` on each worker's steps. A thread is never
  blocked indefinitely: the dequeue has a timeout and fails at once on a
  closed handle.
- **Main thread.** `WF` on its steps. `sleep_for` returns.
- **Faults.** `RecvFailed` and `SendFailed` get no fairness.
- **Kernel sends.** `WF` on `SendComplete`: a posted UDP send is
  eventually transmitted.
- **Refinement.** The service's fairness is not assumed in the `refinement`
  run. It follows from the fairness above: a worker always comes back to
  its dequeue, and a posted send is transmitted.
- **No fairness:**
  - on arrivals: clients may stop sending at any time;
  - on the signal: nobody has to stop the server.

## 5. Not modelled

- Logging and console output.
- Thread and socket affinity: hints with no effect on correctness.
- `SO_RCVBUF` / `SO_SNDBUF`.
- How the kernel steers datagrams among the sockets bound to the port (RSS
  hashing). Any worker whose socket hears a peer's family may receive its
  datagrams.
- `--recvbuf` parsing. It only feeds the buffer-size `setsockopt` calls.
  `ArgParser` itself is not among the sources.
- Byte content of payloads: a datagram's id stands for it.
- Overflow of the 64-bit counters: unreachable in practice.
- `TDigest` double rounding (see its section), and concurrent use of a
  digest. The header requires callers to synchronise, and nothing in the
  server uses it.
