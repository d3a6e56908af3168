CONSTANTS
    p1 = p1
    p2 = p2
    none = none
    Peers <- MCPeers
    PeerFamily <- MCPeerFamily
    NoPeer <- none
    Lens <- MCLens
    Workers <- MCWorkers
    NumProcessors = 2
    RequestedCores = 0
    ConstructCanFail = TRUE
    OUTSTANDING_OPS = 1
    MaxArrivals = 2
    PortArgs = {0, 9000, 65536}
    MaxPostFailures = 0
    MaxRecvErrors = 0
    MaxSendErrors = 0

SPECIFICATION ServerSpec
INVARIANT ContextsOutliveKernelIo
