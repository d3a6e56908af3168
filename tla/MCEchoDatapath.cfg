CONSTANTS
    p1 = p1
    p2 = p2
    none = none
    Workers <- MCWorkers
    Peers <- MCPeers
    NoPeer <- none
    Lens <- MCLens
    OUTSTANDING_OPS = 2
    MaxArrivals = 3
    MaxPostFailures = 1
    MaxRecvErrors = 1
    MaxSendErrors = 1

SPECIFICATION Spec
INVARIANT TypeOK
INVARIANT ContextConservation
INVARIANT CountersMatchKernel
INVARIANT EchoFidelity
PROPERTY SendPoolRestored
