SPECIFICATION MCSpec
CONSTANTS
    Parts = {"pipeline", "packet queue", "pointer ring", "work queue", "log reader"}
    peerA = peerA
    peerB = peerB
    p1 = p1
    p2 = p2
    q1 = q1
    Peers = {peerA, peerB}
    Removable = {peerA}
    Packets <- MCPackets
    PeerOf <- MCPeerOf
    RxCalls <- MCRxCalls
    TxCalls <- MCTxCalls
    Producers = {t1, t2}
    Workers = {w1, w2}
    MAX_QUEUED_PACKETS = 1
    RingSize = 1
    RingBatch = 1
    PEER_XMIT_PACKETS_PER_ROUND = 1
    Nil = Nil
    Enqueuers = {t1, t2, t3}
    Nbls = {k1, k2, k3}
    MaxQueued = 2
    Stub = Stub
    NULL = NULL
    RingItems = {x1, x2, x3}
    Size = 5
    CacheBatch = 2
    Null = Null
    Processors = {c1, c2, c3}
    MaxItems = 2
    MaxReopens = 2
    MaxChanges = 4
INVARIANTS
    SingleConsumer
    InOrder
    ReferencesExact
    RingIsFifo
    NoWorkForgotten
PROPERTIES
    EveryPacketLeaves
    RemovalCompletes
    ImplementsFifo
    EveryPacketPeeked
    DestroyEnds
    CloseReturns
CHECK_DEADLOCK FALSE
