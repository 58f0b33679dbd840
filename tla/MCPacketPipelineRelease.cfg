SPECIFICATION Spec
CONSTANTS
    peerA = peerA
    peerB = peerB
    p1 = p1
    p2 = p2
    q1 = q1
    Peers = {peerA, peerB}
    Removable = {peerA}
    Packets <- MCPackets
    PeerOf <- MCPeerOf
    RxCalls <- MCRxCalls
    TxCalls <- MCTxCalls
    Producers = {t1, t2}
    Workers = {w1, w2}
    MAX_QUEUED_PACKETS = 1
    RingSize = 1
    RingBatch = 1
    PEER_XMIT_PACKETS_PER_ROUND = 1
    Nil = Nil
INVARIANT
    NoUseAfterRelease
CHECK_DEADLOCK FALSE
