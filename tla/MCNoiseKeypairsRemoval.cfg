SPECIFICATION Spec
CONSTANTS
    t1 = t1
    t2 = t2
    d1 = d1
    k1 = k1
    k2 = k2
    k3 = k3
    Threads <- MCThreads
    Packets <- MCPackets
    Keypairs <- MCKeypairs
    Nil = Nil
SYMMETRY Symmetry
INVARIANT
    FreedPeerHasNoKeys
CHECK_DEADLOCK FALSE
