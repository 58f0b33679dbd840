SPECIFICATION MCSpec
CONSTANTS
    Parts = {"keypairs", "replay window", "timers"}
    t1 = t1
    t2 = t2
    k1 = k1
    k2 = k2
    k3 = k3
    Threads <- MCThreads
    Packets = {d1}
    Keypairs <- MCKeypairs
    Nil = Nil
    WordBits = 2
    Words = 2
    Modulus = 11
    ReplayBuffers <- MCThreads
    None = None
    Timers = {timer1}
    Callers <- MCThreads
    Cpus = {c1}
    Config = Config
    NoTimer = NoTimer
SYMMETRY Symmetry
INVARIANTS
    KeyConfirmed
    RefcountExact
    BitmapExact
    PendingIsHonest
    ReleasedPeerIsQuiet
PROPERTIES
    KeysOnlyAge
    ImplementsFilter
CHECK_DEADLOCK FALSE
