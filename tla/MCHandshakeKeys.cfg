SPECIFICATION HandshakeSpec
CONSTANTS
    Ends = {"a", "b"}
    HsWorkers = {w1, w2}
    MaxInitiations <- MCMaxInitiations
    MaxFresh = 4
    MaxTai = 2
    FloodInterval = 1
INVARIANT
    KeysUsedOnce
CHECK_DEADLOCK FALSE
