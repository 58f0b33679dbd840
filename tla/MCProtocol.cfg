SPECIFICATION MCSpec
CONSTANTS
    Parts = {"adapters", "handshake", "cookies", "rate limiter", "allowed IPs", "RCU", "log ring",
             "bring-up", "NSI filter"}
    p1 = p1
    p2 = p2
    Processes = {p1, p2}
    Instances = {i1, i2}
    Versions = {1, 2}
    OurVersion <- MCOurVersion
    MaxCalls <- MCCalls
    MaxKills = 1
    Nobody = Nobody
    Ends = {"a", "b"}
    k1 = k1
    k2 = k2
    HsWorkers <- MCPair
    MaxInitiations <- MCMaxInitiations
    MaxFresh = 5
    MaxTai = 2
    FloodInterval = 0
    Addresses = {a1, a2}
    RxWorkers <- MCPair
    CookieWorkers = {c1}
    MaxMessages = 2
    MaxClock = 2
    MaxDowns = 1
    RingSize = 2
    LoadThreshold = 1
    COOKIE_SECRET_MAX_AGE = 2
    COOKIE_SECRET_LATENCY = 1
    Null = Null
    Table <- MCTable
    Callers <- MCPair
    Entries = {1, 2, 3}
    MAX_ENTRIES = 2
    PACKETS_BURSTABLE = 1
    PACKET_COST = 1
    SYS_TIME_UNITS_PER_SEC = 1
    MaxTime = 2
    TimeSpace = 16
    NoEntry = 0
    Bits = 2
    Nodes = {1, 2, 3}
    Owners <- MCPair
    LookedUp = {0}
    AtDispatchLevel = TRUE
    Given <- MCGiven
    Readers = {r}
    NULL = NULL
    Processors <- MCPair
    Objects = {o1, o2, o3}
    Barriers = {b1, unload}
    Unloader = unload
    Nothing = Nothing
    Writers <- MCPair
    LogReaders = {r1, r2}
    BUFFERED_LOG_ENTRIES = 3
    RATELIMIT_BURST = 1
    MaxLines = 3
    MaxIntervals = 1
    Devices <- MCPair
    Driver = driver
    MaxFailures = 1
    Adapters <- MCPair
    Watchers = {t1, t2}
    MtuRequests = {0, 2, 4}
    MTU_MAX = 3
    DefaultMtu = 1
    NoThread = NoThread
SYMMETRY Symmetry
VIEW View
INVARIANTS
    InUseSurvives
    NoMutexCycle
    SessionsAgree
    KeysRepeatOnlyRenewed
    StaleInitiationsRefused
    CookieProvesAddress
    LoadCounted
    EntriesCounted
    TrieIsTable
    LookupHonest
    GracePeriod
    UnloadComplete
    ReaderAwake
    Unwound
    FilterSound
CHECK_DEADLOCK FALSE
