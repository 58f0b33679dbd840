SPECIFICATION MCSpec
CONSTANTS
    Parts = {"timers", "configuration", "sockets"}
    NetThreads = {n1}
    MAX_TIMER_HANDSHAKES = 1
    MaxInFlight = 1
    MaxCalls = 1
    MaxRequests = 1
    MaxEvents = 1
    Expiring = {"TimerRetransmitHandshake", "TimerSendKeepalive", "TimerNewHandshake", "TimerZeroKeyMaterial"}
    Intervals = {0}
    Faults = TRUE
    ip1 = ip1
    ip2 = ip2
    Requests <- MCRequests
    PublicKeys = {"k1", "k2", "k3"}
    AllowedAddresses = {ip1, ip2}
    ListenPorts = {1, 2}
    MAX_PEERS_PER_DEVICE = 2
    MAX_JUNK_COUNT = 1
    MAX_PREFIX_SIZE_DATA = 2
    MAXUSHORT = 7
    Sizeof <- MCSizeof
    AuthTagLen = 1
    MaxPlain = 4
    Absent = Absent
    Senders = {s1}
    Arrivals <- MCArrivals
    RemoteAddresses = {41}
    Family <- MCFamily
    Own = 3
    Tables <- MCTables
    Sockets = {4, 6, 7, 8}
    Transports = {4, 6}
    Ports = {1, 2}
    MaxRetries = 1
    MaxBinds = 1
    MaxSends = 2
    MaxPackets = 1
    NoSocket = 0
INVARIANTS
    CountsExact
    OwnKeyIsNoPeer
    GetRestoresSet
    MessagesRecognised
    SourceFits
    SocketsAlive
PROPERTY
    FallsSilent
CHECK_DEADLOCK FALSE
