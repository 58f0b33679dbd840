SPECIFICATION FairSpec
CONSTANTS
    NetThreads = {n1}
    MAX_TIMER_HANDSHAKES = 0
    MaxInFlight = 1
    MaxCalls = 1
    MaxRequests = 0
    MaxEvents = 1
    Expiring = {"TimerRetransmitHandshake", "TimerPersistentKeepalive"}
    Intervals = {0, 1}
    Faults = FALSE
PROPERTY
    KeepaliveRecurs
CHECK_DEADLOCK FALSE
