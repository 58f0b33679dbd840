SPECIFICATION Spec
CONSTANTS
    NetThreads = {n1}
    MAX_TIMER_HANDSHAKES = 0
    MaxInFlight = 1
    MaxCalls = 1
    MaxRequests = 0
    MaxEvents = 1
    Expiring = {"TimerRetransmitHandshake", "TimerSendKeepalive", "TimerNewHandshake", "TimerZeroKeyMaterial"}
    Intervals = {0}
    Faults = TRUE
INVARIANT
    ZeroingNotForgotten
CHECK_DEADLOCK FALSE
