SPECIFICATION Spec
CONSTANTS
    Table <- MCTable
    Callers = {"DriverEntry"}
    Tester = "DriverEntry"
    Entries <- MCEntries
    MAX_ENTRIES = 18
    PACKETS_BURSTABLE = 2
    PACKET_COST = 3
    SYS_TIME_UNITS_PER_SEC = 60
    MaxTime = 2
    TimeSpace = 1000
    TRIALS_BEFORE_GIVING_UP = 1
    NoEntry = 0
INVARIANTS
    TimingsHold
CHECK_DEADLOCK FALSE
