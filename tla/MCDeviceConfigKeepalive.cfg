SPECIFICATION DeviceConfigSpec
CONSTANTS
    ip1 = ip1
    ip2 = ip2
    Requests <- MCRequests
    PublicKeys = {"k1", "k2", "k3"}
    AllowedAddresses = {ip1, ip2}
    ListenPorts = {1, 2}
    MAX_PEERS_PER_DEVICE = 2
    MAX_JUNK_COUNT = 1
    MAX_PREFIX_SIZE_DATA = 2
    MAXUSHORT = 7
    Sizeof <- MCSizeof
    AuthTagLen = 1
    MaxPlain = 4
    Absent = Absent
INVARIANT
    KeepalivesRecognised
CHECK_DEADLOCK FALSE
