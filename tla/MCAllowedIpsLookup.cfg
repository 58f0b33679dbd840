SPECIFICATION MCAllowedIpsSpec
CONSTANTS
    Bits = 2
    Nodes = {1, 2, 3}
    Owners = {p, q}
    LookedUp = {0}
    AtDispatchLevel = FALSE
    Given <- MCGiven
    Readers = {r}
    NULL = NULL
INVARIANT
    HeldWhileWalked
CHECK_DEADLOCK FALSE
