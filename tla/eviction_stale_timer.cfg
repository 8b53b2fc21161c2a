\* Eviction followed by a new query for the evicted key.
CONSTANTS
    Clients <- MCClients2
    Keys <- MCKeys1
    JumpSlot <- MCJumpSlot
    NServers = 2
    FailThreshold = 2
    MaxWaitingClients = 1
    LBMode = "Fallback"
    NoEntry = NoEntry
    NoServer = NoServer
    c1 = c1  c2 = c2  c3 = c3  k1 = k1  k2 = k2
SPECIFICATION Spec
INVARIANT AtMostTwoSends
\* The client set is finite: once every query is settled nothing is left to do.
CHECK_DEADLOCK FALSE
