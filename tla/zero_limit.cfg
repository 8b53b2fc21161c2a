\* max_waiting_clients = 0: the cap finds the table empty and nothing to
\* evict, so the first client is admitted past the limit.
CONSTANTS
    Clients <- MCClients2
    Keys <- MCKeys1
    JumpSlot <- MCJumpSlot
    NServers = 1
    FailThreshold = 1
    MaxWaitingClients = 0
    LBMode = "Fallback"
    NoEntry = NoEntry
    NoServer = NoServer
    c1 = c1  c2 = c2  c3 = c3  k1 = k1  k2 = k2
SPECIFICATION Spec

INVARIANT WaitingBounded
\* The client set is finite: once every query is settled nothing is left to do.
CHECK_DEADLOCK FALSE
