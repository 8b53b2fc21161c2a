\* pending_queries_count against the pending queries targeting each server.
CONSTANTS
    Clients <- MCClients2
    Keys <- MCKeys1
    JumpSlot <- MCJumpSlot
    NServers = 1
    FailThreshold = 1
    MaxWaitingClients = 2
    LBMode = "Fallback"
    NoEntry = NoEntry
    NoServer = NoServer
    c1 = c1  c2 = c2  c3 = c3  k1 = k1  k2 = k2
SPECIFICATION Spec
INVARIANT PendingMatchesEntries
\* The client set is finite: once every query is settled nothing is left to do.
CHECK_DEADLOCK FALSE
