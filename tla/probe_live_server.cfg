\* Probes sent while every configured server is live.
CONSTANTS
    Clients <- MCClients2
    Keys <- MCKeys1
    JumpSlot <- MCJumpSlot
    NServers = 2
    FailThreshold = 2
    MaxWaitingClients = 2
    LBMode = "Fallback"
    NoEntry = NoEntry
    NoServer = NoServer
    c1 = c1  c2 = c2  c3 = c3  k1 = k1  k2 = k2
SPECIFICATION Spec
PROPERTY ProbesOnlyOffline
\* The client set is finite: once every query is settled nothing is left to do.
CHECK_DEADLOCK FALSE
