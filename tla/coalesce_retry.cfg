\* Coalescing, first timeout, retry and the response path under P2, with
\* room for every client (no eviction).
CONSTANTS
    Clients <- MCClients3
    Keys <- MCKeys2
    JumpSlot <- MCJumpSlot
    NServers = 2
    FailThreshold = 2
    MaxWaitingClients = 3
    LBMode = "P2"
    NoEntry = NoEntry
    NoServer = NoServer
    c1 = c1  c2 = c2  c3 = c3  k1 = k1  k2 = k2
SPECIFICATION Spec
INVARIANT TypeOK
INVARIANT WaitingCountMatches

INVARIANT AtMostTwoSends
PROPERTY ImplementsPendingTable
PROPERTY RetriedQueryResolved
\* The client set is finite: once every query is settled nothing is left to do.
CHECK_DEADLOCK FALSE
