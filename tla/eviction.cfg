\* Admission control under Uniform: max_waiting_clients = 1 forces an eviction on every new key.
CONSTANTS
    Clients <- MCClients3
    Keys <- MCKeys2
    JumpSlot <- MCJumpSlot
    NServers = 2
    FailThreshold = 2
    MaxWaitingClients = 1
    LBMode = "Uniform"
    NoEntry = NoEntry
    NoServer = NoServer
    c1 = c1  c2 = c2  c3 = c3  k1 = k1  k2 = k2
SPECIFICATION Spec

INVARIANT WaitingCountMatches
INVARIANT WaitingBounded
PROPERTY ImplementsPendingTable
\* The client set is finite: once every query is settled nothing is left to do.
CHECK_DEADLOCK FALSE
