\* Uniform retries while the live set changes under the pending query.
CONSTANTS
    Clients <- MCClients3
    Keys <- MCKeys2
    JumpSlot <- MCJumpSlot
    NServers = 3
    FailThreshold = 2
    MaxWaitingClients = 3
    LBMode = "Uniform"
    NoEntry = NoEntry
    NoServer = NoServer
    c1 = c1  c2 = c2  c3 = c3  k1 = k1  k2 = k2
SPECIFICATION Spec
PROPERTY RetryAvoidsPrimary
\* The client set is finite: once every query is settled nothing is left to do.
CHECK_DEADLOCK FALSE
