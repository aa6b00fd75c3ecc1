\* Two sessions of the owner share the listener and a single permit; every channel
\* holds one message.
SPECIFICATION QueueSpec
CONSTANTS
    Session = {s1, s2}
    Token = {weth, usdc}
    WatchList <- MCWatchList
    Permits = 1
    MaxBlock = 3
    MaxLag = 0
    MaxFaults = 1
    InCap = 1
    OutCap = 1
    MaxQueueSize = 2
    MaxRetries = 1
    Unpinned = FALSE
SYMMETRY Symmetry
INVARIANTS
    TransferReflected
    WorkerOutlivesSession
CHECK_DEADLOCK FALSE
