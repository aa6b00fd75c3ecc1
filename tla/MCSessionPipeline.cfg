\* One session: a PUT may come before, between and after every step of a transfer's
\* way and of a full read.
SPECIFICATION Spec
CONSTANTS
    weth = weth
    usdc = usdc
    Session = {s1}
    Token = {weth, usdc}
    WatchList <- MCWatchList
    Permits = 1
    MaxBlock = 2
    MaxLag = 0
    MaxFaults = 0
    InCap = 1
    OutCap = 1
    MaxQueueSize = 2
    MaxRetries = 1
    Unpinned = TRUE
    ChunkSize = 1
    MaxFlaps = 1
INVARIANTS
    TypeOK
    NothingForgotten
    PermitsAccounted
CHECK_DEADLOCK FALSE
