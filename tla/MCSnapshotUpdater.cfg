\* One session: PUTs, a chunk per token, one fault, a connection that comes, goes
\* and comes back.
SPECIFICATION FairUpdaterSpec
CONSTANTS
    weth = weth
    usdc = usdc
    Session = {s1}
    Token = {weth, usdc}
    WatchList <- MCWatchList
    Permits = 1
    MaxBlock = 1
    MaxLag = 0
    MaxFaults = 1
    ChunkSize = 1
    MaxFlaps = 3
PROPERTIES
    WatchedIsRead
    CancelledStops
CHECK_DEADLOCK FALSE
