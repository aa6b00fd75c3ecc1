\* Progress of the updater alone.
SPECIFICATION FairSpec
CONSTANTS
    weth = weth
    usdc = usdc
    Token = {weth, usdc}
    WatchList <- MCWatchList
    Amount = {a0, a1}
    Producer = {"snapshot"}
    Client = {c1}
    ChunkSize = 1
    Capacity = 1
    MaxBlock = 2
    MaxLag = 0
    MaxFaults = 1
INVARIANTS
    TypeOK
    Converged
PROPERTIES
    EventuallyFresh
