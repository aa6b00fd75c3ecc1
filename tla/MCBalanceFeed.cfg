\* Both producers, a lagging node, one failed call or dropped PUT handler.
SPECIFICATION Spec
CONSTANTS
    weth = weth
    usdc = usdc
    Token = {weth, usdc}
    WatchList <- MCWatchList
    Amount = {a0, a1}
    Producer = {"snapshot", "queue"}
    Client = {c1}
    ChunkSize = 2
    Capacity = 1
    MaxBlock = 2
    MaxLag = 1
    MaxFaults = 1
SYMMETRY Symmetry
INVARIANTS
    SnapshotTrue
    EveryChangeTold
PROPERTIES
    StaleNeverOverwrites
