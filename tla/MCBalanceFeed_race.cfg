\* Both producers: the order of merges is not the order of broadcasts.
SPECIFICATION Spec
CONSTANTS
    weth = weth
    usdc = usdc
    Token = {weth, usdc}
    WatchList <- MCWatchList
    Amount = {a0, a1}
    Producer = {"snapshot", "queue"}
    Client = {c1}
    ChunkSize = 1
    Capacity = 2
    MaxBlock = 2
    MaxLag = 1
    MaxFaults = 0
SYMMETRY Symmetry
INVARIANTS
    Converged
