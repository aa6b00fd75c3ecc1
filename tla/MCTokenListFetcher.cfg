\* Two handlers, two lists, one of which changes; a cache that holds one of them.
SPECIFICATION FairSpec
CONSTANTS
    weth = weth
    usdc = usdc
    dai = dai
    native = native
    cow = cow
    uniswap = uniswap
    unknown = unknown
    Request = {r1, r2}
    Url = {cow, uniswap, unknown}
    Parsed <- MCParsed
    Address = {weth, usdc, dai, native}
    Weth9 = weth
    Native = native
    List <- MCList
    Bodies <- MCBodies
    AllowedHosts = {"files.cow.fi", "ipfs.io"}
    AllowPrivateHosts = FALSE
    TokenLimit = 2
    Ttl = 2
    Capacity = 1
    MaxRetries = 1
INVARIANTS
    TypeOK
    AcceptedIsComplete
    FailsForItsOwnLoad
    LoadedOnce
PROPERTIES
    RequestEnds
