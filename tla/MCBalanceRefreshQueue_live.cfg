\* Progress: one session, three transfers of two tokens, channels of one message.
SPECIFICATION FairQueueSpec
CONSTANTS
    Session = {s1}
    Token = {weth, usdc}
    WatchList = {{weth, usdc}}
    Permits = 1
    MaxBlock = 4
    MaxLag = 0
    MaxFaults = 1
    InCap = 1
    OutCap = 1
    MaxQueueSize = 2
    MaxRetries = 1
    Unpinned = FALSE
PROPERTIES
    FanoutEnds
    RemovedDrains
CHECK_DEADLOCK FALSE
