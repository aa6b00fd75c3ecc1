\* Two log sources: progress, recovery from a stall and shutdown.
SPECIFICATION FairSpec
CONSTANTS
    MaxBlock = 4
    MaxReorgs = 0
    MaxHttpLag = 0
    BlockChannelCap = 2
    Source = {"erc20", "weth9"}
    MaxBlockLag = 1
    ChunkBlocks = 1
    TransferCap = 1
PROPERTIES
    LagHeals
    StalledStreamReplaced
    ShutdownDrains
