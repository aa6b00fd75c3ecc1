\* One log source; gaps beyond the cap, chunks that are bisected, a reorg.
SPECIFICATION Spec
CONSTANTS
    MaxBlock = 6
    MaxReorgs = 1
    MaxHttpLag = 1
    BlockChannelCap = 2
    Source = {"erc20"}
    MaxBlockLag = 4
    ChunkBlocks = 3
    TransferCap = 2
INVARIANTS
    OldestFirst
    TypeOK
    NoSilentGap
    NothingRefetched
    CaughtUpWhenIdle
