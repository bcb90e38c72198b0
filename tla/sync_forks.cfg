SPECIFICATION SyncSpec
CONSTANTS
    Tx = {}
    Block <- TwoChains
    InitHead <- Root
    MaxPending = 5
INVARIANTS PendingSorted NextBlockRequested
PROPERTY RollsBackForAnotherChainOnly
CHECK_DEADLOCK FALSE
