SPECIFICATION GatewaySpec
CONSTANTS
    Tx = {"d", "e", "t", "u"}
    Block <- Others
    InitHead <- Root
    InitRemote <- Tip
    BatchSize = 2
    MaxPending = 9
    Attributes <- Deposits
    CommitSealedFragsToDb = FALSE
    MaxCalls = 12
    MaxBlockTxs = 2
    MaxRequests = 9
INVARIANTS HonestSeals BuildsOnHead
PROPERTIES NoBlockWhileSorting CatchesUp
CHECK_DEADLOCK FALSE
