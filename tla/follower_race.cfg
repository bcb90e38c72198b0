SPECIFICATION FollowerSpec
CONSTANTS
    U64 = 32
    Stream <- StreamOfThree
    MayArrive <- OnceWarm
    Tx <- Txs
    Payload <- ThreePayloads
    InitHead <- B1
    StateLost <- Genesis
    GasLimit = 3
    RpcMayFail = FALSE
PROPERTY EngineNeverRefuses
CHECK_DEADLOCK FALSE
