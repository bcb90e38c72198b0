SPECIFICATION RepairSpec
CONSTANTS
    U64 = 32
    Stream <- SafeStream
    MayArrive <- AnyTime
    Tx <- Txs
    Payload <- TwoPayloads
    InitHead <- B1
    StateLost <- Genesis
    GasLimit = 3
    RpcMayFail = TRUE
INVARIANTS
    ServesGatewayPrefix
    OnlyGatewayBlocks
PROPERTY DriverRepairs
