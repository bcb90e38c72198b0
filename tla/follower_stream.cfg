SPECIFICATION StreamSpec
CONSTANTS
    U64 = 32
    Stream <- StreamOfThree
    MayArrive <- OnceWarm
    Tx <- Txs
    Payload <- NoPayloads
    InitHead <- B1
    StateLost <- Genesis
    GasLimit = 3
    RpcMayFail = FALSE
PROPERTIES
    FeedsInOrder
    KeepsPreconfirmations
    SealsEveryBlock
CHECK_DEADLOCK FALSE
