SPECIFICATION GethSpec
CONSTANTS
    Message <- Messages
    Tx <- Txs
    Payload <- Payloads
    InitHead <- H0
    StateLost <- Genesis
    GasLimit = 2
INVARIANTS
    GethTypeOK
    OpenBlockWellFormed
    StateMatchesOpenBlock
    CompleteBlockIsPreSealed
    DatabaseIsValid
PROPERTIES
    OpenBlockOnlyGrows
