SPECIFICATION SequencerSpec
CONSTANTS
    Tx = {"d", "t"}
    Block <- TwoBlocks
    InitHead <- Root
    MaxPending = 2
    Attributes <- OneDeposit
    CommitSealedFragsToDb = TRUE
    MaxCalls = 5
    MaxBlockTxs = 2
    MaxRequests = 2
INVARIANTS GossipWellFormed SealKeepsPreconfirmations
CHECK_DEADLOCK FALSE
