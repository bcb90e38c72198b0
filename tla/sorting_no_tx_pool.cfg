SPECIFICATION SortingSpec
CONSTANTS
    alice = alice
    bob = bob
    l1 = l1
    Sender = {alice, bob, l1}
    Tx <- Transfers
    BaseFee = 0
    Unfunded = {}
    Forced <- L1Attributes
    GasLimit = 4
    NoTxPool = {TRUE}
    n_per_loop = 2
    MaxSends = 3
    MaxBlocks = 1
    MaxCommits = 1
    Block <- Chains
    InitHead <- Root
INVARIANT NoTxPoolHonoured
CHECK_DEADLOCK FALSE
