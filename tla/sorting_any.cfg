SPECIFICATION SortingSpec
CONSTANTS
    alice = alice
    bob = bob
    l1 = l1
    Sender = {alice, bob, l1}
    Tx <- AllKinds
    BaseFee = 0
    Unfunded = {}
    Forced <- L1Attributes
    GasLimit = 4
    NoTxPool = {FALSE}
    n_per_loop = 2
    MaxSends = 3
    MaxBlocks = 1
    MaxCommits = 2
    Block <- Chains
    InitHead <- Root
INVARIANTS FragsExecutable NextIsExecutable InFlightIsOutstanding OrderForEveryResult
PROPERTIES ReadyIsActive ForgetsOnlyMined NothingWaitsForEver
CHECK_DEADLOCK FALSE
