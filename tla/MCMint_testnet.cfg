CONSTANTS
    MintPool = 100000
    MintLiquidity = 100000
    MintYearShares = 10
    MintYearBatches = 2
    MintNodeMaximum = 50
    Nil = Nil
    DomainAccount = DomainAccount
    Custodians = {c1, c2}
    Mainnet = FALSE
    KernelMintTimeBegin = 6
    KernelMintTimeEnd = 8
    MainnetMintPeriodForkBatch = 2
    MainnetMintPeriodForkTimeBegin = 6
    MainnetMintPeriodForkTimeEnd = 18
    MainnetMintTransactionV2ForkBatch = 2
    MainnetMintTransactionV3ForkBatch = 3
    EpochHour = 20
    Works <- MCWorks
    MaxHour = 104
    MaxCustodianUpdates = 1
SPECIFICATION Spec
INVARIANT ReplayRoundTrip
