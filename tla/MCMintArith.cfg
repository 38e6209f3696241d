CONSTANTS
    MintPool = 500000000
    MintLiquidity = 500000000
    MintYearShares = 10
    MintYearBatches = 365
    MintNodeMaximum = 50
    MaxBatch = 1100
    MaxGap = 2
SPECIFICATION Spec
INVARIANT GateWithinPool
PROPERTY PoolShrinks
