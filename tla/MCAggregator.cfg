CONSTANTS
    Mainnet = FALSE
    ForkRound = 1
    MaxRound = 4
    MaxSnaps = 2
    MaxFaults = 3
    MaxRestarts = 2
SPECIFICATION FairSpec
INVARIANT AggregatedComplete
INVARIANT CursorWithinCache
INVARIANT PanicOnlyPreFork
PROPERTY AggregationProgress
PROPERTY AggregationRefined
CHECK_DEADLOCK FALSE
