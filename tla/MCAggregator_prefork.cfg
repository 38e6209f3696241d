CONSTANTS
    Mainnet = TRUE
    ForkRound = 1
    MaxRound = 3
    MaxSnaps = 2
    MaxFaults = 2
    MaxRestarts = 1
SPECIFICATION Spec
INVARIANT NoPanic
CHECK_DEADLOCK FALSE
