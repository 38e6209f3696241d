CONSTANTS
    a1 = a1
    a2 = a2
    a3 = a3
    a4 = a4
    a5 = a5
    a6 = a6
    a7 = a7
    bad = bad
    Addresses <- MCAddresses
    BadViewKeys = {bad}
    Files <- MCFiles
    NoNetwork = NoNetwork
    MinimumNodeCount = 7
    PledgeAmount = 10000
    MaxRestarts = 4
SPECIFICATION Spec
INVARIANT LoadedGenesisValid
CHECK_DEADLOCK FALSE
