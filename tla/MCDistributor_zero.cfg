CONSTANTS
    Precision = 100
    Thr = 4
    NodeCount = 5
    RawChoices <- MCRawChoices
    Base = 7000
SPECIFICATION Spec
INVARIANT ZeroWorkUnpaid
