SPECIFICATION ReceiptSpec
CONSTANTS
    N = 2
    Milli = 2
    Fine = 10000
    Tolerance = 10
    Samples = {1, 1053, 1601}
    Times = {1, 1103}
    Spares = {1, 3}
    Lies <- MCLies
    SegmentLimit = 800
    AudioLimit = 1000
    TimeLimit = 1200
    FactorLimit = 2
INVARIANTS
    HonestReceiptPasses
    BelievedIsConsistent
