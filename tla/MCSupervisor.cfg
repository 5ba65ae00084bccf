SPECIFICATION Spec
CONSTANTS
    Limit = 2
    MaxSent = 4
    PipeSize = 1
    Deadline = 2
INVARIANTS
    TypeOK
    ReceiptComplete
    NoSurvivor
    VerdictJust
PROPERTIES
    AlwaysReturns
