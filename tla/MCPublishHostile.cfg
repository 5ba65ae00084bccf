SPECIFICATION Spec
CONSTANTS
    Proc = {p1, p2}
    d1 = d1
    TempName = {t1, t2}
    Name <- MCName
    Dest <- MCDest
    Payload <- MCPayload
    Size = 2
    MaxTries = 2
    MaxFaults = 2
    MaxMeddles = 1
    MaxCrashes = 1
    MaxOutages = 1
    Nothing = Nothing
    Foreign = Foreign
    Torn = Torn
SYMMETRY MCSymmetry
INVARIANTS
    WholeOrAbsent
    SuccessLasts
    FailureLeavesNothing
PROPERTIES
    SparesOthers
    ImplementsWriteOnce
