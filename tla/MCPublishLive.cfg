SPECIFICATION Spec
CONSTANTS
    Proc = {p1, p2}
    d1 = d1
    TempName = {t1, t2}
    Name <- MCName
    Dest <- MCDest
    Payload <- MCPayload
    Size = 1
    MaxTries = 2
    MaxFaults = 2
    MaxMeddles = 1
    MaxCrashes = 0
    MaxOutages = 0
    Nothing = Nothing
    Foreign = Foreign
    Torn = Torn
PROPERTIES
    RivalsDecide
