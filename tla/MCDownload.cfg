SPECIFICATION Spec
CONSTANTS
    Proc = {p1, p2}
    N = 2
    Size = 2
    MaxRedirects = 1
    MaxFaults = 2
    MaxCrashes = 1
INVARIANTS
    SuccessIsWhole
PROPERTIES
    OnlyLockedArrives
    Converges
