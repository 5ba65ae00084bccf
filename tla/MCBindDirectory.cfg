SPECIFICATION Spec
CONSTANTS
    Proc = {p1, p2}
    Last = 4
    Depth = 2
    Worlds <- MCWorlds
    MaxFaults = 1
    MaxMeddles = 2
INVARIANTS
    ProtectedAllAlong
    NoDescriptorLeft
PROPERTIES
    RivalsShare
