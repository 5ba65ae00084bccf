SPECIFICATION Spec
CONSTANTS
    N = 2
    B = 2
    Deep = {2}
    Worlds <- MCWorlds
INVARIANTS
    CopyWithinLock
    ViewIsFrozen
    FailureCleansUp
    HonestModelLoads
    LoadedIsLocked
    OkLeavesNothing
PROPERTIES
    ViewEnds
