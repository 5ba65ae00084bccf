SPECIFICATION Spec
CONSTANTS
    Last = 4
    Depth = 1
    Value = {"a", "b"}
    MaxBytes = 2
    MaxSize = 4
    Worlds <- MCWorlds
    MaxEdits = 3
    MaxClock = 2
PROPERTIES
    ImplementsAtomicRead
