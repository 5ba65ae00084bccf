SPECIFICATION Spec
CONSTANTS
    Proc = {p1, p2}
    N = 3
    Durations <- MCDurations
    Layouts <- MCLayouts
    SegmentLimit = 2
    ManifestLimit = 3
    MaxFaults = 1
INVARIANTS
    Reproducible
    OkOwnsAll
    PrefixPublished
    OneOwner
PROPERTIES
    Completes
