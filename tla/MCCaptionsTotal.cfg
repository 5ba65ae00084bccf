SPECIFICATION CaptionsSpec
CONSTANTS
    N = 3
    Milli = 2
    Gap = 4
    Tolerance = 3
    SegmentLimit = 8
    TotalLimit = 30
    Talks <- MCTalks
    Offsets <- MCOffsets
    MaxChanges = 2
    MaxRuns = 2
    MaxFaults = 1
INVARIANTS
    TooLongIsTooLong
