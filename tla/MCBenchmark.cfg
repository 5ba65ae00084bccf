SPECIFICATION Spec
CONSTANTS
    N = 2
    Trials = 3
    Audio = {1, 2}
    Voices <- MCVoices
    RenderTimeout = 2
    Timeout = 3
    MaxEdits = 2
    MaxMishaps = 2
INVARIANTS
    ReportIsUniform
    ReportNamesItsCode
    BudgetKept
    FailureHasCause
PROPERTIES
    Ends
