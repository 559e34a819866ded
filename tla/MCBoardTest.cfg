SPECIFICATION Spec
CONSTANTS
    MaxPolls = 2
    Hops = 2
    MaxRuns = 2
INVARIANTS
    ExitMatchesResults
    PassMeansReady
PROPERTY
    InvocationsEnd
CHECK_DEADLOCK FALSE
