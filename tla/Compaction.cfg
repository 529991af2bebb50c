SPECIFICATION Spec
CONSTANTS
    Keep = 2
    Chains <- SomeChains
    MaxFailures = 1
    MaxBatch = 2
    MaxCalls = 3
    MaxNotes = 1
    MaxTasks = 1
CHECK_DEADLOCK FALSE
INVARIANTS ResultsFollowCalls CallsHaveResult ShownStays LatestShown
