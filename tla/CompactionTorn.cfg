SPECIFICATION Spec
CONSTANTS
    Keep = 3
    Chains <- SomeChains
    MaxFailures = 1
    MaxBatch = 2
    MaxCalls = 3
    MaxNotes = 0
    MaxTasks = 0
CHECK_DEADLOCK FALSE
INVARIANT CallsAnswered
