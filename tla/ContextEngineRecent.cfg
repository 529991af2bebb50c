SPECIFICATION Spec
CONSTANTS
    Callers = {c1}
    MaxMessages = 3
    MaxCalls = 1
    Limit = 3
    Page = 2
    Keep = 1
    MaxOutages = 0
CHECK_DEADLOCK FALSE
INVARIANT RecentKept
