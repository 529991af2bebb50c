SPECIFICATION Spec
CONSTANTS
    Callers = {c1, c2}
    MaxMessages = 3
    MaxCalls = 3
    Limit = 2
    Page = 2
    Keep = 1
    MaxOutages = 1
CHECK_DEADLOCK FALSE
SYMMETRY CallersOnly
INVARIANTS LoggedOnce InOrder NothingLost HistoryBounded
