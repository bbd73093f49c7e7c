SPECIFICATION Spec
CONSTANTS
    Requests = {r1, r2}
    Servers = {s1}
    Start = 2
    Estimate = 2
    Cost = 3
    Refill = 4
    MaxAttempts = 3
    MaxPeriods = 1
    MaxFaults = 2
INVARIANTS NothingLost MadeOnce JournalFits
CHECK_DEADLOCK FALSE
