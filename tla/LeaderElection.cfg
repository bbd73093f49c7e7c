SPECIFICATION FairSpec
CONSTANTS
    Nodes = {n1, n2}
    Calls = {1}
    Lease = 4
    Interval = 1
    Attempts = 1
    MaxLate = 1
    MaxFaults = 2
INVARIANTS TimerHoldsLease
PROPERTIES YesIsTrue LeaseEnds LeaderReturns
CHECK_DEADLOCK FALSE
