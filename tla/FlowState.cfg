SPECIFICATION FlowFairSpec
CONSTANTS
    Callers = {c1, c2}
    Callbacks = {b1}
    Ttl = 2
    Timeout = 1
    TokenLife = 0
    MaxTime = 2
    MaxOutside = 1
INVARIANTS MissingIsExplained
PROPERTIES CallsSettle
CHECK_DEADLOCK FALSE
