CONSTANTS
    MaxGen = 2
    MaxEvents = 3
    MaxCoalesced = 2
    MaxFailures = 1
    MaxOutside = 2
    MaxTotal = 4
SPECIFICATION FairSpec
INVARIANTS EmissionOrder TailSurvivesClaim
           StreamIsFenced ReceiptsAreTrue
PROPERTY ReceiptsSettle
CHECK_DEADLOCK FALSE
