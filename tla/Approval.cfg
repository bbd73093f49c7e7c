SPECIFICATION FairSpec
CONSTANTS
    Requests = {r1, r2}
    MaxGens = 2
    MaxActions = 2
    MaxStarts = 3
    MaxFaults = 1
INVARIANTS OneDriver RowBeforeDecision OnlyOverdueExpires AnswersAreTrue
PROPERTIES FinalRowStays NothingWaitsForEver
CHECK_DEADLOCK FALSE
