SPECIFICATION IngestSpec
CONSTANTS
    Runs = {r1}
    MaxCollections = 6
    MaxKills = 1
    MaxFailures = 2
    MaxStranded = 1
    MaxRollbacks = 3
INVARIANT AliasIsSound
PROPERTIES RollbackReturns AliasServes
CHECK_DEADLOCK FALSE
