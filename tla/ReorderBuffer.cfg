CONSTANTS
    MaxSeq = 3
    MaxBatch = 2
    MaxBufferSize = 2
    MaxSubscribers = 1
    MaxStates = 2
    MaxSyncs = 1
SPECIFICATION FairSpec
INVARIANTS BufferIsSound Accounted InOrderDelivery
PROPERTIES HeldEventsLeave KeepsOrder
CHECK_DEADLOCK FALSE
