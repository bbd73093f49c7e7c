SPECIFICATION Spec
CONSTANTS
    MaxRequests = 2
    FirstSeq = 1
    MaxChunks = 1
    Statuses = {"complete", "paused", "replaced"}
    MaxEarly = 1
    MaxFaults = 1
INVARIANTS OnceWhenPaused NothingMissing AttachmentsSettle ReadersEnd PauseIsSeen
CHECK_DEADLOCK FALSE
