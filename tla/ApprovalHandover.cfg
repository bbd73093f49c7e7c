SPECIFICATION Spec
CONSTANTS
    Requests = {r1}
    MaxGens = 1
    MaxActions = 2
    MaxStarts = 3
    MaxFaults = 1
INVARIANTS PauseSurvivesItsSegment
CHECK_DEADLOCK FALSE
