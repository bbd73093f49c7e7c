SPECIFICATION Spec
CONSTANTS
    Replicas = {a, b}
    None = None
    Asked = {a}
    Late = {b}
    MaxChanges = 1
    MaxEvents = 1
INVARIANTS KeepsTrack QuietIsCurrent
CHECK_DEADLOCK FALSE
