SPECIFICATION Spec
CONSTANTS
    Replicas = {a}
    None = None
    Asked = {}
    Late = {a}
    MaxChanges = 1
    MaxEvents = 0
INVARIANT RecoveryYields
CHECK_DEADLOCK FALSE
