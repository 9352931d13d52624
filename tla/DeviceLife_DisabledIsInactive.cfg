CONSTANTS
    olt = olt
    Onus = {u1}
    MaxRequests = 4
    MaxFailures = 0
    MaxCrashes = 0
SPECIFICATION Spec
CHECK_DEADLOCK FALSE
INVARIANT DisabledIsInactive
