CONSTANTS
    olt = olt
    Onus = {u1}
    MaxRequests = 5
    MaxFailures = 0
    MaxCrashes = 1
SPECIFICATION Spec
CHECK_DEADLOCK FALSE
PROPERTY DisableTakesEffect
