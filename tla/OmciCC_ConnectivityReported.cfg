SPECIFICATION Spec
CONSTANTS
    MaxSends = 3
    MaxTid = 2
    AlarmLimit = 1
    MaxOnu = 0
    MaxRestarts = 1
INVARIANT ConnectivityReported
CHECK_DEADLOCK FALSE
